----------------------------- MODULE LegalPlan -----------------------------
(***************************************************************************)
(* One execution plan of the Legal Butler (legal_agent_orchestrator.py,    *)
(* legal_agent_requests.py, legal_dependencies.py, agent_attempts.py, the  *)
(* legal half of analysis_recovery.py, and the Celery tasks that run it).  *)
(*                                                                         *)
(* A step is a transaction, a read in a session of its own, or the end of  *)
(* a task.  COMPLETED stands for COMPLETED and NEEDS_INFORMATION, which    *)
(* this code never tells apart.  Raising inside a wave cancels the other   *)
(* steps of the wave (asyncio.TaskGroup) and ends the task, as it does     *)
(* anywhere else: these tasks have no retry of their own.                  *)
(***************************************************************************)
EXTENDS Naturals, Sequences, FiniteSets

CONSTANTS
    Workers,      \* Celery worker processes
    Steps,        \* step IDs of the plan the Butler will propose
    DependsOn,    \* DependsOn[s]: the direct dependencies of step s
    Place,        \* Place[s]: its place in the Butler's list (sequence)
    MaxAttempts,  \* max_retries + 1 of the agent definitions
    MaxRuns,      \* bound on the agent runs of the plan
    MaxQueued,    \* bound on the recovery tasks in the broker
    MaxReruns,    \* bound on the reruns users request
    MaxFaults     \* bound on crashes, stalls, lost tasks and cancellations

\* The steps of the first n topological waves.
FirstWaves[n \in 0..Cardinality(Steps)] ==
    IF n = 0 THEN {} ELSE {s \in Steps : DependsOn[s] \subseteq FirstWaves[n - 1]}

ASSUME PlanAssumption ==
    /\ {"orchestrate", "recover", "none", "planning", "synthesis"} \cap Steps = {}
    /\ IsFiniteSet(Steps)
    /\ DependsOn \in [Steps -> SUBSET Steps]
    /\ Place \in [Steps -> Nat]
    /\ \A d, s \in Steps : Place[d] = Place[s] => d = s
    /\ {MaxAttempts, MaxRuns} \subseteq Nat \ {0}
    /\ {MaxQueued, MaxReruns, MaxFaults} \subseteq Nat

\* What validate_steps demands: of any steps, one depends on none of the others.
ASSUME PlanIsAcyclic ==
    \A some \in SUBSET Steps : some # {} => \E s \in some : DependsOn[s] \cap some = {}

VARIABLES
    plan,      \* the row of agent_execution_plans
    step,      \* step[s]: its row of agent_plan_steps
    runs,      \* its agent_runs, each with its current attempt, oldest first
    packages,  \* the review packages of its syntheses
    event,     \* a LegalAgentRecoveryRequested event of the plan is pending
    queued,    \* queued[k]: tasks of kind k in the broker
    worker,    \* worker[w]: the task of process w and what it holds in memory
    used       \* reruns and faults so far

vars == <<plan, step, runs, packages, event, queued, worker, used>>

-----------------------------------------------------------------------------
RunIds == 0..MaxRuns   \* 0 is None

Plan == [status : {"NONE", "PLANNING", "PLANNED", "RUNNING", "COMPLETED", "PARTIAL", "FAILED"},
         synthesis : RunIds]

StepStatus == {"PENDING", "RUNNING", "COMPLETED", "FAILED", "SKIPPED"}

Step == [status : StepStatus, latest : RunIds, valid : RunIds]

\* PREPARING, VALIDATING and FAILED live within a transaction only.  lease is that
\* of the attempt number; lapsed is a RUNNING attempt past lease_expires_at.  deps
\* is dependency_run_ids, the runs of the direct dependencies when the run was
\* reserved; input, once it is completed, those whose outputs its input_payload has.
Run == [role : {"planning", "synthesis"} \cup Steps,
        status : {"QUEUED", "RUNNING", "COMPLETED", "CANCELLED", "DEAD_LETTER"},
        number : 1..MaxAttempts,
        lease : {"none", "live", "lapsed", "over"},
        deps : [Steps -> RunIds],
        input : [Steps -> RunIds]]

Kinds == {"orchestrate", "recover"} \cup Steps   \* a step: its rerun

\* SpecialistStepExecution; "none" is a step without a result in memory.
Result == [status : StepStatus \cup {"none"}, run : RunIds]

\* A step within execute_plan_waves.
Branch == [at : {"over", "start", "claim", "run"}, run : RunIds, number : 0..MaxAttempts]

Worker == [task : Kinds \cup {"none"},
           at : {"idle", "begin", "claim", "planning", "normalize", "invalidate", "list",
                 "reserve", "waves", "synthesize", "synthesis"},
           run : RunIds, number : 0..MaxAttempts,
           found : [Steps -> Result], branch : [Steps -> Branch]]

NoDeps == [s \in Steps |-> 0]
NoResult == [status |-> "none", run |-> 0]
Over == [at |-> "over", run |-> 0, number |-> 0]
Idle == [task |-> "none", at |-> "idle", run |-> 0, number |-> 0,
         found |-> [s \in Steps |-> NoResult], branch |-> [s \in Steps |-> Over]]

\* _new_run.
NewRun(role, deps) ==
    [role |-> role, status |-> "QUEUED", number |-> 1, lease |-> "none", deps |-> deps,
     input |-> NoDeps]

Init ==
    /\ plan = [status |-> "NONE", synthesis |-> 0]
    /\ step = [s \in Steps |-> [status |-> "PENDING", latest |-> 0, valid |-> 0]]
    /\ runs = <<>>
    /\ packages = {}
    /\ event = FALSE
    /\ queued = [k \in Kinds |-> IF k = "orchestrate" THEN 1 ELSE 0]
    /\ worker = [w \in Workers |-> Idle]
    /\ used = [reruns |-> 0, faults |-> 0]

-----------------------------------------------------------------------------
Active == \E r \in DOMAIN runs : runs[r].status = "RUNNING"

Planned == runs # <<>> /\ runs[1].status = "COMPLETED"

Completed(s) == step[s].status = "COMPLETED"

\* ensure_current_step_run, ensure_current_synthesis_run, _is_current_legal_run.
Current(r) ==
    CASE runs[r].role = "planning"  -> r = 1
      [] runs[r].role = "synthesis" -> plan.synthesis = r
      [] OTHER                      -> step[runs[r].role].latest = r

\* The lease predicates of agent_run_attempts, and a run that may leave RUNNING.
Holds(r, n) ==
    /\ runs[r].status = "RUNNING"
    /\ runs[r].number = n
    /\ runs[r].lease = "live"

Mine(w) == Holds(worker[w].run, worker[w].number) /\ Current(worker[w].run)

BranchMine(w, s) ==
    /\ Holds(worker[w].branch[s].run, worker[w].branch[s].number)
    /\ Current(worker[w].branch[s].run)

\* AgentExecutionLeaseService.start within _claim_run.
Claimed(r) == [runs EXCEPT ![r] = [@ EXCEPT !.status = "RUNNING", !.lease = "live"]]

\* The run and its attempt have ended.
Ended(run, status) == [run EXCEPT !.status = status, !.lease = "over"]

\* The run waits for its next attempt.
Retried(run) == [run EXCEPT !.status = "QUEUED", !.number = @ + 1, !.lease = "none"]

\* complete, and the transitions of _apply_run_success.
Succeeded(r) == [runs EXCEPT ![r] = Ended(@, "COMPLETED")]

WillRetry(r, retryable) == retryable /\ runs[r].number < MaxAttempts

\* fail, and _queue_retry_or_dead_letter.
Failed(r, retryable) ==
    IF WillRetry(r, retryable)
    THEN [runs EXCEPT ![r] = Retried(@)]
    ELSE [runs EXCEPT ![r] = Ended(@, "DEAD_LETTER")]

\* exists_pending keeps one event per plan.
EnsureEvent(needed) == event' = (event \/ needed)

Fault == used.faults < MaxFaults /\ used' = [used EXCEPT !.faults = @ + 1]

EndTask(w) == worker' = [worker EXCEPT ![w] = Idle]

GoTo(w, at) == worker' = [worker EXCEPT ![w].at = at]

-----------------------------------------------------------------------------
\* RequestLegalAgentStepRerunHandler, and the dispatch of its event.
RequestRerun(s) ==
    /\ used.reruns < MaxReruns
    /\ used' = [used EXCEPT !.reruns = @ + 1]
    /\ Planned
    /\ queued' = [queued EXCEPT ![s] = @ + 1]
    /\ UNCHANGED <<plan, step, runs, packages, event, worker>>

\* CancelAgentRunHandler, for an operator: neither attempt, step nor plan follow.
CancelRun(r) ==
    /\ Fault
    /\ runs[r].status \in {"QUEUED", "RUNNING"}
    /\ runs' = [runs EXCEPT ![r].status = "CANCELLED"]
    /\ UNCHANGED <<plan, step, packages, event, queued, worker>>

\* _handle_legal_agent_recovery.
Dispatch ==
    /\ event
    /\ queued["recover"] < MaxQueued
    /\ event' = FALSE
    /\ queued' = [queued EXCEPT !["recover"] = @ + 1]
    /\ UNCHANGED <<plan, step, runs, packages, worker, used>>

Take(w, k) ==
    /\ worker[w] = Idle
    /\ queued[k] > 0
    /\ queued' = [queued EXCEPT ![k] = @ - 1]
    /\ worker' = [worker EXCEPT ![w].task = k, ![w].at = "begin"]
    /\ UNCHANGED <<plan, step, runs, packages, event, used>>

\* acks_late and reject_on_worker_lost: the task is delivered again.
Crash(w) ==
    /\ Fault
    /\ worker[w] # Idle
    /\ queued' = [queued EXCEPT ![worker[w].task] = @ + 1]
    /\ EndTask(w)
    /\ UNCHANGED <<plan, step, runs, packages, event>>

LoseTask(k) ==
    /\ Fault
    /\ queued[k] > 0
    /\ queued' = [queued EXCEPT ![k] = @ - 1]
    /\ UNCHANGED <<plan, step, runs, packages, event, worker>>

-----------------------------------------------------------------------------
\* execute finds no plan for its idempotency key: _prepare_planning.
PreparePlanning(w) ==
    /\ worker[w].at = "begin"
    /\ worker[w].task = "orchestrate"
    /\ plan.status = "NONE"
    /\ plan' = [plan EXCEPT !.status = "PLANNING"]
    /\ runs' = <<NewRun("planning", NoDeps)>>
    /\ worker' = [worker EXCEPT ![w].at = "claim", ![w].run = 1]
    /\ UNCHANGED <<step, packages, event, queued, used>>

\* execute or recover returns _replay_result.
Replay(w) ==
    /\ worker[w].at = "begin"
    /\ \/ worker[w].task = "orchestrate" /\ plan.status # "NONE"
       \/ /\ worker[w].task = "recover"
          /\ \/ plan.status = "COMPLETED"
             \/ Active
             \/ runs[1].status \notin {"QUEUED", "COMPLETED"}
    /\ EndTask(w)
    /\ UNCHANGED <<plan, step, runs, packages, event, queued, used>>

\* recover, up to the phase it resumes.
BeginRecovery(w) ==
    /\ worker[w].at = "begin"
    /\ worker[w].task = "recover"
    /\ plan.status # "COMPLETED"
    /\ ~Active
    /\ \/ runs[1].status = "QUEUED"
          /\ worker' = [worker EXCEPT ![w].at = "claim", ![w].run = 1]
       \/ runs[1].status = "COMPLETED" /\ GoTo(w, "normalize")
    /\ UNCHANGED <<plan, step, runs, packages, event, queued, used>>

\* _claim_run of a planning or synthesis run.
ClaimRun(w) ==
    LET r == worker[w].run IN
    /\ worker[w].at = "claim"
    /\ runs[r].status = "QUEUED"
    /\ runs' = Claimed(r)
    /\ worker' = [worker EXCEPT ![w].at = runs[r].role, ![w].number = runs[r].number]
    /\ UNCHANGED <<plan, step, packages, event, queued, used>>

AllStart == [s \in Steps |-> [Over EXCEPT !.at = "start"]]

\* _accept_planning: the steps become rows, PENDING.  recover goes on with its
\* second phase, execute with the waves.
AcceptPlanning(w) ==
    LET t == worker[w].task IN
    /\ worker[w].at = "planning"
    /\ Mine(w)
    /\ runs' = Succeeded(worker[w].run)
    /\ plan' = [plan EXCEPT !.status = "PLANNED"]
    /\ worker' = [worker EXCEPT ![w] =
                     IF t = "recover"
                     THEN [Idle EXCEPT !.task = t, !.at = "normalize"]
                     ELSE [Idle EXCEPT !.task = t, !.at = "waves", !.branch = AllStart]]
    /\ UNCHANGED <<step, packages, event, queued, used>>

\* Some specialist's output is among the results in memory.
HasOutput(w) == \E s \in Steps : worker[w].found[s].status = "COMPLETED"

\* _fail_run_and_plan, for a planning or a synthesis.
FailPhase(w, retryable) ==
    LET r == worker[w].run IN
    /\ worker[w].at \in {"planning", "synthesis"}
    /\ Mine(w)
    /\ runs' = Failed(r, retryable)
    /\ EnsureEvent(WillRetry(r, retryable))
    /\ plan' = IF WillRetry(r, retryable) THEN plan
               ELSE [plan EXCEPT !.status =
                        IF worker[w].at = "synthesis" /\ HasOutput(w)
                        THEN "PARTIAL" ELSE "FAILED"]
    /\ EndTask(w)
    /\ UNCHANGED <<step, packages, queued, used>>

-----------------------------------------------------------------------------
\* Mutant: the result of a dependency may have been replaced since.
OutdatedMut(s) == \E d \in DependsOn[s] : ~Completed(d)

\* _step_has_stale_dependencies.
Outdated(s) ==
    \E d \in DependsOn[s] :
        ~Completed(d) \/ runs[step[s].valid].deps[d] # step[d].valid

\* Completed steps that _invalidate_stale_dependents keeps.  It goes through the list
\* of the Butler once: a step that it drops drops those that depend on it, if they
\* are listed later.  validate_steps does not ask that they are.
StillSound ==
    UNION {some \in SUBSET {s \in Steps : Completed(s) /\ ~Outdated(s)} :
              \A s \in some : {d \in DependsOn[s] : Place[d] < Place[s]} \subseteq some}

\* _normalize_orphaned_recovery_lineage.  The code writes no synthesis run of a
\* wrong role, so there is none to clear.
Normalize(w) ==
    /\ worker[w].at = "normalize"
    /\ step' = [s \in Steps |->
                   IF /\ step[s].status = "RUNNING"
                      /\ runs[step[s].latest].status \notin {"QUEUED", "RUNNING"}
                   THEN [step[s] EXCEPT !.status = "FAILED"] ELSE step[s]]
    /\ GoTo(w, "invalidate")
    /\ UNCHANGED <<plan, runs, packages, event, queued, used>>

\* _invalidate_stale_dependents.
Invalidate(w) ==
    /\ worker[w].at = "invalidate"
    /\ step' = [s \in Steps |->
                   IF Completed(s) /\ s \notin StillSound
                   THEN [step[s] EXCEPT !.status = "SKIPPED"] ELSE step[s]]
    /\ GoTo(w, "list")
    /\ UNCHANGED <<plan, runs, packages, event, queued, used>>

\* _list_step_results.
Listed(s) ==
    IF Completed(s) /\ ~Outdated(s) THEN [status |-> "COMPLETED", run |-> step[s].valid]
    ELSE [status |-> IF Completed(s) THEN "SKIPPED" ELSE step[s].status, run |-> step[s].latest]

\* recover reads the plan again and then the results; here both at once.
ListForRecovery(w) ==
    LET open(s) == Listed(s).status \in {"PENDING", "RUNNING"}
        waiting(s) == step[s].latest # 0 /\ runs[step[s].latest].status = "QUEUED"
    IN
    /\ worker[w].at = "list"
    /\ worker[w].task = "recover"
    /\ worker' = [worker EXCEPT ![w] =
           IF plan.status = "COMPLETED" \/ Active THEN Idle
           ELSE [@ EXCEPT
                    !.at = "waves",
                    !.run = IF plan.synthesis # 0 /\ runs[plan.synthesis].status = "QUEUED"
                            THEN plan.synthesis ELSE 0,
                    !.found = [s \in Steps |-> IF open(s) THEN NoResult ELSE Listed(s)],
                    !.branch = [s \in Steps |->
                        IF ~open(s) THEN Over
                        ELSE IF waiting(s) THEN [Over EXCEPT !.at = "claim", !.run = step[s].latest]
                        ELSE [Over EXCEPT !.at = "start"]]]]
    /\ UNCHANGED <<plan, step, runs, packages, event, queued, used>>

\* rerun_step after its step: its own result replaces the one it reads.
ListForRerun(w) ==
    LET t == worker[w].task
        results == [s \in Steps |-> IF s = t THEN worker[w].found[s] ELSE Listed(s)]
    IN
    /\ worker[w].at = "list"
    /\ t \in Steps
    /\ worker' = [worker EXCEPT ![w] =
           IF \E s \in Steps : results[s].status = "RUNNING" THEN Idle
           ELSE [Idle EXCEPT !.task = t, !.at = "synthesize", !.found = results]]
    /\ UNCHANGED <<plan, step, runs, packages, event, queued, used>>

-----------------------------------------------------------------------------
\* DependencyContextAssembler.build.
DepsIn(w, s) ==
    [d \in Steps |-> IF d \in DependsOn[s] THEN worker[w].found[d].run ELSE 0]

DepsGood(w, s) == \A d \in DependsOn[s] : worker[w].found[d].status = "COMPLETED"

\* rerun_step reads the step and the results its dependencies have.
ReadForRerun(w) ==
    LET s == worker[w].task IN
    /\ worker[w].at = "begin"
    /\ s \in Steps
    /\ worker' = [worker EXCEPT ![w] =
           IF \A d \in DependsOn[s] : Listed(d).status = "COMPLETED"
           THEN [@ EXCEPT !.at = "reserve", !.run = step[s].latest,
                          !.found = [d \in Steps |-> Listed(d)]]
           ELSE Idle]
    /\ UNCHANGED <<plan, step, runs, packages, event, queued, used>>

Rerunnable == plan.status \in {"COMPLETED", "PARTIAL", "FAILED"}

MayReserve(w, s) ==
    /\ Rerunnable
    /\ step[s].status # "RUNNING"
    /\ step[s].latest = worker[w].run
    /\ \A d \in DependsOn[s] : Completed(d) /\ step[d].valid = worker[w].found[d].run

Resumed(synthesis) == [plan EXCEPT !.status = "RUNNING", !.synthesis = synthesis]

\* Mutant: the rerun is published before it has a result.
AddStepRunMut(w, s, synthesis) ==
    /\ Len(runs) < MaxRuns
    /\ runs' = Append(runs, NewRun(s, DepsIn(w, s)))
    /\ step' = [step EXCEPT ![s].status = "RUNNING", ![s].latest = Len(runs) + 1,
                            ![s].valid = Len(runs) + 1]
    /\ plan' = Resumed(synthesis)
    /\ worker' = [worker EXCEPT ![w].at = "waves", ![w].branch[s] =
                     [at |-> "claim", run |-> Len(runs) + 1, number |-> 0]]
    /\ UNCHANGED <<packages, event, queued, used>>

\* _start_step_run: the run, the step that points to it, the plan.
AddStepRun(w, s, synthesis) ==
    /\ Len(runs) < MaxRuns
    /\ runs' = Append(runs, NewRun(s, DepsIn(w, s)))
    /\ step' = [step EXCEPT ![s].status = "RUNNING", ![s].latest = Len(runs) + 1]
    /\ plan' = Resumed(synthesis)
    /\ worker' = [worker EXCEPT ![w].at = "waves", ![w].branch[s] =
                     [at |-> "claim", run |-> Len(runs) + 1, number |-> 0]]
    /\ UNCHANGED <<packages, event, queued, used>>

Reserve(w) ==
    LET s == worker[w].task IN
    /\ worker[w].at = "reserve"
    /\ MayReserve(w, s)
    /\ AddStepRun(w, s, 0)

\* A step of a wave begins when the waves before it have ended.
InTurn(w, s) ==
    /\ worker[w].at = "waves"
    /\ \A n \in 1..Cardinality(Steps) :
          s \notin FirstWaves[n] => \A d \in FirstWaves[n] : worker[w].branch[d].at = "over"

\* DEPENDENCY_FAILED, so far in memory only.
SkipStep(w, s) ==
    /\ worker[w].branch[s].at \in {"start", "claim"}
    /\ InTurn(w, s)
    /\ ~DepsGood(w, s)
    /\ worker' = [worker EXCEPT ![w].branch[s] = Over,
                                ![w].found[s] = [status |-> "SKIPPED", run |-> 0]]
    /\ UNCHANGED <<plan, step, runs, packages, event, queued, used>>

MayStart(s) ==
    /\ plan.status \in {"PLANNED", "RUNNING"}
    /\ plan.synthesis = 0
    /\ step[s].status # "RUNNING"

StartStep(w, s) ==
    /\ worker[w].branch[s].at = "start"
    /\ InTurn(w, s)
    /\ DepsGood(w, s)
    /\ MayStart(s)
    /\ AddStepRun(w, s, plan.synthesis)

ClaimStep(w, s) ==
    LET r == worker[w].branch[s].run IN
    /\ worker[w].branch[s].at = "claim"
    /\ InTurn(w, s)
    /\ DepsGood(w, s)
    /\ runs[r].status = "QUEUED"
    /\ runs' = Claimed(r)
    /\ worker' = [worker EXCEPT ![w].branch[s] =
                     [@ EXCEPT !.at = "run", !.number = runs[r].number]]
    /\ UNCHANGED <<plan, step, packages, event, queued, used>>

EndBranch(w, s, status) ==
    worker' = [worker EXCEPT ![w].branch[s] = Over,
                             ![w].found[s] = [status |-> status, run |-> worker[w].branch[s].run]]

\* The second transaction of _execute_step.
StoreStep(w, s) ==
    LET r == worker[w].branch[s].run IN
    /\ worker[w].branch[s].at = "run"
    /\ BranchMine(w, s)
    /\ runs' = [runs EXCEPT ![r] = [Ended(@, "COMPLETED") EXCEPT !.input = DepsIn(w, s)]]
    /\ step' = [step EXCEPT ![s].status = "COMPLETED", ![s].valid = r]
    /\ EndBranch(w, s, "COMPLETED")
    /\ UNCHANGED <<plan, packages, event, queued, used>>

\* _fail_step.
FailStep(w, s, retryable) ==
    LET r == worker[w].branch[s].run
        status == IF WillRetry(r, retryable) THEN "RUNNING" ELSE "FAILED"
    IN
    /\ worker[w].branch[s].at = "run"
    /\ BranchMine(w, s)
    /\ runs' = Failed(r, retryable)
    /\ EnsureEvent(WillRetry(r, retryable))
    /\ step' = [step EXCEPT ![s].status = status]
    /\ EndBranch(w, s, status)
    /\ UNCHANGED <<plan, packages, queued, used>>

\* _has_pending_step_retry.
RetryPending(w) == \E s \in Steps : worker[w].found[s].status = "RUNNING"

WavesOver(w) ==
    /\ worker[w].at = "waves"
    /\ \A s \in Steps : worker[w].branch[s].at = "over"

\* The end of execute_plan_waves, and _persist_skipped_steps.
EndWaves(w) ==
    LET skipped(s) == worker[w].found[s].status = "SKIPPED" IN
    /\ WavesOver(w)
    /\ worker[w].task \notin Steps
    /\ IF RetryPending(w) THEN EndTask(w) /\ UNCHANGED step
       ELSE /\ step' = [s \in Steps |-> IF skipped(s) THEN [step[s] EXCEPT !.status = "SKIPPED"]
                                                       ELSE step[s]]
            /\ GoTo(w, IF worker[w].run # 0 THEN "claim" ELSE "synthesize")
    /\ UNCHANGED <<plan, runs, packages, event, queued, used>>

EndRerunStep(w) ==
    LET s == worker[w].task IN
    /\ WavesOver(w)
    /\ s \in Steps
    /\ IF worker[w].found[s].status = "RUNNING" THEN EndTask(w) ELSE GoTo(w, "invalidate")
    /\ UNCHANGED <<plan, step, runs, packages, event, queued, used>>

-----------------------------------------------------------------------------
\* _start_synthesis_run.
StartSynthesis(w) ==
    /\ worker[w].at = "synthesize"
    /\ plan.synthesis = 0
    /\ Len(runs) < MaxRuns
    /\ runs' = Append(runs, NewRun("synthesis", NoDeps))
    /\ plan' = [plan EXCEPT !.status = "RUNNING", !.synthesis = Len(runs) + 1]
    /\ worker' = [worker EXCEPT ![w].at = "claim", ![w].run = Len(runs) + 1]
    /\ UNCHANGED <<step, packages, event, queued, used>>

\* What the synthesis was given: for each step the run whose output it saw.
Inputs(w) ==
    [s \in Steps |-> IF worker[w].found[s].status = "COMPLETED" THEN worker[w].found[s].run ELSE 0]

\* The last transaction of _synthesize: run, plan, draft and review package.
StoreSynthesis(w) ==
    /\ worker[w].at = "synthesis"
    /\ Mine(w)
    /\ runs' = Succeeded(worker[w].run)
    /\ plan' = [plan EXCEPT !.status =
                   IF \E s \in Steps : worker[w].found[s].status \in {"FAILED", "SKIPPED"}
                   THEN "PARTIAL" ELSE "COMPLETED"]
    /\ packages' = packages \cup {[run |-> worker[w].run, inputs |-> Inputs(w)]}
    /\ EndTask(w)
    /\ UNCHANGED <<step, event, queued, used>>

\* A transaction of w finds its run, step or plan otherwise than it needs it and
\* raises: the task ends and nothing is stored.
Raise(w) ==
    /\ \/ worker[w].at = "claim" /\ runs[worker[w].run].status # "QUEUED"
       \/ worker[w].at \in {"planning", "synthesis"} /\ ~Mine(w)
       \/ worker[w].at = "reserve" /\ ~MayReserve(w, worker[w].task)
       \/ worker[w].at = "synthesize" /\ plan.synthesis # 0
       \/ \E s \in Steps :
             \/ worker[w].branch[s].at = "run" /\ ~BranchMine(w, s)
             \/ /\ InTurn(w, s)
                /\ DepsGood(w, s)
                /\ \/ worker[w].branch[s].at = "start" /\ ~MayStart(s)
                   \/ /\ worker[w].branch[s].at = "claim"
                      /\ runs[worker[w].branch[s].run].status # "QUEUED"
    /\ EndTask(w)
    /\ UNCHANGED <<plan, step, runs, packages, event, queued, used>>

-----------------------------------------------------------------------------
\* The process that sends the heartbeats of the current attempt of run r.
Held(r) ==
    \E w \in Workers :
        \/ worker[w].at \in {"planning", "synthesis"} /\ worker[w].run = r
           /\ worker[w].number = runs[r].number
        \/ \E s \in Steps :
              /\ worker[w].branch[s].at = "run"
              /\ worker[w].branch[s].run = r
              /\ worker[w].branch[s].number = runs[r].number

\* The lease runs out: nobody renews it, or its holder stalls.
Lapse(r) ==
    /\ runs[r].lease = "live"
    /\ IF Held(r) THEN Fault ELSE UNCHANGED used
    /\ runs' = [runs EXCEPT ![r].lease = "lapsed"]
    /\ UNCHANGED <<plan, step, packages, event, queued, worker>>

\* AnalysisRecoveryService.recover, one action per run it handles.
\* _cancel_superseded_legal_run.
CancelSuperseded(r) ==
    /\ ~Current(r)
    /\ \/ runs[r].status = "QUEUED" 
       \/ runs[r].status = "RUNNING" /\ runs[r].lease = "lapsed"
    /\ runs' = [runs EXCEPT ![r] = IF @.lease = "lapsed" THEN Ended(@, "CANCELLED")
                                  ELSE [@ EXCEPT !.status = "CANCELLED"]]
    /\ UNCHANGED <<plan, step, packages, event, queued, worker, used>>

\* The process about to claim the queued run r.
Awaited(r) ==
    \E w \in Workers :
        \/ worker[w].at = "claim" /\ worker[w].run = r
        \/ \E s \in Steps : worker[w].branch[s].at = "claim" /\ worker[w].branch[s].run = r

\* A run queued for longer than stale_after_seconds.
RequeueStale(r) ==
    /\ runs[r].status = "QUEUED"
    /\ Current(r)
    /\ ~event
    /\ IF Awaited(r) THEN Fault ELSE UNCHANGED used
    /\ event' = TRUE
    /\ UNCHANGED <<plan, step, runs, packages, queued, worker>>

ExpiredForGood(r) == runs[r].number >= MaxAttempts

\* An expired attempt with attempts left.
RequeueExpired(r) ==
    /\ runs[r].status = "RUNNING"
    /\ runs[r].lease = "lapsed"
    /\ Current(r)
    /\ ~ExpiredForGood(r)
    /\ runs' = [runs EXCEPT ![r] = Retried(@)]
    /\ event' = TRUE
    /\ UNCHANGED <<plan, step, packages, queued, worker, used>>

\* The last attempt expired: _mark_legal_phase_terminal.
BuryExpired(r) ==
    LET role == runs[r].role IN
    /\ runs[r].status = "RUNNING"
    /\ runs[r].lease = "lapsed"
    /\ Current(r)
    /\ ExpiredForGood(r)
    /\ runs' = [runs EXCEPT ![r] = Ended(@, "DEAD_LETTER")]
    /\ step' = IF role \in Steps THEN [step EXCEPT ![role].status = "FAILED"] ELSE step
    /\ plan' = [plan EXCEPT !.status =
                   IF role # "planning" /\ \E s \in Steps : Completed(s)
                   THEN "PARTIAL" ELSE "FAILED"]
    /\ UNCHANGED <<packages, event, queued, worker, used>>

Scan(r) == CancelSuperseded(r) \/ RequeueStale(r) \/ RequeueExpired(r) \/ BuryExpired(r)

-----------------------------------------------------------------------------
Waves(w) ==
    \/ \E s \in Steps :
          \/ SkipStep(w, s) \/ StartStep(w, s) \/ ClaimStep(w, s) \/ StoreStep(w, s)
          \/ \E retryable \in BOOLEAN : FailStep(w, s, retryable)
    \/ EndWaves(w)
    \/ EndRerunStep(w)

Work(w) ==
    \/ PreparePlanning(w) \/ Replay(w) \/ BeginRecovery(w)
    \/ ClaimRun(w) \/ AcceptPlanning(w)
    \/ \E retryable \in BOOLEAN : FailPhase(w, retryable)
    \/ Normalize(w) \/ Invalidate(w) \/ ListForRecovery(w) \/ ListForRerun(w)
    \/ ReadForRerun(w) \/ Reserve(w)
    \/ Waves(w)
    \/ StartSynthesis(w) \/ StoreSynthesis(w)
    \/ Raise(w)

Outside ==
    \/ \E s \in Steps : RequestRerun(s)
    \/ \E r \in DOMAIN runs : CancelRun(r)
    \/ \E w \in Workers : Crash(w)
    \/ \E k \in Kinds : LoseTask(k)

Next ==
    \/ Outside
    \/ Dispatch
    \/ \E w \in Workers : Work(w) \/ \E k \in Kinds : Take(w, k)
    \/ \E r \in DOMAIN runs : Lapse(r) \/ Scan(r)

Spec == Init /\ [][Next]_vars

-----------------------------------------------------------------------------
\* The columns of the tables and the memory of the workers keep their types.
PlanTypeOK ==
    /\ plan \in Plan
    /\ step \in [Steps -> Step]
    /\ runs \in Seq(Run) /\ Len(runs) <= MaxRuns
    /\ packages \subseteq [run : RunIds, inputs : [Steps -> RunIds]]
    /\ event \in BOOLEAN
    /\ queued \in [Kinds -> Nat]
    /\ worker \in [Workers -> Worker]
    /\ used \in [reruns : 0..MaxReruns, faults : 0..MaxFaults]

\* No worker, late, redelivered or recovered, stores a specialist's result twice
\* or out of order: the valid run of a step is a completed run of that step, and
\* of the completed ones the latest.
ValidRunIsLatestCompleted ==
    \A s \in Steps : step[s].valid # 0 =>
        /\ runs[step[s].valid].role = s
        /\ runs[step[s].valid].status = "COMPLETED"
        /\ \A r \in DOMAIN runs :
              runs[r].role = s /\ runs[r].status = "COMPLETED" => r <= step[s].valid

\* What a step concluded was drawn from the very outputs of its dependencies that
\* the review package holds beside it.
PackageIsConsistent ==
    \A p \in packages : \A s \in Steps : \A d \in DependsOn[s] :
        p.inputs[s] # 0 /\ p.inputs[d] # 0 => runs[p.inputs[s]].input[d] = p.inputs[d]

-----------------------------------------------------------------------------
\* docs/CODEX_HANDOFF.md:65: after a step was run again, the old outputs of the steps
\* downstream do not enter the synthesis.  So a review package never holds what was
\* drawn from an output that it leaves out.
PackageHasPremises ==
    \A p \in packages : \A s \in Steps : \A d \in DependsOn[s] :
        p.inputs[s] # 0 => p.inputs[d] # 0
=============================================================================
