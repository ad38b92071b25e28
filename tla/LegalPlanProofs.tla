-------------------------- MODULE LegalPlanProofs --------------------------
(***************************************************************************)
(* The runs of a plan, for every plan, number of workers, runs, attempts,  *)
(* reruns and faults, and what one worker adds: a review package whose     *)
(* outputs fit together.                                                   *)
(*                                                                         *)
(* Three things carry the proofs.  A completed run is never changed.  What *)
(* a task holds in memory was true of the runs when it was read, and says  *)
(* only what stays true.  And what a run was reserved on is no newer than  *)
(* what it was given, which is no newer than what is valid: a step that is *)
(* not outdated was therefore given what is valid.                         *)
(***************************************************************************)
EXTENDS LegalPlan, SequenceTheorems, TLAPS

-----------------------------------------------------------------------------
(* The inductive invariant *)

Phases == {"planning", "synthesis"}

\* r is a run of the role.
IsRun(r, role) == r \in DOMAIN runs /\ runs[r].role = role

IsCompleted(r, role) == IsRun(r, role) /\ runs[r].status = "COMPLETED"

\* There are runs as soon as something was planned, and the first is the planning.
RunsAreStarted ==
    /\ plan.status = "NONE" => runs = <<>>
    /\ runs # <<>> => runs[1].role = "planning"
    /\ event \/ (\E k \in Kinds \ {"orchestrate"} : queued[k] > 0) => runs # <<>>

\* The columns that name runs name runs of the right role.
PointersAreSound ==
    /\ plan.synthesis # 0 => IsRun(plan.synthesis, "synthesis")
    /\ \A s \in Steps :
          /\ step[s].latest # 0 => IsRun(step[s].latest, s)
          /\ step[s].valid # 0 => IsCompleted(step[s].valid, s)
          /\ Completed(s) => step[s].valid # 0

\* No run of a step is newer than its latest, no completed one than its valid.
NewestAreNamed ==
    \A r \in DOMAIN runs : \A s \in Steps : runs[r].role = s =>
        /\ r <= step[s].latest
        /\ runs[r].status = "COMPLETED" => r <= step[s].valid

\* Who has completed a run holds its lease no longer.
LeasesAreOver ==
    \A r \in DOMAIN runs : runs[r].status = "COMPLETED" => runs[r].lease = "over"

\* A run was reserved on what was valid by then, and given nothing older.
LineageAges ==
    \A r \in DOMAIN runs : \A s \in Steps : runs[r].role = s =>
        \A d \in DependsOn[s] :
            /\ runs[r].deps[d] <= step[d].valid
            /\ runs[r].status = "COMPLETED" =>
                  runs[r].deps[d] <= runs[r].input[d] /\ runs[r].input[d] <= step[d].valid

\* What a package holds was completed.
PackagesHoldOutputs ==
    \A p \in packages : \A s \in Steps : p.inputs[s] # 0 => IsCompleted(p.inputs[s], s)

Found(w, s) == worker[w].found[s].status = "COMPLETED"

IsOpen(w, s) == worker[w].branch[s].at # "over"

\* The outputs in memory fit together.
FoundFits(w) ==
    \A s \in Steps : \A d \in DependsOn[s] :
        Found(w, s) /\ Found(w, d) =>
            runs[worker[w].found[s].run].input[d] = worker[w].found[d].run

\* The phases of a task know runs that are there.
PhaseIsSound(w) ==
    LET m == worker[w] IN
    /\ m.task \notin {"none", "orchestrate"} \/ m.at \notin {"idle", "begin"} => runs # <<>>
    /\ m.at \in {"claim"} \cup Phases =>
          m.run \in DOMAIN runs /\ runs[m.run].role \in Phases
    /\ m.at \in Phases => runs[m.run].role = m.at
    /\ m.at \in {"claim"} \cup Phases /\ m.task \in Steps => runs[m.run].role = "synthesis"
    /\ m.at = "reserve" => m.task \in Steps
    /\ m.at = "waves" /\ m.task \notin Steps /\ m.run # 0 => IsRun(m.run, "synthesis")

\* The results in memory are outputs, and the branches have runs of their steps.
ResultsAreSound(w) ==
    /\ \A s \in Steps : Found(w, s) => IsCompleted(worker[w].found[s].run, s)
    /\ \A s \in Steps : worker[w].branch[s].at \in {"claim", "run"} =>
          /\ IsRun(worker[w].branch[s].run, s)
          /\ \A d \in DependsOn[s] : Found(w, d) =>
                runs[worker[w].branch[s].run].deps[d] <= worker[w].found[d].run

\* A step of a wave is open before it has a result, and runs on results.
WavesAreOrdered(w) ==
    /\ \A s \in Steps : IsOpen(w, s) => worker[w].at = "waves"
    /\ \A s \in Steps : worker[w].branch[s].at = "run" => DepsGood(w, s)
    /\ worker[w].task \in Steps => \A s \in Steps : IsOpen(w, s) => s = worker[w].task
    /\ worker[w].task \notin Steps =>
          /\ \A s \in Steps : IsOpen(w, s) =>
                ~Found(w, s) /\ \A e \in Steps : s \in DependsOn[e] => ~Found(w, e)
          /\ FoundFits(w)

MemoryIsSound(w) ==
    PhaseIsSound(w) /\ ResultsAreSound(w) /\ WavesAreOrdered(w)

PlanInv ==
    /\ PlanTypeOK
    /\ RunsAreStarted
    /\ PointersAreSound
    /\ NewestAreNamed
    /\ LeasesAreOver
    /\ LineageAges
    /\ PackagesHoldOutputs
    /\ \A w \in Workers : MemoryIsSound(w)

-----------------------------------------------------------------------------
(* One worker *)

\* compose.yml:117 starts one worker process, with --concurrency=1.  With two, a
\* recovery can store a new output of a dependency after a rerun ended and before
\* the rerun reads the others: TLC finds a package that holds both.
SingleWorker == \A v, w \in Workers : v = w

\* What a rerun has read of its dependencies is what is valid.
ReadsValid(w) ==
    LET t == worker[w].task IN
    /\ DepsGood(w, t)
    /\ \A d \in DependsOn[t] : worker[w].found[d].run = step[d].valid

\* The output of a rerun is valid, and was drawn from what is valid.
HasValid(w) ==
    LET t == worker[w].task  r == worker[w].found[t].run IN
    Found(w, t) =>
        r = step[t].valid /\ \A d \in DependsOn[t] : runs[r].input[d] = step[d].valid

\* A rerun works with what is valid, until it has its own output and reads all
\* the others again.
RerunIsCurrent(w) ==
    LET t == worker[w].task  at == worker[w].at IN
    t \in Steps =>
        /\ at # "normalize"
        /\ at = "reserve" => DepsGood(w, t)
        /\ IsOpen(w, t) => ReadsValid(w)
        /\ at \in {"waves", "invalidate", "list"} /\ ~IsOpen(w, t) => HasValid(w)
        /\ at \in {"synthesize", "claim", "synthesis"} => FoundFits(w)

SoloInv ==
    /\ PlanInv
    /\ \A w \in Workers : RerunIsCurrent(w)
    /\ PackageIsConsistent

-----------------------------------------------------------------------------
(* Constants, and the sequence of runs *)

LEMMA Bounds ==
    /\ MaxAttempts \in Nat /\ 1 <= MaxAttempts /\ MaxRuns \in Nat /\ 1 <= MaxRuns
    /\ MaxReruns \in Nat /\ MaxFaults \in Nat
    /\ DependsOn \in [Steps -> SUBSET Steps]
  BY PlanAssumption

\* The names of phases and tasks are those of no step.
LEMMA StepsAreSteps ==
    ASSUME NEW s \in Steps
    PROVE  s \notin {"orchestrate", "recover", "none", "planning", "synthesis"}
  BY PlanAssumption

\* No step depends on itself.
LEMMA NoSelf == \A s \in Steps : s \notin DependsOn[s]
<1>1. ASSUME NEW s \in Steps PROVE s \notin DependsOn[s]
  <2>1. {s} \in SUBSET Steps /\ {s} # {}
    OBVIOUS
  <2>2. \E e \in {s} : DependsOn[e] \cap {s} = {}
    BY <2>1, PlanIsAcyclic
  <2>. QED  BY <2>2
<1>. QED  BY <1>1

LEMMA RunsShape ==
    ASSUME PlanTypeOK
    PROVE  /\ Len(runs) \in Nat /\ Len(runs) <= MaxRuns
           /\ DOMAIN runs = 1..Len(runs)
           /\ \A r \in DOMAIN runs : runs[r] \in Run /\ r \in RunIds /\ r \in Nat /\ r # 0
           /\ runs = <<>> <=> Len(runs) = 0
           /\ runs # <<>> <=> 1 \in DOMAIN runs
<1>1. runs \in Seq(Run) /\ Len(runs) <= MaxRuns
  BY DEF PlanTypeOK
<1>2. Len(runs) \in Nat /\ runs \in [1..Len(runs) -> Run] /\ DOMAIN runs = 1..Len(runs)
  BY <1>1, LenProperties
<1>3. runs = <<>> <=> Len(runs) = 0
  BY <1>1, <1>2, EmptySeq
<1>. QED
  BY <1>1, <1>2, <1>3, Bounds DEF RunIds

\* One run is rewritten: what it is a run of, and what it was reserved on, stays.
Rewrites(r, x) ==
    /\ r \in DOMAIN runs /\ x \in Run
    /\ runs' = [runs EXCEPT ![r] = x]
    /\ x.role = runs[r].role /\ x.deps = runs[r].deps
    /\ runs[r].status # "COMPLETED"
    /\ x.status = "COMPLETED" => x.lease = "over"

\* A run is added.
Adds(x) ==
    /\ Len(runs) < MaxRuns /\ x \in Run /\ x.status = "QUEUED"
    /\ runs' = Append(runs, x)

LEMMA Rewritten ==
    ASSUME PlanTypeOK, NEW r, NEW x, Rewrites(r, x)
    PROVE  /\ runs' \in Seq(Run) /\ Len(runs') = Len(runs) /\ DOMAIN runs' = DOMAIN runs
           /\ runs'[r] = x
           /\ \A q \in DOMAIN runs \ {r} : runs'[q] = runs[q]
           /\ runs' # <<>> <=> runs # <<>>
<1>1. runs \in Seq(Run) /\ r \in 1..Len(runs) /\ x \in Run /\ DOMAIN runs = 1..Len(runs)
  BY RunsShape DEF PlanTypeOK, Rewrites
<1>2. /\ runs' \in Seq(Run) /\ Len(runs') = Len(runs)
      /\ \A j \in 1..Len(runs) : runs'[j] = IF j = r THEN x ELSE runs[j]
  BY <1>1, ExceptSeq DEF Rewrites
<1>3. DOMAIN runs' = 1..Len(runs)
  BY <1>2, LenProperties
<1>4. runs' # <<>> /\ runs # <<>>
  BY <1>1, <1>2, EmptySeq
<1>. QED  BY <1>1, <1>2, <1>3, <1>4

LEMMA Added ==
    ASSUME PlanTypeOK, NEW x, Adds(x)
    PROVE  /\ runs' \in Seq(Run) /\ Len(runs') = Len(runs) + 1 /\ Len(runs') <= MaxRuns
           /\ DOMAIN runs' = 1..(Len(runs) + 1) /\ DOMAIN runs = 1..Len(runs)
           /\ runs'[Len(runs) + 1] = x
           /\ \A q \in DOMAIN runs : runs'[q] = runs[q]
           /\ runs' # <<>>
           /\ Len(runs) + 1 \in RunIds
<1>1. runs \in Seq(Run) /\ Len(runs) \in Nat /\ DOMAIN runs = 1..Len(runs) /\ Len(runs) < MaxRuns
  BY RunsShape DEF PlanTypeOK, Adds
<1>2. /\ runs' \in Seq(Run) /\ Len(runs') = Len(runs) + 1
      /\ \A i \in 1..Len(runs) : runs'[i] = runs[i]
      /\ runs'[Len(runs) + 1] = x
  BY <1>1, AppendProperties DEF Adds
<1>3. DOMAIN runs' = 1..(Len(runs) + 1)
  BY <1>2, LenProperties
<1>4. runs' # <<>>
  BY <1>1, <1>2, EmptySeq
<1>. QED  BY <1>1, <1>2, <1>3, <1>4, Bounds DEF RunIds

\* What no step does to the runs.
RunsKept ==
    /\ DOMAIN runs \subseteq DOMAIN runs'
    /\ runs # <<>> => runs' # <<>>
    /\ \A r \in DOMAIN runs :
          /\ runs'[r].role = runs[r].role
          /\ runs'[r].deps = runs[r].deps
          /\ runs[r].status = "COMPLETED" =>
                runs'[r].status = "COMPLETED" /\ runs'[r].input = runs[r].input

LEMMA RunsAreKept ==
    ASSUME PlanTypeOK,
           runs' = runs \/ (\E r, x : Rewrites(r, x)) \/ (\E x : Adds(x))
    PROVE  RunsKept /\ (LeasesAreOver => LeasesAreOver')
<1>1. CASE runs' = runs
  BY <1>1 DEF RunsKept, LeasesAreOver
<1>2. ASSUME NEW r, NEW x, Rewrites(r, x)
      PROVE  RunsKept /\ (LeasesAreOver => LeasesAreOver')
  BY <1>2, Rewritten DEF RunsKept, Rewrites, LeasesAreOver
<1>3. ASSUME NEW x, Adds(x) PROVE RunsKept /\ (LeasesAreOver => LeasesAreOver')
  <2>1. DOMAIN runs \subseteq DOMAIN runs'
    BY <1>3, Added, RunsShape
  <2>2. LeasesAreOver => LeasesAreOver'
    <3>1. ASSUME LeasesAreOver, NEW q \in DOMAIN runs', runs'[q].status = "COMPLETED"
          PROVE  runs'[q].lease = "over"
      <4>1. q # Len(runs) + 1
        BY <1>3, <3>1, Added DEF Adds
      <4>2. q \in DOMAIN runs
        BY <1>3, <3>1, <4>1, Added, RunsShape
      <4>. QED  BY <1>3, <3>1, <4>2, Added DEF LeasesAreOver
    <3>. QED  BY <3>1 DEF LeasesAreOver
  <2>. QED  BY <1>3, <2>1, <2>2, Added DEF RunsKept
<1>. QED  BY <1>1, <1>2, <1>3

\* A run of a role stays one, and a completed one completed.
LEMMA RunsStay ==
    ASSUME RunsKept, NEW r, NEW role
    PROVE  /\ IsRun(r, role) => IsRun(r, role)'
           /\ IsCompleted(r, role) => IsCompleted(r, role)' /\ runs'[r].input = runs[r].input
  BY DEF RunsKept, IsRun, IsCompleted

-----------------------------------------------------------------------------
(* What a step does to the rows *)

\* A run is moved on, or completed.
Moves(r) == \E x : Rewrites(r, x) /\ x.status # "COMPLETED"

Completes(r) == \E x : Rewrites(r, x) /\ x.status = "COMPLETED"

\* The rows of the steps keep their runs, and none is completed.
StepsKept ==
    \A s \in Steps :
        /\ step'[s].latest = step[s].latest /\ step'[s].valid = step[s].valid
        /\ step'[s].status = "COMPLETED" => step[s].status = "COMPLETED"

\* What every step does but the start and the success of a step of the plan.
PlainRows ==
    /\ StepsKept
    /\ \/ runs' = runs
       \/ \E r : Moves(r)
       \/ \E r : Completes(r) /\ runs[r].role \in Phases
       \/ \E x : Adds(x) /\ x.role \in Phases

LEMMA ClaimMoves ==
    ASSUME PlanTypeOK, NEW r \in DOMAIN runs, runs[r].status = "QUEUED", runs' = Claimed(r)
    PROVE  Moves(r)
<1>. DEFINE x == [runs[r] EXCEPT !.status = "RUNNING", !.lease = "live"]
<1>1. runs[r] \in Run
  BY RunsShape
<1>2. /\ x \in Run /\ x.role = runs[r].role /\ x.deps = runs[r].deps
      /\ x.status = "RUNNING"
  BY <1>1 DEF Run, Ended
<1>3. runs' = [runs EXCEPT ![r] = x]
  BY DEF Claimed
<1>. QED  BY <1>2, <1>3 DEF Moves, Rewrites

LEMMA SuccessCompletes ==
    ASSUME PlanTypeOK, NEW r \in DOMAIN runs, runs[r].status = "RUNNING", runs' = Succeeded(r)
    PROVE  Completes(r)
<1>. DEFINE x == Ended(runs[r], "COMPLETED")
<1>1. runs[r] \in Run
  BY RunsShape
<1>2. /\ x \in Run /\ x.role = runs[r].role /\ x.deps = runs[r].deps
      /\ x.status = "COMPLETED" /\ x.lease = "over"
  BY <1>1 DEF Run, Ended
<1>3. runs' = [runs EXCEPT ![r] = x]
  BY DEF Succeeded
<1>. QED  BY <1>2, <1>3 DEF Completes, Rewrites

\* What waits for its next attempt is still the run it was.
LEMMA RetriedIsRun ==
    ASSUME NEW run \in Run, run.number < MaxAttempts
    PROVE  /\ Retried(run) \in Run /\ Retried(run).role = run.role
           /\ Retried(run).deps = run.deps /\ Retried(run).status = "QUEUED"
<1>. DEFINE n == run.number + 1
<1>1. run.number \in 1..MaxAttempts
  BY DEF Run
<1>2. n \in 1..MaxAttempts
  BY <1>1, Bounds
<1>3. Retried(run) = [run EXCEPT !.status = "QUEUED", !.number = n, !.lease = "none"]
  BY DEF Retried
<1>. HIDE DEF n
<1>. QED  BY <1>2, <1>3 DEF Run

LEMMA FailureMoves ==
    ASSUME PlanTypeOK, NEW r \in DOMAIN runs, NEW retryable, runs[r].status = "RUNNING",
           runs' = Failed(r, retryable)
    PROVE  Moves(r)
<1>1. runs[r] \in Run /\ runs[r].number \in Nat
  BY RunsShape, Bounds DEF Run, Ended
<1>2. CASE WillRetry(r, retryable)
  <2>. DEFINE x == Retried(runs[r])
  <2>1. /\ x \in Run /\ x.role = runs[r].role /\ x.deps = runs[r].deps
        /\ x.status = "QUEUED"
    BY <1>1, <1>2, RetriedIsRun DEF WillRetry
  <2>2. runs' = [runs EXCEPT ![r] = x]
    BY <1>2 DEF Failed
  <2>. QED  BY <2>1, <2>2 DEF Moves, Rewrites
<1>3. CASE ~WillRetry(r, retryable)
  <2>. DEFINE x == Ended(runs[r], "DEAD_LETTER")
  <2>1. /\ x \in Run /\ x.role = runs[r].role /\ x.deps = runs[r].deps
        /\ x.status = "DEAD_LETTER"
    BY <1>1 DEF Run, Ended
  <2>2. runs' = [runs EXCEPT ![r] = x]
    BY <1>3 DEF Failed
  <2>. QED  BY <2>1, <2>2 DEF Moves, Rewrites
<1>. QED  BY <1>2, <1>3

\* Cancellations, lapsed leases and the scan move a run.
LEMMA OutsideMoves ==
    ASSUME PlanTypeOK, NEW r \in DOMAIN runs,
           CancelRun(r) \/ Lapse(r) \/ CancelSuperseded(r) \/ RequeueExpired(r) \/ BuryExpired(r)
    PROVE  Moves(r) \/ runs[r].status = "COMPLETED"
<1>1. runs[r] \in Run /\ runs[r].number \in Nat
  BY RunsShape, Bounds DEF Run, Ended
<1>2. ASSUME NEW x \in Run, x.role = runs[r].role, x.deps = runs[r].deps, x.status # "COMPLETED",
             runs' = [runs EXCEPT ![r] = x]
      PROVE  Moves(r) \/ runs[r].status = "COMPLETED"
  BY <1>2 DEF Moves, Rewrites
<1>3. CASE CancelRun(r)
  <2>. DEFINE x == [runs[r] EXCEPT !.status = "CANCELLED"]
  <2>1. x \in Run /\ x.role = runs[r].role /\ x.deps = runs[r].deps /\ x.status # "COMPLETED"
    BY <1>1 DEF Run, Ended
  <2>2. runs' = [runs EXCEPT ![r] = x]
    BY <1>3 DEF CancelRun
  <2>. QED  BY <1>2, <2>1, <2>2
<1>4. CASE Lapse(r)
  <2>. DEFINE x == [runs[r] EXCEPT !.lease = "lapsed"]
  <2>1. /\ x \in Run /\ x.role = runs[r].role /\ x.deps = runs[r].deps
        /\ x.status = runs[r].status
    BY <1>1 DEF Run, Ended
  <2>2. runs' = [runs EXCEPT ![r] = x]
    BY <1>4 DEF Lapse
  <2>. QED  BY <1>2, <2>1, <2>2
<1>5. CASE CancelSuperseded(r)
  <2>. DEFINE x == IF runs[r].lease = "lapsed" THEN Ended(runs[r], "CANCELLED")
                ELSE [runs[r] EXCEPT !.status = "CANCELLED"]
  <2>1. x \in Run /\ x.role = runs[r].role /\ x.deps = runs[r].deps /\ x.status # "COMPLETED"
    BY <1>1 DEF Run, Ended
  <2>2. runs' = [runs EXCEPT ![r] = x]
    BY <1>5 DEF CancelSuperseded
  <2>. QED  BY <1>2, <2>1, <2>2
<1>6. CASE RequeueExpired(r)
  <2>. DEFINE x == Retried(runs[r])
  <2>1. x \in Run /\ x.role = runs[r].role /\ x.deps = runs[r].deps /\ x.status # "COMPLETED"
    <3>1. runs[r].number < MaxAttempts
      BY <1>1, <1>6, Bounds DEF RequeueExpired, ExpiredForGood
    <3>. QED  BY <1>1, <3>1, RetriedIsRun
  <2>2. runs' = [runs EXCEPT ![r] = x]
    BY <1>6 DEF RequeueExpired
  <2>. QED  BY <1>2, <2>1, <2>2
<1>7. CASE BuryExpired(r)
  <2>. DEFINE x == Ended(runs[r], "DEAD_LETTER")
  <2>1. x \in Run /\ x.role = runs[r].role /\ x.deps = runs[r].deps /\ x.status # "COMPLETED"
    BY <1>1 DEF Run, Ended
  <2>2. runs' = [runs EXCEPT ![r] = x]
    BY <1>7 DEF BuryExpired
  <2>. QED  BY <1>2, <2>1, <2>2
<1>. QED  BY <1>3, <1>4, <1>5, <1>6, <1>7

LEMMA NewRunIsRun ==
    ASSUME NEW role \in Phases \cup Steps, NEW deps \in [Steps -> RunIds]
    PROVE  /\ NewRun(role, deps) \in Run /\ NewRun(role, deps).status = "QUEUED"
           /\ NewRun(role, deps).role = role /\ NewRun(role, deps).deps = deps
<1>1. NoDeps \in [Steps -> RunIds]
  BY Bounds DEF NoDeps, RunIds
<1>. QED  BY <1>1, Bounds DEF NewRun, Run, Phases


\* The plan names no synthesis, that of before, or one that is there.
SynthesisIsNamed ==
    plan'.synthesis = plan.synthesis \/ plan'.synthesis = 0 \/ IsRun(plan.synthesis, "synthesis")'

LEMMA PlainRowsKeepRuns ==
    ASSUME PlanTypeOK, PlainRows
    PROVE  RunsKept /\ (LeasesAreOver => LeasesAreOver')
  BY RunsAreKept DEF PlainRows, Moves, Completes

LEMMA PlainRowsKeepTables ==
    ASSUME PlanInv, PlanTypeOK', PlainRows, SynthesisIsNamed
    PROVE  PointersAreSound' /\ NewestAreNamed' /\ LeasesAreOver' /\ LineageAges'
<1>1. PlanTypeOK /\ PointersAreSound /\ NewestAreNamed /\ LeasesAreOver /\ LineageAges
  BY DEF PlanInv
<1>2. RunsKept /\ StepsKept
  BY <1>1, PlainRowsKeepRuns DEF PlainRows
<1>3. PointersAreSound'
  <2>1. (plan.synthesis # 0 => IsRun(plan.synthesis, "synthesis"))'
    BY <1>1, <1>2 DEF PointersAreSound, SynthesisIsNamed, RunsKept, IsRun
  <2>2. ASSUME NEW s \in Steps
        PROVE  /\ (step[s].latest # 0 => IsRun(step[s].latest, s))'
               /\ (step[s].valid # 0 => IsCompleted(step[s].valid, s))'
               /\ (Completed(s) => step[s].valid # 0)'
    BY <1>1, <1>2 DEF PointersAreSound, StepsKept, Completed, RunsKept, IsRun, IsCompleted
  <2>. QED  BY <2>1, <2>2 DEF PointersAreSound
\* A run of a step is as before, or only moved on.
<1>4. ASSUME NEW r \in DOMAIN runs', NEW s \in Steps, runs'[r].role = s
      PROVE  /\ r \in DOMAIN runs /\ runs[r].role = s /\ runs'[r].deps = runs[r].deps
             /\ runs'[r].status = "COMPLETED" =>
                   runs[r].status = "COMPLETED" /\ runs'[r].input = runs[r].input
  <2>. DEFINE kept == /\ r \in DOMAIN runs /\ runs[r].role = s /\ runs'[r].deps = runs[r].deps
                      /\ runs'[r].status = "COMPLETED" =>
                            runs[r].status = "COMPLETED" /\ runs'[r].input = runs[r].input
  <2>1. s \notin Phases
    BY StepsAreSteps DEF Phases
  <2>2. CASE runs' = runs
    BY <1>4, <2>2
  <2>3. ASSUME NEW q, Moves(q) PROVE kept
    BY <1>1, <1>4, <2>3, Rewritten DEF Moves, Rewrites
  <2>4. ASSUME NEW q, Completes(q), runs[q].role \in Phases PROVE kept
    BY <1>1, <1>4, <2>1, <2>4, Rewritten DEF Completes, Rewrites
  <2>5. ASSUME NEW x, Adds(x), x.role \in Phases PROVE kept
    BY <1>1, <1>4, <2>1, <2>5, Added, RunsShape
  <2>. QED  BY <2>2, <2>3, <2>4, <2>5 DEF PlainRows
<1>5. NewestAreNamed'
  BY <1>1, <1>2, <1>4 DEF NewestAreNamed, StepsKept
<1>6. LineageAges'
  <2>1. ASSUME NEW r \in DOMAIN runs', NEW s \in Steps, runs'[r].role = s, NEW d \in DependsOn[s]
        PROVE  /\ runs'[r].deps[d] <= step'[d].valid
               /\ runs'[r].status = "COMPLETED" =>
                     /\ runs'[r].deps[d] <= runs'[r].input[d]
                     /\ runs'[r].input[d] <= step'[d].valid
    <3>1. d \in Steps
      BY Bounds
    <3>2. step'[d].valid = step[d].valid
      BY <1>2, <3>1 DEF StepsKept
    <3>. QED  BY <1>1, <1>4, <2>1, <3>2 DEF LineageAges
  <2>. QED  BY <2>1 DEF LineageAges
<1>7. LeasesAreOver'
  BY <1>1, PlainRowsKeepRuns
<1>. QED  BY <1>3, <1>5, <1>6, <1>7

LEMMA PackagesStay ==
    ASSUME PackagesHoldOutputs, RunsKept, packages' = packages
    PROVE  PackagesHoldOutputs'
  BY RunsStay DEF PackagesHoldOutputs

LEMMA StartedStays ==
    ASSUME PlanTypeOK, RunsAreStarted, RunsKept, runs # <<>>,
           plan'.status = "NONE" => plan.status = "NONE"
    PROVE  RunsAreStarted'
<1>1. runs' # <<>> /\ 1 \in DOMAIN runs
  BY RunsShape DEF RunsKept
<1>. QED  BY <1>1 DEF RunsAreStarted, RunsKept

\* What a task holds in memory stays true of the runs.
LEMMA MemoryStays ==
    ASSUME PlanTypeOK, RunsKept, NEW v \in Workers, MemoryIsSound(v), worker'[v] = worker[v]
    PROVE  MemoryIsSound(v)'
<1>1. PhaseIsSound(v)'
  BY RunsStay DEF PhaseIsSound, MemoryIsSound, RunsKept, IsRun
<1>2. ResultsAreSound(v)'
  <2>1. ASSUME NEW s \in Steps, Found(v, s) PROVE IsCompleted(worker[v].found[s].run, s)'
    BY <2>1, RunsStay DEF MemoryIsSound, ResultsAreSound
  <2>2. ASSUME NEW s \in Steps, worker[v].branch[s].at \in {"claim", "run"}
        PROVE  /\ IsRun(worker[v].branch[s].run, s)'
               /\ \A d \in DependsOn[s] : Found(v, d) =>
                     runs'[worker[v].branch[s].run].deps[d] <= worker[v].found[d].run
    BY <2>2, RunsStay DEF MemoryIsSound, ResultsAreSound, IsRun, RunsKept
  <2>. QED  BY <2>1, <2>2 DEF ResultsAreSound, Found
<1>3. WavesAreOrdered(v)'
  <2>1. worker[v].task \notin Steps => FoundFits(v)'
    <3>1. SUFFICES ASSUME worker[v].task \notin Steps, NEW s \in Steps, NEW d \in DependsOn[s],
                          Found(v, s), Found(v, d)
                   PROVE  runs'[worker[v].found[s].run].input[d] = worker[v].found[d].run
      BY DEF FoundFits, Found
    <3>2. IsCompleted(worker[v].found[s].run, s)
      BY <3>1 DEF MemoryIsSound, ResultsAreSound
    <3>3. runs[worker[v].found[s].run].input[d] = worker[v].found[d].run
      BY <3>1 DEF MemoryIsSound, WavesAreOrdered, FoundFits
    <3>. QED  BY <3>2, <3>3, RunsStay
  <2>. QED  BY <2>1 DEF MemoryIsSound, WavesAreOrdered, IsOpen, Found, DepsGood
<1>. QED  BY <1>1, <1>2, <1>3 DEF MemoryIsSound

-----------------------------------------------------------------------------
(* What a step does to the memory *)

LEMMA WorkerShape ==
    ASSUME PlanTypeOK, NEW w \in Workers
    PROVE  /\ worker[w] \in Worker
           /\ worker[w].run \in RunIds /\ worker[w].number \in 0..MaxAttempts
           /\ worker[w].found \in [Steps -> Result] /\ worker[w].branch \in [Steps -> Branch]
           /\ \A s \in Steps :
                 /\ worker[w].found[s] \in Result /\ worker[w].found[s].run \in RunIds
                 /\ worker[w].found[s].run \in Nat
                 /\ worker[w].branch[s] \in Branch /\ worker[w].branch[s].run \in RunIds
                 /\ worker[w].branch[s].number \in 0..MaxAttempts
<1>1. worker[w] \in Worker
  BY DEF PlanTypeOK
<1>2. /\ worker[w].run \in RunIds /\ worker[w].number \in 0..MaxAttempts
      /\ worker[w].found \in [Steps -> Result] /\ worker[w].branch \in [Steps -> Branch]
  BY <1>1 DEF Worker
<1>3. ASSUME NEW s \in Steps
      PROVE  worker[w].found[s] \in Result /\ worker[w].branch[s] \in Branch
  BY <1>2
<1>4. ASSUME NEW x \in Result PROVE x.run \in RunIds /\ x.run \in Nat
  BY <1>4, Bounds DEF Result, RunIds
<1>5. ASSUME NEW x \in Branch PROVE x.run \in RunIds /\ x.number \in 0..MaxAttempts
  BY <1>5 DEF Branch
<1>. QED  BY <1>1, <1>2, <1>3, <1>4, <1>5

LEMMA RowShape ==
    ASSUME PlanTypeOK
    PROVE  /\ plan.synthesis \in RunIds
           /\ \A s \in Steps :
                 /\ step[s] \in Step /\ step[s].latest \in RunIds /\ step[s].valid \in RunIds
                 /\ step[s].latest \in Nat /\ step[s].valid \in Nat
  BY Bounds DEF PlanTypeOK, Step, Plan, RunIds

LEMMA Blank ==
    /\ 0 \in RunIds /\ NoResult \in Result /\ Over \in Branch /\ Idle \in Worker
    /\ NoDeps \in [Steps -> RunIds]
    /\ AllStart \in [Steps -> Branch]
<1>1. 0 \in RunIds /\ 0 \in 0..MaxAttempts
  BY Bounds DEF RunIds
<1>2. NoResult \in Result /\ Over \in Branch /\ [Over EXCEPT !.at = "start"] \in Branch
  BY <1>1 DEF NoResult, Result, Over, Branch
<1>3. Idle \in Worker
  BY <1>1, <1>2 DEF Idle, Worker, Kinds
<1>. QED  BY <1>1, <1>2, <1>3 DEF NoDeps, AllStart

\* w goes on with m in memory, the others with what they have.
Holding(w, m) == worker' = [worker EXCEPT ![w] = m]

LEMMA OneHolds ==
    ASSUME PlanTypeOK, NEW w \in Workers, NEW m \in Worker, Holding(w, m)
    PROVE  /\ worker' \in [Workers -> Worker] /\ worker'[w] = m
           /\ \A v \in Workers \ {w} : worker'[v] = worker[v]
  BY DEF PlanTypeOK, Holding

\* A task that has ended holds nothing.
LEMMA NothingIsSound ==
    ASSUME NEW w \in Workers, worker'[w] = Idle
    PROVE  MemoryIsSound(w)'
<1>1. Idle.task = "none" /\ Idle.at = "idle"
  BY DEF Idle
<1>2. \A s \in Steps : Idle.found[s].status = "none" /\ Idle.branch[s].at = "over"
  BY DEF Idle, NoResult, Over
<1>3. PhaseIsSound(w)'
  BY <1>1 DEF PhaseIsSound, Phases
<1>4. ResultsAreSound(w)'
  BY <1>2 DEF ResultsAreSound, Found
<1>5. WavesAreOrdered(w)'
  BY <1>1, <1>2 DEF WavesAreOrdered, IsOpen, Found, FoundFits
<1>. QED  BY <1>3, <1>4, <1>5 DEF MemoryIsSound

\* What a step of w leaves when it is sound.
Leaves(w) ==
    /\ PlanTypeOK' /\ RunsAreStarted' /\ RunsKept
    /\ PointersAreSound' /\ NewestAreNamed' /\ LeasesAreOver' /\ LineageAges'
    /\ PackagesHoldOutputs'
    /\ \A v \in Workers \ {w} : worker'[v] = worker[v]
    /\ MemoryIsSound(w)'

LEMMA LeavesInv ==
    ASSUME PlanInv, NEW w \in Workers, Leaves(w)
    PROVE  PlanInv'
  BY MemoryStays DEF PlanInv, Leaves

\* The same, when the rows are not those of the start or success of a step.
LEMMA PlainLeaves ==
    ASSUME PlanInv, NEW w \in Workers, NEW m \in Worker, Holding(w, m),
           PlainRows, SynthesisIsNamed, packages' = packages, plan' \in Plan,
           \/ RunsAreStarted'
           \/ runs # <<>> /\ (plan'.status = "NONE" => plan.status = "NONE"),
           step' \in [Steps -> Step], event' \in BOOLEAN, queued' \in [Kinds -> Nat],
           used' = used,
           RunsKept => MemoryIsSound(w)'
    PROVE  Leaves(w)
<1>1. PlanTypeOK /\ RunsKept
  BY PlainRowsKeepRuns DEF PlanInv
<1>2. runs' \in Seq(Run) /\ Len(runs') <= MaxRuns
  BY <1>1, RunsShape, Rewritten, Added DEF PlainRows, Moves, Completes, PlanTypeOK
<1>3. PlanTypeOK'
  BY <1>1, <1>2, OneHolds DEF PlanTypeOK
<1>4. RunsAreStarted'
  BY <1>1, StartedStays DEF PlanInv
<1>. QED
  BY <1>1, <1>3, <1>4, OneHolds, PlainRowsKeepTables, PackagesStay DEF Leaves, PlanInv

\* Results and runs that a task keeps in memory stay what they were.
LEMMA ResultsStay ==
    ASSUME PlanInv, RunsKept, NEW w \in Workers, worker'[w].found = worker[w].found
    PROVE  /\ \A s \in Steps : Found(w, s) => IsCompleted(worker[w].found[s].run, s)'
           /\ \A s \in Steps :
                 /\ worker[w].branch[s].at \in {"claim", "run"}
                 /\ worker'[w].branch[s].run = worker[w].branch[s].run
                 => /\ IsRun(worker[w].branch[s].run, s)'
                    /\ \A d \in DependsOn[s] : Found(w, d) =>
                          runs'[worker'[w].branch[s].run].deps[d] <= worker[w].found[d].run
<1>1. ResultsAreSound(w)
  BY DEF PlanInv, MemoryIsSound
<1>2. ASSUME NEW s \in Steps, Found(w, s) PROVE IsCompleted(worker[w].found[s].run, s)'
  <2>1. IsCompleted(worker[w].found[s].run, s)
    BY <1>1, <1>2 DEF ResultsAreSound
  <2>. QED  BY <2>1 DEF IsCompleted, IsRun, RunsKept
<1>3. ASSUME NEW s \in Steps, worker[w].branch[s].at \in {"claim", "run"},
             worker'[w].branch[s].run = worker[w].branch[s].run
      PROVE  /\ IsRun(worker[w].branch[s].run, s)'
             /\ \A d \in DependsOn[s] : Found(w, d) =>
                   runs'[worker'[w].branch[s].run].deps[d] <= worker[w].found[d].run
  <2>1. IsRun(worker[w].branch[s].run, s)
    BY <1>1, <1>3 DEF ResultsAreSound
  <2>2. runs'[worker[w].branch[s].run].deps = runs[worker[w].branch[s].run].deps
    BY <2>1 DEF IsRun, RunsKept
  <2>3. IsRun(worker[w].branch[s].run, s)'
    BY <1>3, <2>1 DEF IsRun, RunsKept
  <2>. QED  BY <1>1, <1>3, <2>2, <2>3 DEF ResultsAreSound
<1>. QED  BY <1>2, <1>3

LEMMA FitsStay ==
    ASSUME PlanInv, RunsKept, NEW w \in Workers, worker'[w].found = worker[w].found, FoundFits(w)
    PROVE  FoundFits(w)'
<1>1. ASSUME NEW s \in Steps, Found(w, s)
      PROVE  runs'[worker[w].found[s].run].input = runs[worker[w].found[s].run].input
  <2>1. IsCompleted(worker[w].found[s].run, s)
    BY <1>1 DEF PlanInv, MemoryIsSound, ResultsAreSound
  <2>. QED  BY <2>1, RunsStay
<1>2. ASSUME NEW s \in Steps, NEW d \in DependsOn[s], Found(w, s), Found(w, d)
      PROVE  runs'[worker[w].found[s].run].input[d] = worker[w].found[d].run
  BY <1>1, <1>2 DEF FoundFits
<1>. QED  BY <1>2 DEF FoundFits, Found

-----------------------------------------------------------------------------
(* The start and the success of a step *)

LEMMA DepsInTyped ==
    ASSUME PlanTypeOK, NEW w \in Workers, NEW s \in Steps
    PROVE  /\ DepsIn(w, s) \in [Steps -> RunIds]
           /\ \A d \in DependsOn[s] : d \in Steps /\ DepsIn(w, s)[d] = worker[w].found[d].run
  BY WorkerShape, Bounds, Blank DEF DepsIn

LEMMA AddStepRunLeaves ==
    ASSUME PlanInv, NEW w \in Workers, NEW s \in Steps, NEW synthesis,
           AddStepRun(w, s, synthesis), synthesis \in {0, plan.synthesis},
           worker[w].task \in Steps \/ (worker[w].at = "waves" /\ IsOpen(w, s)),
           worker[w].task \in Steps => s = worker[w].task,
           worker[w].at \in {"reserve", "waves"},
           \A d \in DependsOn[s] : worker[w].found[d].run <= step[d].valid
    PROVE  Leaves(w)
<1>. DEFINE n == Len(runs) + 1
            x == NewRun(s, DepsIn(w, s))
            b == [at |-> "claim", run |-> n, number |-> 0]
            m == [worker[w] EXCEPT !.at = "waves", !.branch = [@ EXCEPT ![s] = b]]
<1>1. PlanTypeOK /\ MemoryIsSound(w)
  BY DEF PlanInv
<1>2. x \in Run /\ x.status = "QUEUED" /\ x.role = s /\ x.deps = DepsIn(w, s)
  BY <1>1, DepsInTyped, NewRunIsRun
<1>3. Adds(x) /\ RunsKept /\ LeasesAreOver'
  <2>1. Adds(x)
    BY <1>2 DEF AddStepRun, Adds
  <2>. QED  BY <1>1, <2>1, RunsAreKept DEF PlanInv
<1>4. /\ runs' \in Seq(Run) /\ Len(runs') <= MaxRuns
      /\ DOMAIN runs' = 1..n /\ DOMAIN runs = 1..Len(runs) /\ runs'[n] = x
      /\ \A q \in DOMAIN runs : runs'[q] = runs[q]
      /\ n \in RunIds /\ n # 0 /\ n \in Nat /\ Len(runs) \in Nat /\ n = Len(runs) + 1
  BY <1>1, <1>3, Added, RunsShape
<1>. HIDE DEF x, n
<1>5. b \in Branch
  BY <1>4, Bounds DEF Branch
<1>6. m \in Worker
  <2>1. worker[w] \in Worker /\ [worker[w].branch EXCEPT ![s] = b] \in [Steps -> Branch]
    BY <1>1, <1>5, WorkerShape
  <2>. HIDE DEF b
  <2>. QED  BY <2>1 DEF Worker
<1>7. Holding(w, m)
  BY <1>1 DEF AddStepRun, Holding, n
<1>8. /\ worker' \in [Workers -> Worker] /\ worker'[w] = m
      /\ \A v \in Workers \ {w} : worker'[v] = worker[v]
  BY <1>1, <1>6, <1>7, OneHolds
<1>9. /\ m.task = worker[w].task /\ m.at = "waves" /\ m.run = worker[w].run
      /\ m.found = worker[w].found /\ m.branch[s] = b
      /\ \A e \in Steps \ {s} : m.branch[e] = worker[w].branch[e]
  BY <1>1, WorkerShape DEF Worker
<1>. HIDE DEF m
<1>10. /\ step' \in [Steps -> Step]
       /\ step'[s].status = "RUNNING" /\ step'[s].latest = n /\ step'[s].valid = step[s].valid
       /\ \A e \in Steps \ {s} : step'[e] = step[e]
  <2>. DEFINE y == [step[s] EXCEPT !.status = "RUNNING", !.latest = n]
  <2>1. step[s] \in Step /\ step \in [Steps -> Step]
    BY <1>1 DEF PlanTypeOK
  <2>2. y \in Step /\ y.status = "RUNNING" /\ y.latest = n /\ y.valid = step[s].valid
    BY <1>4, <2>1 DEF Step, StepStatus
  <2>3. step' = [step EXCEPT ![s] = y]
    BY <2>1 DEF AddStepRun, n
  <2>. HIDE DEF y
  <2>. QED  BY <2>1, <2>2, <2>3
<1>11. plan' \in Plan /\ plan'.status = "RUNNING" /\ plan'.synthesis = synthesis
  BY <1>1, RowShape, Blank DEF AddStepRun, Resumed, PlanTypeOK, Plan
<1>12. PlanTypeOK'
  BY <1>1, <1>4, <1>8, <1>10, <1>11 DEF AddStepRun, PlanTypeOK
<1>13. RunsAreStarted'
  <2>1. runs # <<>>
    BY <1>1 DEF MemoryIsSound, PhaseIsSound
  <2>. QED  BY <1>1, <1>3, <1>11, <2>1, StartedStays DEF PlanInv
<1>14. PointersAreSound'
  <2>1. (plan.synthesis # 0 => IsRun(plan.synthesis, "synthesis"))'
    BY <1>3, <1>11 DEF PlanInv, PointersAreSound, RunsKept, IsRun
  <2>2. ASSUME NEW e \in Steps
        PROVE  /\ (step[e].latest # 0 => IsRun(step[e].latest, e))'
               /\ (step[e].valid # 0 => IsCompleted(step[e].valid, e))'
               /\ (Completed(e) => step[e].valid # 0)'
    <3>1. /\ (step[e].valid # 0 => IsCompleted(step[e].valid, e))'
          /\ (Completed(e) => step[e].valid # 0)'
      BY <1>3, <1>10 DEF PlanInv, PointersAreSound, Completed, RunsKept, IsRun, IsCompleted
    <3>2. CASE e = s
      BY <1>2, <1>4, <1>10, <3>1, <3>2 DEF IsRun
    <3>3. CASE e # s
      BY <1>3, <1>10, <3>1, <3>3 DEF PlanInv, PointersAreSound, RunsKept, IsRun
    <3>. QED  BY <3>2, <3>3
  <2>. QED  BY <2>1, <2>2 DEF PointersAreSound
<1>15. NewestAreNamed'
  <2>1. ASSUME NEW r \in DOMAIN runs', NEW e \in Steps, runs'[r].role = e
        PROVE  /\ r <= step'[e].latest
               /\ runs'[r].status = "COMPLETED" => r <= step'[e].valid
    <3>1. CASE r = n
      BY <1>2, <1>4, <1>10, <2>1, <3>1
    <3>2. CASE r # n
      <4>1. r \in DOMAIN runs /\ runs'[r] = runs[r] /\ r \in Nat /\ r <= n
        BY <1>4, <2>1, <3>2
      <4>2. r <= step[e].latest /\ (runs[r].status = "COMPLETED" => r <= step[e].valid)
        BY <2>1, <4>1 DEF PlanInv, NewestAreNamed
      <4>. QED  BY <1>10, <4>1, <4>2
    <3>. QED  BY <3>1, <3>2
  <2>. QED  BY <2>1 DEF NewestAreNamed
<1>16. LineageAges'
  <2>1. ASSUME NEW r \in DOMAIN runs', NEW e \in Steps, runs'[r].role = e, NEW d \in DependsOn[e]
        PROVE  /\ runs'[r].deps[d] <= step'[d].valid
               /\ runs'[r].status = "COMPLETED" =>
                     /\ runs'[r].deps[d] <= runs'[r].input[d]
                     /\ runs'[r].input[d] <= step'[d].valid
    <3>1. d \in Steps /\ step'[d].valid = step[d].valid
      BY <1>10, Bounds
    <3>2. CASE r = n
      BY <1>1, <1>2, <1>4, <2>1, <3>1, <3>2, DepsInTyped
    <3>3. CASE r # n
      <4>1. r \in DOMAIN runs /\ runs'[r] = runs[r]
        BY <1>4, <2>1, <3>3
      <4>. QED  BY <2>1, <3>1, <4>1 DEF PlanInv, LineageAges
    <3>. QED  BY <3>2, <3>3
  <2>. QED  BY <2>1 DEF LineageAges
<1>17. PackagesHoldOutputs'
  BY <1>3, PackagesStay DEF PlanInv, AddStepRun
<1>18. MemoryIsSound(w)'
  <2>1. PhaseIsSound(w)'
    BY <1>1, <1>3, <1>8, <1>9, <1>13 DEF MemoryIsSound, PhaseIsSound, WavesAreOrdered, IsOpen,
       Phases, RunsKept, IsRun
  <2>2. ResultsAreSound(w)'
    <3>1. ASSUME NEW e \in Steps, m.found[e].status = "COMPLETED"
          PROVE  IsCompleted(worker[w].found[e].run, e)'
      BY <1>3, <1>8, <1>9, <3>1, ResultsStay DEF Found
    <3>2. ASSUME NEW e \in Steps, m.branch[e].at \in {"claim", "run"}
          PROVE  /\ IsRun(worker[w].branch[e].run, e)'
                 /\ \A d \in DependsOn[e] : m.found[d].status = "COMPLETED" =>
                       runs'[m.branch[e].run].deps[d] <= m.found[d].run
      <4>1. CASE e = s
        <5>1. m.branch[e].run = n /\ worker'[w] = m
          BY <1>8, <1>9, <4>1
        <5>2. IsRun(worker[w].branch[e].run, e)'
          BY <1>2, <1>4, <4>1, <5>1 DEF IsRun
        <5>3. ASSUME NEW d \in DependsOn[e]
              PROVE  runs'[n].deps[d] = m.found[d].run /\ m.found[d].run \in Nat
          <6>1. d \in Steps /\ runs'[n].deps[d] = worker[w].found[d].run
            BY <1>1, <1>2, <1>4, <4>1, <5>3, DepsInTyped
          <6>. QED  BY <1>1, <1>9, <6>1, WorkerShape
        <5>4. \A d \in DependsOn[e] : runs'[n].deps[d] <= m.found[d].run
          BY <5>3
        <5>. QED  BY <5>1, <5>2, <5>4
      <4>2. CASE e # s
        <5>1. /\ m.branch[e] = worker[w].branch[e] /\ worker'[w] = m
              /\ m.found = worker[w].found
          BY <1>8, <1>9, <4>2
        <5>2. /\ IsRun(worker[w].branch[e].run, e)'
              /\ \A d \in DependsOn[e] : Found(w, d) =>
                    runs'[worker'[w].branch[e].run].deps[d] <= worker[w].found[d].run
          BY <1>3, <3>2, <5>1, ResultsStay
        <5>. QED  BY <5>1, <5>2 DEF Found
      <4>. QED  BY <4>1, <4>2
    <3>. QED  BY <1>8, <3>1, <3>2 DEF ResultsAreSound, Found
  <2>3. WavesAreOrdered(w)'
    <3>1. m.task \notin Steps => FoundFits(w)'
      BY <1>1, <1>3, <1>8, <1>9, FitsStay DEF MemoryIsSound, WavesAreOrdered
    <3>2. ASSUME NEW e \in Steps, m.branch[e].at = "run"
          PROVE  \A d \in DependsOn[e] : m.found[d].status = "COMPLETED"
      BY <1>1, <1>9, <3>2 DEF MemoryIsSound, WavesAreOrdered, DepsGood
    <3>3. ASSUME NEW e \in Steps, m.branch[e].at # "over", m.task \in Steps
          PROVE  e = m.task
      BY <1>1, <1>9, <3>3 DEF MemoryIsSound, WavesAreOrdered, IsOpen
    <3>4. ASSUME NEW e \in Steps, m.branch[e].at # "over", m.task \notin Steps
          PROVE  IsOpen(w, e)
      BY <1>9, <3>4 DEF IsOpen
    <3>5. ASSUME NEW e \in Steps, m.branch[e].at # "over", m.task \notin Steps
          PROVE  /\ m.found[e].status # "COMPLETED"
                 /\ \A f \in Steps : e \in DependsOn[f] => m.found[f].status # "COMPLETED"
      BY <1>1, <1>9, <3>4, <3>5 DEF MemoryIsSound, WavesAreOrdered, Found
    <3>. QED
      BY <1>8, <1>9, <3>1, <3>2, <3>3, <3>5 DEF WavesAreOrdered, IsOpen, Found, DepsGood
  <2>. QED  BY <2>1, <2>2, <2>3 DEF MemoryIsSound
<1>. QED
  BY <1>3, <1>8, <1>12, <1>13, <1>14, <1>15, <1>16, <1>17, <1>18 DEF Leaves

\* m is what w has in memory once the branch of s has ended with the result.
BranchIsOver(w, s, m, result) ==
    /\ m \in Worker /\ Holding(w, m)
    /\ m.task = worker[w].task /\ m.at = worker[w].at /\ m.run = worker[w].run
    /\ m.branch[s] = Over /\ m.found[s] = result
    /\ \A e \in Steps \ {s} :
          m.branch[e] = worker[w].branch[e] /\ m.found[e] = worker[w].found[e]

LEMMA BranchEnds ==
    ASSUME PlanTypeOK, NEW w \in Workers, NEW s \in Steps, NEW result \in Result,
           worker' = [worker EXCEPT ![w].branch[s] = Over, ![w].found[s] = result]
    PROVE  \E m : BranchIsOver(w, s, m, result)
<1>. DEFINE m == [worker[w] EXCEPT !.branch = [@ EXCEPT ![s] = Over],
                                   !.found = [@ EXCEPT ![s] = result]]
<1>1. worker[w] \in Worker
  BY WorkerShape
<1>2. m \in Worker
  BY <1>1, Blank DEF Worker
<1>3. /\ m.task = worker[w].task /\ m.at = worker[w].at /\ m.run = worker[w].run
      /\ m.branch[s] = Over /\ m.found[s] = result
      /\ \A e \in Steps \ {s} :
            m.branch[e] = worker[w].branch[e] /\ m.found[e] = worker[w].found[e]
  BY <1>1, WorkerShape DEF Worker
<1>4. Holding(w, m)
  BY <1>1 DEF Holding, PlanTypeOK, Worker
<1>. HIDE DEF m
<1>. QED  BY <1>2, <1>3, <1>4 DEF BranchIsOver

\* What an output must be, for the memory to stay sound.
FitsInMemory(w, s, result) ==
    result.status = "COMPLETED" =>
        /\ DepsGood(w, s)
        /\ IsCompleted(result.run, s)'
        /\ \A d \in DependsOn[s] : runs'[result.run].input[d] = worker[w].found[d].run
        /\ \A e \in Steps : worker[w].branch[e].at \in {"claim", "run"} /\ s \in DependsOn[e] =>
              runs[worker[w].branch[e].run].deps[s] <= result.run

LEMMA BranchEndIsSound ==
    ASSUME PlanInv, NEW w \in Workers, NEW s \in Steps, NEW m, NEW result,
           BranchIsOver(w, s, m, result), RunsKept, IsOpen(w, s), FitsInMemory(w, s, result)
    PROVE  MemoryIsSound(w)'
<1>1. PlanTypeOK /\ MemoryIsSound(w)
  BY DEF PlanInv
<1>2. worker'[w] = m
  BY <1>1, OneHolds DEF BranchIsOver
<1>3. /\ m.task = worker[w].task /\ m.at = "waves" /\ m.run = worker[w].run
      /\ m.branch[s].at = "over" /\ m.found[s] = result /\ worker[w].at = "waves"
      /\ \A e \in Steps \ {s} :
            m.branch[e] = worker[w].branch[e] /\ m.found[e] = worker[w].found[e]
  BY <1>1 DEF BranchIsOver, MemoryIsSound, WavesAreOrdered, Over
<1>4. PhaseIsSound(w)'
  BY <1>1, <1>2, <1>3 DEF MemoryIsSound, PhaseIsSound, Phases, RunsKept, IsRun
<1>5. ResultsAreSound(w)'
  <2>1. ASSUME NEW e \in Steps, m.found[e].status = "COMPLETED"
        PROVE  IsCompleted(worker[w].found[e].run, e)'
    <3>1. CASE e = s
      BY <1>2, <1>3, <2>1, <3>1 DEF FitsInMemory, IsCompleted, IsRun
    <3>2. CASE e # s
      <4>1. worker'[w].found[e] = worker[w].found[e] /\ Found(w, e)
        BY <1>2, <1>3, <2>1, <3>2 DEF Found
      <4>2. IsCompleted(worker[w].found[e].run, e)
        BY <1>1, <4>1 DEF MemoryIsSound, ResultsAreSound
      <4>. QED  BY <4>1, <4>2 DEF RunsKept, IsRun, IsCompleted
    <3>. QED  BY <3>1, <3>2
  <2>2. ASSUME NEW e \in Steps, m.branch[e].at \in {"claim", "run"}
        PROVE  /\ IsRun(worker[w].branch[e].run, e)'
               /\ \A d \in DependsOn[e] : m.found[d].status = "COMPLETED" =>
                     runs'[m.branch[e].run].deps[d] <= m.found[d].run
    <3>1. e # s /\ m.branch[e] = worker[w].branch[e]
      BY <1>3, <2>2
    <3>2. IsRun(worker[w].branch[e].run, e) /\ IsRun(worker[w].branch[e].run, e)'
      BY <1>1, <1>2, <2>2, <3>1 DEF MemoryIsSound, ResultsAreSound, RunsKept, IsRun
    <3>3. ASSUME NEW d \in DependsOn[e], m.found[d].status = "COMPLETED"
          PROVE  runs'[m.branch[e].run].deps[d] <= m.found[d].run
      <4>1. d \in Steps /\ runs'[m.branch[e].run].deps = runs[worker[w].branch[e].run].deps
        BY <3>1, <3>2, Bounds DEF RunsKept, IsRun
      <4>2. CASE d = s
        BY <1>3, <2>2, <3>1, <3>3, <4>1, <4>2 DEF FitsInMemory
      <4>3. CASE d # s
        BY <1>1, <1>3, <2>2, <3>1, <3>3, <4>1, <4>3 DEF MemoryIsSound, ResultsAreSound, Found
      <4>. QED  BY <4>2, <4>3
    <3>. QED  BY <3>2, <3>3
  <2>. QED  BY <1>2, <2>1, <2>2 DEF ResultsAreSound, Found
<1>6. WavesAreOrdered(w)'
  <2>1. ASSUME NEW e \in Steps, m.branch[e].at # "over"
        PROVE  e # s /\ IsOpen(w, e) /\ m.branch[e] = worker[w].branch[e]
    BY <1>3, <2>1 DEF IsOpen
  <2>2. ASSUME m.task \in Steps, NEW e \in Steps, m.branch[e].at # "over" PROVE FALSE
    BY <1>1, <1>3, <2>1, <2>2 DEF MemoryIsSound, WavesAreOrdered
  <2>3. ASSUME NEW e \in Steps, m.branch[e].at = "run", NEW d \in DependsOn[e]
        PROVE  m.found[d].status = "COMPLETED"
    <3>1. d \in Steps /\ e # s /\ IsOpen(w, e) /\ Found(w, d)
      BY <1>1, <2>1, <2>3, Bounds DEF MemoryIsSound, WavesAreOrdered, DepsGood, Found
    <3>2. m.task \notin Steps
      BY <2>2, <2>3
    <3>3. d # s
      BY <1>1, <1>3, <3>1, <3>2 DEF MemoryIsSound, WavesAreOrdered
    <3>. QED  BY <1>3, <3>1, <3>3 DEF Found
  <2>4. ASSUME m.task \notin Steps, NEW e \in Steps, m.branch[e].at # "over"
        PROVE  /\ m.found[e].status # "COMPLETED"
               /\ \A f \in Steps : e \in DependsOn[f] => m.found[f].status # "COMPLETED"
    <3>1. e # s /\ ~Found(w, e) /\ \A f \in Steps : e \in DependsOn[f] => ~Found(w, f)
      BY <1>1, <1>3, <2>1, <2>4 DEF MemoryIsSound, WavesAreOrdered
    <3>2. e \in DependsOn[s] => result.status # "COMPLETED"
      BY <3>1 DEF FitsInMemory, DepsGood, Found
    <3>. QED  BY <1>3, <3>1, <3>2 DEF Found
  <2>5. m.task \notin Steps => FoundFits(w)'
    <3>1. SUFFICES ASSUME m.task \notin Steps, NEW e \in Steps, NEW d \in DependsOn[e],
                          m.found[e].status = "COMPLETED", m.found[d].status = "COMPLETED"
                   PROVE  runs'[m.found[e].run].input[d] = m.found[d].run
      BY <1>2 DEF FoundFits, Found
    <3>2. d \in Steps /\ d # e
      BY Bounds, NoSelf
    <3>3. CASE e = s
      BY <1>3, <3>1, <3>2, <3>3 DEF FitsInMemory
    <3>4. CASE e # s
      <4>1. Found(w, e) /\ worker[w].found[e] = m.found[e]
        BY <1>3, <3>1, <3>4 DEF Found
      <4>2. d # s
        BY <1>1, <1>3, <3>1, <4>1 DEF MemoryIsSound, WavesAreOrdered
      <4>3. Found(w, d) /\ worker[w].found[d] = m.found[d]
        BY <1>3, <3>1, <3>2, <4>2 DEF Found
      <4>4. IsCompleted(worker[w].found[e].run, e) /\ FoundFits(w)
        BY <1>1, <1>3, <3>1, <4>1 DEF MemoryIsSound, ResultsAreSound, WavesAreOrdered
      <4>5. runs[worker[w].found[e].run].input[d] = worker[w].found[d].run
        BY <4>1, <4>3, <4>4 DEF FoundFits
      <4>6. runs'[worker[w].found[e].run].input = runs[worker[w].found[e].run].input
        BY <4>4, RunsStay
      <4>. QED  BY <4>1, <4>3, <4>5, <4>6
    <3>. QED  BY <3>3, <3>4
  <2>6. \A e \in Steps : m.branch[e].at # "over" => m.at = "waves"
    BY <1>3
  <2>. QED
    BY <1>2, <2>2, <2>3, <2>4, <2>5, <2>6 DEF WavesAreOrdered, IsOpen, Found, DepsGood
<1>. QED  BY <1>4, <1>5, <1>6 DEF MemoryIsSound

\* What a branch that holds its run knows of it.
LEMMA BranchRuns ==
    ASSUME PlanInv, NEW w \in Workers, NEW s \in Steps, worker[w].branch[s].at = "run",
           BranchMine(w, s)
    PROVE  LET r == worker[w].branch[s].run IN
           /\ r \in DOMAIN runs /\ runs[r].role = s /\ runs[r].status = "RUNNING"
           /\ step[s].latest = r /\ DepsGood(w, s) /\ IsOpen(w, s)
           /\ \A d \in DependsOn[s] : runs[r].deps[d] <= worker[w].found[d].run
<1>1. MemoryIsSound(w)
  BY DEF PlanInv
<1>2. IsRun(worker[w].branch[s].run, s)
  BY <1>1 DEF MemoryIsSound, ResultsAreSound
<1>3. step[s].latest = worker[w].branch[s].run
  BY <1>2, StepsAreSteps DEF BranchMine, Current, IsRun
<1>4. DepsGood(w, s) /\ IsOpen(w, s)
  BY <1>1 DEF MemoryIsSound, WavesAreOrdered, IsOpen
<1>5. \A d \in DependsOn[s] : runs[worker[w].branch[s].run].deps[d] <= worker[w].found[d].run
  BY <1>1, <1>4, Bounds DEF MemoryIsSound, ResultsAreSound, DepsGood, Found
<1>. QED  BY <1>2, <1>3, <1>4, <1>5 DEF IsRun, BranchMine, Holds

LEMMA StoreStepLeaves ==
    ASSUME PlanInv, NEW w \in Workers, NEW s \in Steps, StoreStep(w, s)
    PROVE  Leaves(w)
<1>1. PlanTypeOK /\ MemoryIsSound(w)
  BY DEF PlanInv
<1>r. PICK r \in RunIds : worker[w].branch[s].run = r
  BY <1>1, WorkerShape
<1>. DEFINE x == [Ended(runs[r], "COMPLETED") EXCEPT !.input = DepsIn(w, s)]
            result == [status |-> "COMPLETED", run |-> r]
<1>2. /\ r \in DOMAIN runs /\ runs[r].role = s /\ runs[r].status = "RUNNING"
      /\ step[s].latest = r /\ DepsGood(w, s) /\ IsOpen(w, s)
      /\ \A d \in DependsOn[s] : runs[r].deps[d] <= worker[w].found[d].run
  BY <1>r, BranchRuns DEF StoreStep
<1>3. /\ x \in Run /\ x.role = s /\ x.deps = runs[r].deps /\ x.status = "COMPLETED"
      /\ x.input = DepsIn(w, s) /\ x.lease = "over"
  <2>1. runs[r] \in Run /\ DepsIn(w, s) \in [Steps -> RunIds]
    BY <1>1, <1>2, RunsShape, DepsInTyped
  <2>. QED  BY <1>2, <2>1 DEF Run, Ended
<1>4. Rewrites(r, x)
  BY <1>r, <1>2, <1>3 DEF Rewrites, StoreStep
<1>. HIDE DEF x
<1>5. /\ RunsKept /\ runs' \in Seq(Run) /\ Len(runs') = Len(runs)
      /\ DOMAIN runs' = DOMAIN runs /\ runs'[r] = x /\ runs # <<>>
      /\ \A q \in DOMAIN runs \ {r} : runs'[q] = runs[q]
      /\ LeasesAreOver'
  BY <1>1, <1>2, <1>4, Rewritten, RunsAreKept, RunsShape DEF PlanInv
<1>6. PICK m : BranchIsOver(w, s, m, result)
  <2>1. result \in Result
    BY DEF Result, StepStatus
  <2>. QED  BY <1>1, <1>r, <2>1, BranchEnds DEF StoreStep, EndBranch
<1>7. /\ step' \in [Steps -> Step]
      /\ step'[s].status = "COMPLETED" /\ step'[s].valid = r /\ step'[s].latest = r
      /\ \A e \in Steps \ {s} : step'[e] = step[e]
  <2>. DEFINE y == [step[s] EXCEPT !.status = "COMPLETED", !.valid = r]
  <2>1. step[s] \in Step /\ step \in [Steps -> Step]
    BY <1>1 DEF PlanTypeOK
  <2>2. y \in Step /\ y.status = "COMPLETED" /\ y.valid = r /\ y.latest = r
    BY <1>1, <1>2, <2>1 DEF Step, StepStatus
  <2>3. step' = [step EXCEPT ![s] = y]
    BY <1>r, <2>1 DEF StoreStep
  <2>. HIDE DEF y
  <2>. QED  BY <2>1, <2>2, <2>3
<1>8. PlanTypeOK'
  <2>1. worker' \in [Workers -> Worker]
    BY <1>1, <1>6, OneHolds DEF BranchIsOver
  <2>. QED  BY <1>1, <1>5, <1>7, <2>1 DEF StoreStep, PlanTypeOK
<1>9. RunsAreStarted'
  BY <1>1, <1>5, StartedStays DEF PlanInv, StoreStep
\* The step had no newer valid run.
<1>10. step[s].valid <= r /\ \A e \in Steps : step[e].valid <= step'[e].valid
  <2>1. CASE step[s].valid = 0
    BY <1>1, <1>2, <1>7, <2>1, RowShape
  <2>2. CASE step[s].valid # 0
    <3>1. IsCompleted(step[s].valid, s)
      BY <2>2 DEF PlanInv, PointersAreSound
    <3>. QED  BY <1>1, <1>2, <1>7, <3>1, RowShape DEF PlanInv, NewestAreNamed, IsCompleted, IsRun
  <2>. QED  BY <2>1, <2>2
<1>11. PointersAreSound'
  <2>1. (plan.synthesis # 0 => IsRun(plan.synthesis, "synthesis"))'
    BY <1>5 DEF PlanInv, PointersAreSound, StoreStep, RunsKept, IsRun
  <2>2. ASSUME NEW e \in Steps
        PROVE  /\ (step[e].latest # 0 => IsRun(step[e].latest, e))'
               /\ (step[e].valid # 0 => IsCompleted(step[e].valid, e))'
               /\ (Completed(e) => step[e].valid # 0)'
    <3>1. CASE e = s
      <4>1. r # 0
        BY <1>1, <1>2, RunsShape
      <4>. QED  BY <1>2, <1>3, <1>5, <1>7, <3>1, <4>1 DEF IsRun, IsCompleted
    <3>2. CASE e # s
      BY <1>5, <1>7, <3>2
      DEF PlanInv, PointersAreSound, RunsKept, Completed, IsRun, IsCompleted
    <3>. QED  BY <3>1, <3>2
  <2>. QED  BY <2>1, <2>2 DEF PointersAreSound
<1>12. NewestAreNamed'
  <2>1. ASSUME NEW q \in DOMAIN runs', NEW e \in Steps, runs'[q].role = e
        PROVE  /\ q <= step'[e].latest
               /\ runs'[q].status = "COMPLETED" => q <= step'[e].valid
    <3>1. q \in DOMAIN runs /\ runs[q].role = e /\ q \in Nat
      BY <1>1, <1>3, <1>5, <2>1, RunsShape, <1>2
    <3>2. q <= step[e].latest
      BY <3>1 DEF PlanInv, NewestAreNamed
    <3>3. CASE e = s
      BY <1>2, <1>7, <3>2, <3>3
    <3>4. CASE e # s
      <4>1. q # r
        BY <1>2, <3>1, <3>4
      <4>. QED  BY <1>5, <1>7, <3>1, <3>2, <3>4, <4>1 DEF PlanInv, NewestAreNamed
    <3>. QED  BY <3>3, <3>4
  <2>. QED  BY <2>1 DEF NewestAreNamed
<1>13. LineageAges'
  <2>1. ASSUME NEW q \in DOMAIN runs', NEW e \in Steps, runs'[q].role = e, NEW d \in DependsOn[e]
        PROVE  /\ runs'[q].deps[d] <= step'[d].valid
               /\ runs'[q].status = "COMPLETED" =>
                     /\ runs'[q].deps[d] <= runs'[q].input[d]
                     /\ runs'[q].input[d] <= step'[d].valid
    <3>1. q \in DOMAIN runs /\ runs[q].role = e /\ runs'[q].deps = runs[q].deps
      BY <1>2, <1>3, <1>5, <2>1
    <3>2. d \in Steps /\ step[d].valid <= step'[d].valid
      BY <1>10, Bounds
    <3>3. /\ step[d].valid \in Nat /\ step'[d].valid \in Nat
          /\ runs[q].deps[d] \in Nat /\ runs'[q].input[d] \in Nat
      <4>1. runs[q] \in Run /\ runs'[q] \in Run
        BY <1>1, <1>3, <1>5, <3>1, RunsShape
      <4>2. ASSUME NEW z \in Run PROVE z.deps[d] \in Nat /\ z.input[d] \in Nat
        BY <3>2, Bounds DEF Run, RunIds
      <4>3. r \in Nat
        BY <1>1, <1>2, RunsShape
      <4>. QED  BY <1>1, <1>7, <3>2, <4>1, <4>2, <4>3, RowShape
    <3>4. runs[q].deps[d] <= step[d].valid
      BY <3>1 DEF PlanInv, LineageAges
    <3>5. CASE q = r
      <4>1. e = s /\ runs'[q].input[d] = worker[w].found[d].run
        BY <1>1, <1>2, <1>3, <1>5, <3>1, <3>5, DepsInTyped
      <4>2. IsCompleted(worker[w].found[d].run, d)
        BY <1>1, <1>2, <3>2, <4>1 DEF MemoryIsSound, ResultsAreSound, DepsGood, Found
      <4>3. worker[w].found[d].run <= step[d].valid
        BY <3>2, <4>2 DEF PlanInv, NewestAreNamed, IsCompleted, IsRun
      <4>4. runs[q].deps[d] <= worker[w].found[d].run
        BY <1>2, <3>5, <4>1
      <4>. QED  BY <3>1, <3>2, <3>3, <3>4, <4>1, <4>3, <4>4
    <3>6. CASE q # r
      <4>1. runs'[q] = runs[q]
        BY <1>5, <3>1, <3>6
      <4>2. runs[q].status = "COMPLETED" =>
               runs[q].deps[d] <= runs[q].input[d] /\ runs[q].input[d] <= step[d].valid
        BY <3>1 DEF PlanInv, LineageAges
      <4>. QED  BY <3>1, <3>2, <3>3, <3>4, <4>1, <4>2
    <3>. QED  BY <3>5, <3>6
  <2>. QED  BY <2>1 DEF LineageAges
<1>14. PackagesHoldOutputs'
  BY <1>5, PackagesStay DEF PlanInv, StoreStep
<1>15. MemoryIsSound(w)'
  <2>1. ASSUME NEW e \in Steps, worker[w].branch[e].at \in {"claim", "run"}, s \in DependsOn[e]
        PROVE  runs[worker[w].branch[e].run].deps[s] <= r
    <3>1. IsRun(worker[w].branch[e].run, e)
      BY <1>1, <2>1 DEF MemoryIsSound, ResultsAreSound
    <3>2. runs[worker[w].branch[e].run].deps[s] <= step[s].valid
      BY <2>1, <3>1 DEF PlanInv, LineageAges, IsRun
    <3>3. runs[worker[w].branch[e].run].deps[s] \in Nat /\ step[s].valid \in Nat /\ r \in Nat
      <4>1. ASSUME NEW z \in Run PROVE z.deps[s] \in Nat
        BY Bounds DEF Run, RunIds
      <4>. QED  BY <1>1, <1>2, <3>1, <4>1, RunsShape, RowShape DEF IsRun
    <3>. QED  BY <1>10, <3>2, <3>3
  <2>2. FitsInMemory(w, s, result)
    <3>1. IsCompleted(r, s)' /\ \A d \in DependsOn[s] : runs'[r].input[d] = worker[w].found[d].run
      <4>1. r \in DOMAIN runs' /\ runs'[r].role = s /\ runs'[r].status = "COMPLETED"
        BY <1>2, <1>3, <1>5
      <4>. QED  BY <1>1, <1>3, <1>5, <4>1, DepsInTyped DEF IsCompleted, IsRun
    <3>. QED  BY <1>2, <2>1, <3>1 DEF FitsInMemory
  <2>. QED  BY <1>2, <1>5, <1>6, <2>2, BranchEndIsSound
<1>. QED
  <2>1. \A v \in Workers \ {w} : worker'[v] = worker[v]
    BY <1>1, <1>6, OneHolds DEF BranchIsOver
  <2>. QED  BY <1>5, <1>8, <1>9, <1>11, <1>12, <1>13, <1>14, <1>15, <2>1 DEF Leaves

-----------------------------------------------------------------------------
(* Steps that write no rows, and steps of nobody *)

LEMMA SameRows ==
    ASSUME UNCHANGED <<plan, step, runs>>
    PROVE  PlainRows /\ SynthesisIsNamed
  BY DEF PlainRows, StepsKept, SynthesisIsNamed

LEMMA RunsAreThere ==
    ASSUME PlanInv, NEW w \in Workers,
           worker[w].task \notin {"none", "orchestrate"} \/ worker[w].at \notin {"idle", "begin"}
    PROVE  runs # <<>> /\ 1 \in DOMAIN runs
  BY RunsShape DEF PlanInv, MemoryIsSound, PhaseIsSound

\* The queues are of their types, and a task that needs a plan is queued for one.
QueuesAreSound ==
    /\ queued' \in [Kinds -> Nat]
    /\ \A k \in Kinds \ {"orchestrate"} : queued'[k] > 0 => queued[k] > 0 \/ runs # <<>>

LEMMA QueuesStay ==
    ASSUME PlanTypeOK, queued' = queued
    PROVE  QueuesAreSound
  BY DEF QueuesAreSound, PlanTypeOK

LEMMA StartedSame ==
    ASSUME RunsAreStarted, UNCHANGED <<plan, runs, event>>, QueuesAreSound
    PROVE  RunsAreStarted'
  BY DEF RunsAreStarted, QueuesAreSound

LEMMA ReadLeaves ==
    ASSUME PlanInv, NEW w \in Workers, NEW m \in Worker, Holding(w, m),
           UNCHANGED <<plan, step, runs, packages, event>>, QueuesAreSound,
           used' \in [reruns : 0..MaxReruns, faults : 0..MaxFaults],
           MemoryIsSound(w)'
    PROVE  Leaves(w)
<1>1. PlanTypeOK /\ PlainRows /\ SynthesisIsNamed /\ RunsKept
  BY SameRows, PlainRowsKeepRuns DEF PlanInv
<1>2. RunsAreStarted'
  BY StartedSame DEF PlanInv
<1>3. PlanTypeOK'
  BY <1>1, OneHolds DEF PlanTypeOK, QueuesAreSound
<1>. QED
  BY <1>1, <1>2, <1>3, OneHolds, PlainRowsKeepTables, PackagesStay DEF Leaves, PlanInv

LEMMA NobodyKeepsInv ==
    ASSUME PlanInv, UNCHANGED <<worker, packages>>, PlainRows, SynthesisIsNamed,
           RunsAreStarted', plan' \in Plan, step' \in [Steps -> Step], event' \in BOOLEAN,
           queued' \in [Kinds -> Nat], used' \in [reruns : 0..MaxReruns, faults : 0..MaxFaults]
    PROVE  PlanInv'
<1>1. PlanTypeOK /\ RunsKept
  BY PlainRowsKeepRuns DEF PlanInv
<1>2. runs' \in Seq(Run) /\ Len(runs') <= MaxRuns
  BY <1>1, RunsShape, Rewritten, Added DEF PlainRows, Moves, Completes, PlanTypeOK
<1>3. PlanTypeOK'
  BY <1>1, <1>2 DEF PlanTypeOK
<1>4. \A v \in Workers : MemoryIsSound(v)'
  BY <1>1, MemoryStays DEF PlanInv
<1>. QED  BY <1>1, <1>3, <1>4, PlainRowsKeepTables, PackagesStay DEF PlanInv

\* Between the waves a task holds results only.
LEMMA ClosedIsSound ==
    ASSUME PlanInv, RunsKept, NEW w \in Workers, NEW m, worker'[w] = m,
           m.task = worker[w].task, m.found = worker[w].found,
           \A s \in Steps : m.branch[s].at = "over",
           PhaseIsSound(w)'
    PROVE  MemoryIsSound(w)'
<1>1. MemoryIsSound(w)
  BY DEF PlanInv
<1>2. ResultsAreSound(w)'
  BY ResultsStay DEF ResultsAreSound, Found
<1>3. WavesAreOrdered(w)'
  <2>1. m.task \notin Steps => FoundFits(w)'
    BY <1>1, FitsStay DEF MemoryIsSound, WavesAreOrdered
  <2>. QED  BY <2>1 DEF WavesAreOrdered, IsOpen
<1>. QED  BY <1>2, <1>3 DEF MemoryIsSound

LEMMA WavesOnly ==
    ASSUME PlanInv, NEW w \in Workers, worker[w].at # "waves" \/ WavesOver(w)
    PROVE  \A s \in Steps : worker[w].branch[s].at = "over"
  BY DEF PlanInv, MemoryIsSound, WavesAreOrdered, IsOpen, WavesOver

LEMMA GoToHolds ==
    ASSUME PlanTypeOK, NEW w \in Workers, NEW at, GoTo(w, at), [worker[w] EXCEPT !.at = at] \in Worker
    PROVE  Holding(w, [worker[w] EXCEPT !.at = at])
  BY DEF GoTo, Holding, PlanTypeOK, Worker

LEMMA EndTaskHolds ==
    ASSUME NEW w \in Workers, EndTask(w)
    PROVE  Holding(w, Idle)
  BY DEF EndTask, Holding

-----------------------------------------------------------------------------
(* The broker, users and operators, leases and the scan *)

LEMMA TakeLeaves ==
    ASSUME PlanInv, NEW w \in Workers, NEW k \in Kinds, Take(w, k)
    PROVE  Leaves(w)
<1>. DEFINE m == [Idle EXCEPT !.task = k, !.at = "begin"]
<1>1. PlanTypeOK /\ worker[w] = Idle
  BY DEF PlanInv, Take
<1>2. m \in Worker
  BY Blank DEF Worker
<1>3. Holding(w, m)
  BY <1>1, Blank DEF Take, Holding, PlanTypeOK, Worker
<1>4. /\ m.task = k /\ m.at = "begin"
      /\ \A s \in Steps : m.found[s].status = "none" /\ m.branch[s].at = "over"
  BY DEF Idle, NoResult, Over
<1>. HIDE DEF m
<1>5. worker'[w] = m
  BY <1>1, <1>2, <1>3, OneHolds
<1>6. QueuesAreSound /\ (k # "orchestrate" => runs # <<>>)
  <2>1. queued' \in [Kinds -> Nat] /\ \A j \in Kinds : queued'[j] > 0 => queued[j] > 0
    BY <1>1 DEF Take, PlanTypeOK
  <2>. QED  BY <2>1 DEF QueuesAreSound, PlanInv, RunsAreStarted, Take
<1>7. MemoryIsSound(w)'
  <2>1. PhaseIsSound(w)'
    BY <1>4, <1>5, <1>6 DEF PhaseIsSound, Take, Phases
  <2>2. ResultsAreSound(w)' /\ WavesAreOrdered(w)'
    BY <1>4, <1>5 DEF ResultsAreSound, WavesAreOrdered, IsOpen, Found, FoundFits
  <2>. QED  BY <2>1, <2>2 DEF MemoryIsSound
<1>. QED  BY <1>1, <1>2, <1>3, <1>6, <1>7, ReadLeaves DEF Take, PlanTypeOK

LEMMA FaultTyped ==
    ASSUME PlanTypeOK, Fault \/ used' = used
    PROVE  used' \in [reruns : 0..MaxReruns, faults : 0..MaxFaults]
  BY Bounds DEF PlanTypeOK, Fault

LEMMA CrashLeaves ==
    ASSUME PlanInv, NEW w \in Workers, Crash(w)
    PROVE  Leaves(w)
<1>1. PlanTypeOK
  BY DEF PlanInv
<1>2. QueuesAreSound
  <2>1. queued' \in [Kinds -> Nat]
        /\ \A j \in Kinds : queued'[j] > 0 => queued[j] > 0 \/ j = worker[w].task
    <3>1. queued \in [Kinds -> Nat] /\ worker[w].task \in Kinds \cup {"none"}
      BY <1>1, WorkerShape DEF PlanTypeOK, Worker
    <3>2. CASE worker[w].task \in Kinds
      BY <3>1, <3>2 DEF Crash
    <3>3. CASE worker[w].task \notin Kinds
      <4>1. queued' = queued
        BY <3>1, <3>3 DEF Crash
      <4>. QED  BY <3>1, <4>1
    <3>. QED  BY <3>2, <3>3
  <2>2. "none" \notin Kinds
    BY PlanAssumption DEF Kinds
  <2>. QED  BY <2>1, <2>2, RunsAreThere DEF QueuesAreSound
<1>3. Holding(w, Idle) /\ MemoryIsSound(w)'
  BY <1>1, Blank, EndTaskHolds, OneHolds, NothingIsSound DEF Crash
<1>. QED  BY <1>1, <1>2, <1>3, Blank, FaultTyped, ReadLeaves DEF Crash

LEMMA RequestRerunKeeps ==
    ASSUME PlanInv, NEW s \in Steps, RequestRerun(s)
    PROVE  PlanInv'
<1>1. PlanTypeOK /\ s \in Kinds
  BY DEF PlanInv, Kinds
<1>2. queued' \in [Kinds -> Nat] /\ runs # <<>>
  BY <1>1 DEF RequestRerun, PlanTypeOK, Planned
<1>3. used' \in [reruns : 0..MaxReruns, faults : 0..MaxFaults]
  <2>1. used \in [reruns : 0..MaxReruns, faults : 0..MaxFaults]
    BY <1>1 DEF PlanTypeOK
  <2>2. used.reruns + 1 \in 0..MaxReruns
    BY <2>1, Bounds DEF RequestRerun
  <2>. QED  BY <2>1, <2>2 DEF RequestRerun
<1>4. RunsAreStarted'
  BY <1>2, StartedSame DEF PlanInv, RequestRerun, QueuesAreSound
<1>. QED
  BY <1>1, <1>2, <1>3, <1>4, SameRows, NobodyKeepsInv DEF RequestRerun, PlanTypeOK

LEMMA DispatchKeeps ==
    ASSUME PlanInv, Dispatch
    PROVE  PlanInv'
<1>1. PlanTypeOK /\ runs # <<>> /\ event' = FALSE
  BY DEF PlanInv, RunsAreStarted, Dispatch
<1>2. queued' \in [Kinds -> Nat]
  BY <1>1 DEF Dispatch, PlanTypeOK, Kinds
<1>3. RunsAreStarted'
  BY <1>1 DEF PlanInv, RunsAreStarted, Dispatch
<1>. QED
  BY <1>1, <1>2, <1>3, SameRows, NobodyKeepsInv DEF Dispatch, PlanTypeOK

LEMMA LoseTaskKeeps ==
    ASSUME PlanInv, NEW k \in Kinds, LoseTask(k)
    PROVE  PlanInv'
<1>1. PlanTypeOK
  BY DEF PlanInv
<1>2. queued' \in [Kinds -> Nat] /\ \A j \in Kinds : queued'[j] > 0 => queued[j] > 0
  BY <1>1 DEF LoseTask, PlanTypeOK
<1>3. RunsAreStarted'
  BY <1>2, StartedSame DEF PlanInv, LoseTask, QueuesAreSound
<1>. QED
  BY <1>1, <1>2, <1>3, FaultTyped, SameRows, NobodyKeepsInv DEF LoseTask, PlanTypeOK

LEMMA CancelAndScanKeep ==
    ASSUME PlanInv, NEW r \in DOMAIN runs, CancelRun(r) \/ Lapse(r) \/ Scan(r)
    PROVE  PlanInv'
<1>1. PlanTypeOK /\ runs # <<>>
  BY RunsShape DEF PlanInv
<1>2. plan' \in Plan /\ plan'.synthesis = plan.synthesis /\ (plan'.status = "NONE" => plan.status = "NONE")
  BY <1>1 DEF CancelRun, Lapse, Scan, CancelSuperseded, RequeueStale, RequeueExpired, BuryExpired,
     PlanTypeOK, Plan
<1>3. step' \in [Steps -> Step] /\ StepsKept
  <2>1. CASE step' = step
    BY <1>1, <2>1 DEF PlanTypeOK, StepsKept
  <2>2. CASE BuryExpired(r) /\ runs[r].role \in Steps
    <3>. DEFINE s == runs[r].role
                y == [step[s] EXCEPT !.status = "FAILED"]
    <3>1. y \in Step /\ y.status = "FAILED" /\ y.latest = step[s].latest /\ y.valid = step[s].valid
      BY <1>1, <2>2, RowShape DEF Step, StepStatus
    <3>2. step' = [step EXCEPT ![s] = y]
      BY <1>1, <2>2 DEF BuryExpired, PlanTypeOK
    <3>. HIDE DEF y
    <3>. QED  BY <1>1, <2>2, <3>1, <3>2 DEF PlanTypeOK, StepsKept
  <2>. QED
    BY <2>1, <2>2 DEF CancelRun, Lapse, Scan, CancelSuperseded, RequeueStale, RequeueExpired,
       BuryExpired
<1>4. runs' = runs \/ Moves(r)
  <2>1. CASE RequeueStale(r)
    BY <2>1 DEF RequeueStale
  <2>2. CASE runs[r].status = "COMPLETED"
    BY <2>1, <2>2 DEF PlanInv, LeasesAreOver, CancelRun, Lapse, Scan, CancelSuperseded,
       RequeueExpired, BuryExpired
  <2>. QED  BY <1>1, <2>1, <2>2, OutsideMoves DEF Scan
<1>5. PlainRows /\ SynthesisIsNamed
  BY <1>2, <1>3, <1>4 DEF PlainRows, SynthesisIsNamed
<1>6. RunsAreStarted'
  BY <1>1, <1>2, <1>5, PlainRowsKeepRuns, StartedStays DEF PlanInv
<1>7. /\ UNCHANGED <<worker, packages, queued>> /\ event' \in BOOLEAN
      /\ used' \in [reruns : 0..MaxReruns, faults : 0..MaxFaults]
  BY <1>1, FaultTyped DEF CancelRun, Lapse, Scan, CancelSuperseded, RequeueStale, RequeueExpired,
     BuryExpired, PlanTypeOK
<1>. QED  BY <1>1, <1>2, <1>3, <1>5, <1>6, <1>7, NobodyKeepsInv DEF PlanTypeOK

-----------------------------------------------------------------------------
(* Planning, recovery and synthesis *)

LEMMA RunsAt ==
    ASSUME PlanTypeOK, NEW w \in Workers, NEW at, NEW r,
           worker' = [worker EXCEPT ![w].at = at, ![w].run = r]
    PROVE  Holding(w, [worker[w] EXCEPT !.at = at, !.run = r])
  BY WorkerShape DEF Holding, PlanTypeOK, Worker

LEMMA PreparePlanningLeaves ==
    ASSUME PlanInv, NEW w \in Workers, PreparePlanning(w)
    PROVE  Leaves(w)
<1>. DEFINE m == [worker[w] EXCEPT !.at = "claim", !.run = 1]
            x == NewRun("planning", NoDeps)
<1>1. PlanTypeOK /\ runs = <<>> /\ Len(runs) = 0
  BY RunsShape DEF PlanInv, RunsAreStarted, PreparePlanning
<1>2. 1 \in RunIds
  BY Bounds DEF RunIds
<1>3. /\ m \in Worker /\ m.task = worker[w].task /\ m.at = "claim" /\ m.run = 1
      /\ m.found = worker[w].found /\ m.branch = worker[w].branch
  BY <1>1, <1>2, WorkerShape DEF Worker
<1>4. Holding(w, m)
  <2>1. worker' = [worker EXCEPT ![w].at = "claim", ![w].run = 1]
    BY DEF PreparePlanning
  <2>. QED  BY <1>1, <2>1, RunsAt
<1>. HIDE DEF m
<1>5. worker'[w] = m
  BY <1>1, <1>3, <1>4, OneHolds
<1>6. x \in Run /\ x.status = "QUEUED" /\ x.role = "planning"
  BY Blank, NewRunIsRun DEF Phases
<1>7. Adds(x)
  BY <1>1, <1>6, Bounds DEF PreparePlanning, Adds
<1>8. 1 \in DOMAIN runs' /\ runs'[1] = x /\ runs' # <<>>
  BY <1>1, <1>7, Added
<1>. HIDE DEF x
<1>9. /\ plan' \in Plan /\ plan'.status = "PLANNING" /\ plan'.synthesis = plan.synthesis
      /\ step' \in [Steps -> Step] /\ event' \in BOOLEAN /\ queued' \in [Kinds -> Nat]
  BY <1>1 DEF PreparePlanning, PlanTypeOK, Plan
<1>10. PlainRows /\ SynthesisIsNamed
  BY <1>6, <1>7, <1>9 DEF PlainRows, SynthesisIsNamed, StepsKept, PreparePlanning, Phases
<1>11. RunsAreStarted'
  BY <1>6, <1>8, <1>9 DEF RunsAreStarted
<1>12. MemoryIsSound(w)'
  <2>1. PhaseIsSound(w)'
    BY <1>3, <1>5, <1>6, <1>8, StepsAreSteps DEF PhaseIsSound, Phases, PreparePlanning
  <2>2. RunsKept /\ \A s \in Steps : worker[w].branch[s].at = "over"
    BY <1>1, <1>10, PlainRowsKeepRuns, WavesOnly DEF PreparePlanning
  <2>. QED  BY <1>3, <1>5, <2>1, <2>2, ClosedIsSound
<1>. QED  BY <1>3, <1>4, <1>9, <1>10, <1>11, <1>12, PlainLeaves DEF PreparePlanning

LEMMA EndingLeaves ==
    ASSUME PlanInv, NEW w \in Workers, EndTask(w),
           UNCHANGED <<plan, step, runs, packages, event, queued, used>>
    PROVE  Leaves(w)
<1>1. PlanTypeOK /\ Holding(w, Idle) /\ Idle \in Worker
  BY EndTaskHolds, Blank DEF PlanInv
<1>2. MemoryIsSound(w)'
  BY <1>1, OneHolds, NothingIsSound
<1>. QED  BY <1>1, <1>2, QueuesStay, FaultTyped, ReadLeaves

\* A task goes on to another phase, and writes nothing.
LEMMA PassingLeaves ==
    ASSUME PlanInv, NEW w \in Workers, NEW m \in Worker, Holding(w, m), MemoryIsSound(w)',
           UNCHANGED <<plan, step, runs, packages, event, queued, used>>
    PROVE  Leaves(w)
  BY QueuesStay, FaultTyped, ReadLeaves DEF PlanInv

LEMMA BeginRecoveryLeaves ==
    ASSUME PlanInv, NEW w \in Workers, BeginRecovery(w)
    PROVE  Leaves(w)
<1>1. PlanTypeOK /\ runs # <<>> /\ 1 \in DOMAIN runs /\ runs[1].role = "planning" /\ 1 \in RunIds
  BY RunsAreThere, RunsShape DEF PlanInv, RunsAreStarted, BeginRecovery
<1>2. RunsKept /\ \A s \in Steps : worker[w].branch[s].at = "over"
  BY <1>1, RunsAreKept, WavesOnly DEF BeginRecovery
<1>3. CASE worker' = [worker EXCEPT ![w].at = "claim", ![w].run = 1]
  <2>. DEFINE m == [worker[w] EXCEPT !.at = "claim", !.run = 1]
  <2>1. /\ m \in Worker /\ m.task = worker[w].task /\ m.at = "claim" /\ m.run = 1
        /\ m.found = worker[w].found /\ m.branch = worker[w].branch
    BY <1>1, WorkerShape DEF Worker
  <2>2. Holding(w, m)
    BY <1>1, <1>3, RunsAt
  <2>. HIDE DEF m
  <2>3. worker'[w] = m
    BY <1>1, <2>1, <2>2, OneHolds
  <2>4. PhaseIsSound(w)'
    BY <1>1, <2>1, <2>3, StepsAreSteps DEF PhaseIsSound, Phases, BeginRecovery
  <2>5. MemoryIsSound(w)'
    BY <1>2, <2>1, <2>3, <2>4, ClosedIsSound
  <2>. QED  BY <2>1, <2>2, <2>5, PassingLeaves DEF BeginRecovery
<1>4. CASE GoTo(w, "normalize")
  <2>. DEFINE m == [worker[w] EXCEPT !.at = "normalize"]
  <2>1. /\ m \in Worker /\ m.task = worker[w].task /\ m.at = "normalize"
        /\ m.found = worker[w].found /\ m.branch = worker[w].branch
    BY <1>1, WorkerShape DEF Worker
  <2>2. Holding(w, m)
    BY <1>1, <1>4, <2>1, GoToHolds
  <2>. HIDE DEF m
  <2>3. worker'[w] = m
    BY <1>1, <2>1, <2>2, OneHolds
  <2>4. PhaseIsSound(w)'
    BY <1>1, <2>1, <2>3 DEF PhaseIsSound, Phases, BeginRecovery
  <2>5. MemoryIsSound(w)'
    BY <1>2, <2>1, <2>3, <2>4, ClosedIsSound
  <2>. QED  BY <2>1, <2>2, <2>5, PassingLeaves DEF BeginRecovery
<1>. QED  BY <1>3, <1>4 DEF BeginRecovery

LEMMA ClaimRunLeaves ==
    ASSUME PlanInv, NEW w \in Workers, ClaimRun(w)
    PROVE  Leaves(w)
<1>1. PlanTypeOK /\ runs # <<>> /\ PhaseIsSound(w)
  BY RunsAreThere DEF PlanInv, MemoryIsSound, ClaimRun
<1>2. PICK r \in RunIds : worker[w].run = r
  BY <1>1, WorkerShape
<1>. DEFINE m == [worker[w] EXCEPT !.at = runs[r].role, !.number = runs[r].number]
<1>3. /\ r \in DOMAIN runs /\ runs[r].role \in Phases /\ runs[r].status = "QUEUED"
      /\ runs' = Claimed(r) /\ (worker[w].task \in Steps => runs[r].role = "synthesis")
  BY <1>1, <1>2 DEF PhaseIsSound, ClaimRun
<1>4. Moves(r)
  BY <1>1, <1>3, ClaimMoves
<1>5. runs[r].number \in 0..MaxAttempts
  <2>1. runs[r].number \in 1..MaxAttempts
    BY <1>1, <1>3, RunsShape DEF Run
  <2>. QED  BY <2>1, Bounds
<1>6. /\ m \in Worker /\ m.task = worker[w].task /\ m.at = runs[r].role /\ m.run = r
      /\ m.found = worker[w].found /\ m.branch = worker[w].branch
  BY <1>1, <1>2, <1>3, <1>5, WorkerShape DEF Worker, Phases
<1>7. Holding(w, m)
  BY <1>1, <1>2 DEF Holding, ClaimRun, PlanTypeOK, Worker
<1>. HIDE DEF m
<1>8. worker'[w] = m
  BY <1>1, <1>6, <1>7, OneHolds
<1>9. PlainRows /\ SynthesisIsNamed /\ RunsKept
  <2>1. PlainRows /\ SynthesisIsNamed
    BY <1>4 DEF PlainRows, StepsKept, SynthesisIsNamed, ClaimRun
  <2>. QED  BY <1>1, <2>1, PlainRowsKeepRuns
<1>10. MemoryIsSound(w)'
  <2>1. r \in DOMAIN runs' /\ runs'[r].role = runs[r].role /\ runs' # <<>>
    BY <1>1, <1>3, <1>9 DEF RunsKept
  <2>2. PhaseIsSound(w)'
    BY <1>3, <1>6, <1>8, <2>1 DEF PhaseIsSound, Phases
  <2>3. \A s \in Steps : worker[w].branch[s].at = "over"
    BY WavesOnly DEF ClaimRun
  <2>. QED  BY <1>6, <1>8, <1>9, <2>2, <2>3, ClosedIsSound
<1>. QED
  BY <1>1, <1>6, <1>7, <1>9, <1>10, PlainLeaves DEF ClaimRun, PlanTypeOK

\* The phase that a task runs.
LEMMA PhaseRuns ==
    ASSUME PlanInv, NEW w \in Workers, worker[w].at \in Phases, Mine(w)
    PROVE  LET r == worker[w].run IN
           /\ r \in DOMAIN runs /\ runs[r].role = worker[w].at /\ runs[r].status = "RUNNING"
           /\ worker[w].task \in Steps => worker[w].at = "synthesis"
           /\ runs # <<>>
  BY RunsShape DEF PlanInv, MemoryIsSound, PhaseIsSound, Mine, Holds

LEMMA AcceptPlanningLeaves ==
    ASSUME PlanInv, NEW w \in Workers, AcceptPlanning(w)
    PROVE  Leaves(w)
<1>. DEFINE t == worker[w].task
            at == IF t = "recover" THEN "normalize" ELSE "waves"
            m == IF t = "recover" THEN [Idle EXCEPT !.task = t, !.at = "normalize"]
                 ELSE [Idle EXCEPT !.task = t, !.at = "waves", !.branch = AllStart]
<1>1. PlanTypeOK
  BY DEF PlanInv
<1>2. /\ worker[w].run \in DOMAIN runs /\ runs[worker[w].run].role = "planning"
      /\ runs[worker[w].run].status = "RUNNING" /\ t \notin Steps /\ runs # <<>>
  BY PhaseRuns DEF AcceptPlanning, Phases
<1>3. Completes(worker[w].run)
  BY <1>1, <1>2, SuccessCompletes DEF AcceptPlanning
<1>4. m \in Worker
  BY <1>1, WorkerShape, Blank DEF Worker
<1>5. Holding(w, m)
  BY DEF AcceptPlanning, Holding
<1>6. /\ m.task = t /\ m.run = 0 /\ m.at \in {"normalize", "waves"}
      /\ \A s \in Steps : m.found[s].status = "none" /\ m.branch[s].at \in {"over", "start"}
      /\ m.at # "waves" => \A s \in Steps : m.branch[s].at = "over"
  BY DEF Idle, NoResult, Over, AllStart
<1>. HIDE DEF m
<1>7. worker'[w] = m
  BY <1>1, <1>4, <1>5, OneHolds
<1>8. plan' \in Plan /\ plan'.status = "PLANNED" /\ plan'.synthesis = plan.synthesis
  BY <1>1 DEF AcceptPlanning, PlanTypeOK, Plan
<1>9. PlainRows /\ SynthesisIsNamed /\ RunsKept
  <2>1. PlainRows /\ SynthesisIsNamed
    BY <1>2, <1>3, <1>8 DEF PlainRows, StepsKept, SynthesisIsNamed, AcceptPlanning, Phases
  <2>. QED  BY <1>1, <2>1, PlainRowsKeepRuns
<1>10. MemoryIsSound(w)'
  <2>1. PhaseIsSound(w)'
    BY <1>2, <1>6, <1>7, <1>9 DEF PhaseIsSound, Phases, RunsKept
  <2>2. ResultsAreSound(w)'
    BY <1>6, <1>7 DEF ResultsAreSound, Found
  <2>3. WavesAreOrdered(w)'
    BY <1>2, <1>6, <1>7 DEF WavesAreOrdered, IsOpen, Found, FoundFits
  <2>. QED  BY <2>1, <2>2, <2>3 DEF MemoryIsSound
<1>. QED
  BY <1>1, <1>2, <1>4, <1>5, <1>8, <1>9, <1>10, PlainLeaves DEF AcceptPlanning, PlanTypeOK

LEMMA FailPhaseLeaves ==
    ASSUME PlanInv, NEW w \in Workers, NEW retryable \in BOOLEAN, FailPhase(w, retryable)
    PROVE  Leaves(w)
<1>1. PlanTypeOK /\ Holding(w, Idle) /\ Idle \in Worker
  BY EndTaskHolds, Blank DEF PlanInv, FailPhase
<1>2. MemoryIsSound(w)'
  BY <1>1, OneHolds, NothingIsSound
<1>3. /\ worker[w].run \in DOMAIN runs /\ runs[worker[w].run].status = "RUNNING" /\ runs # <<>>
  BY PhaseRuns DEF FailPhase, Phases
<1>4. Moves(worker[w].run)
  BY <1>1, <1>3, FailureMoves DEF FailPhase
<1>5. plan' \in Plan /\ plan'.synthesis = plan.synthesis /\ (plan'.status = "NONE" => plan.status = "NONE")
  BY <1>1 DEF FailPhase, PlanTypeOK, Plan
<1>6. PlainRows /\ SynthesisIsNamed
  BY <1>4, <1>5 DEF PlainRows, StepsKept, SynthesisIsNamed, FailPhase
<1>7. event' \in BOOLEAN
  BY <1>1 DEF FailPhase, EnsureEvent, PlanTypeOK
<1>. QED
  BY <1>1, <1>2, <1>3, <1>5, <1>6, <1>7, PlainLeaves DEF FailPhase, PlanTypeOK

\* The result that is listed of a step is what it has, and fits what is valid.
LEMMA ListedIsSound ==
    ASSUME PlanInv, NEW s \in Steps
    PROVE  /\ Listed(s) \in Result
           /\ Completed(s) => Listed(s).status \in {"COMPLETED", "SKIPPED"}
           /\ Listed(s).status = "COMPLETED" =>
                 /\ Listed(s).run = step[s].valid /\ IsCompleted(step[s].valid, s)
                 /\ \A d \in DependsOn[s] :
                       Completed(d) /\ runs[step[s].valid].input[d] = step[d].valid
<1>1. PlanTypeOK /\ step[s] \in Step
  BY RowShape DEF PlanInv
<1>2. step[s].status \in StepStatus /\ step[s].latest \in RunIds /\ step[s].valid \in RunIds
  BY <1>1 DEF Step
<1>3. Listed(s) \in Result
  BY <1>2 DEF Listed, Result, StepStatus
<1>4. Completed(s) => Listed(s).status \in {"COMPLETED", "SKIPPED"}
  BY DEF Listed
<1>5. ASSUME Listed(s).status = "COMPLETED"
      PROVE  /\ Listed(s).run = step[s].valid /\ IsCompleted(step[s].valid, s)
             /\ \A d \in DependsOn[s] :
                   Completed(d) /\ runs[step[s].valid].input[d] = step[d].valid
  <2>1. Completed(s) /\ ~Outdated(s) /\ Listed(s).run = step[s].valid
    BY <1>5 DEF Listed, Completed
  <2>2. IsCompleted(step[s].valid, s)
    BY <2>1 DEF PlanInv, PointersAreSound
  <2>3. ASSUME NEW d \in DependsOn[s]
        PROVE  Completed(d) /\ runs[step[s].valid].input[d] = step[d].valid
    <3>1. Completed(d) /\ runs[step[s].valid].deps[d] = step[d].valid
      BY <2>1 DEF Outdated
    <3>2. /\ runs[step[s].valid].deps[d] <= runs[step[s].valid].input[d]
          /\ runs[step[s].valid].input[d] <= step[d].valid
      BY <2>2 DEF PlanInv, LineageAges, IsCompleted, IsRun
    <3>3. d \in Steps /\ step[d].valid \in Nat /\ runs[step[s].valid].input[d] \in Nat
      <4>1. ASSUME NEW z \in Run, NEW e \in Steps PROVE z.input[e] \in Nat
        BY Bounds DEF Run, RunIds
      <4>. QED  BY <1>1, <2>2, <4>1, Bounds, RunsShape, RowShape DEF IsCompleted, IsRun
    <3>. QED  BY <3>1, <3>2, <3>3
  <2>. QED  BY <2>1, <2>2, <2>3
<1>. QED  BY <1>3, <1>4, <1>5

LEMMA ListForRecoveryLeaves ==
    ASSUME PlanInv, NEW w \in Workers, ListForRecovery(w)
    PROVE  Leaves(w)
<1>. DEFINE open(s) == Listed(s).status \in {"PENDING", "RUNNING"}
            waiting(s) == step[s].latest # 0 /\ runs[step[s].latest].status = "QUEUED"
            branch == [s \in Steps |->
                IF ~open(s) THEN Over
                ELSE IF waiting(s) THEN [Over EXCEPT !.at = "claim", !.run = step[s].latest]
                ELSE [Over EXCEPT !.at = "start"]]
            found == [s \in Steps |-> IF open(s) THEN NoResult ELSE Listed(s)]
            run == IF plan.synthesis # 0 /\ runs[plan.synthesis].status = "QUEUED"
                   THEN plan.synthesis ELSE 0
            m == [worker[w] EXCEPT !.at = "waves", !.run = run, !.found = found,
                                   !.branch = branch]
<1>1. PlanTypeOK /\ runs # <<>> /\ worker[w].task = "recover" /\ worker[w].task \notin Steps
  BY RunsAreThere, StepsAreSteps DEF PlanInv, ListForRecovery
<1>2. UNCHANGED <<plan, step, runs, packages, event, queued, used>>
  BY DEF ListForRecovery
<1>3. CASE worker' = [worker EXCEPT ![w] = Idle]
  BY <1>2, <1>3, EndingLeaves DEF EndTask
<1>4. CASE Holding(w, m)
  <2>1. /\ found \in [Steps -> Result]
        /\ \A s \in Steps : found[s].status = "COMPLETED" =>
              found[s] = Listed(s) /\ Listed(s).status = "COMPLETED"
        /\ \A s \in Steps : open(s) => found[s].status # "COMPLETED"
    BY ListedIsSound, Blank DEF NoResult
  <2>2. branch \in [Steps -> Branch]
    <3>1. ASSUME NEW s \in Steps PROVE branch[s] \in Branch
      <4>1. step[s].latest \in RunIds /\ Over \in Branch
        BY <1>1, RowShape, Blank
      <4>2. [Over EXCEPT !.at = "claim", !.run = step[s].latest] \in Branch
        BY <4>1 DEF Branch
      <4>3. [Over EXCEPT !.at = "start"] \in Branch
        BY <4>1 DEF Branch
      <4>. QED  BY <4>1, <4>2, <4>3
    <3>. QED  BY <3>1
  <2>3. \A s \in Steps :
           /\ branch[s].at \in {"over", "claim", "start"}
           /\ branch[s].at # "over" => open(s)
           /\ branch[s].at = "claim" => step[s].latest # 0 /\ branch[s].run = step[s].latest
    BY DEF Over
  <2>4. run \in RunIds /\ (run # 0 => IsRun(run, "synthesis"))
    BY <1>1, RowShape, Blank DEF PlanInv, PointersAreSound
  <2>. HIDE DEF branch, found, run
  <2>5. /\ m \in Worker /\ m.task = "recover" /\ m.at = "waves" /\ m.run = run
        /\ m.found = found /\ m.branch = branch
    BY <1>1, <2>1, <2>2, <2>4, WorkerShape DEF Worker
  <2>. HIDE DEF m
  <2>6. worker'[w] = m
    BY <1>1, <1>4, <2>5, OneHolds
  \* A step is open because it is not completed: what depends on it is not listed.
  <2>7. ASSUME NEW s \in Steps, open(s)
        PROVE  \A e \in Steps : s \in DependsOn[e] => found[e].status # "COMPLETED"
    <3>1. ~Completed(s)
      BY <2>7, ListedIsSound
    <3>. QED  BY <2>1, <3>1, ListedIsSound
  <2>8. PhaseIsSound(w)'
    BY <1>1, <1>2, <2>4, <2>5, <2>6 DEF PhaseIsSound, Phases, IsRun
  <2>9. ResultsAreSound(w)'
    <3>1. ASSUME NEW s \in Steps, found[s].status = "COMPLETED"
          PROVE  found[s].run = step[s].valid /\ IsCompleted(step[s].valid, s)
      BY <2>1, <3>1, ListedIsSound
    <3>2. ASSUME NEW s \in Steps, branch[s].at = "claim"
          PROVE  /\ IsRun(branch[s].run, s)
                 /\ \A d \in DependsOn[s] : found[d].status = "COMPLETED" =>
                       runs[branch[s].run].deps[d] <= found[d].run
      <4>1. branch[s].run = step[s].latest /\ IsRun(step[s].latest, s)
        BY <2>3, <3>2 DEF PlanInv, PointersAreSound
      <4>2. ASSUME NEW d \in DependsOn[s], found[d].status = "COMPLETED"
            PROVE  runs[branch[s].run].deps[d] <= found[d].run
        <5>1. d \in Steps
          BY Bounds
        <5>. QED  BY <3>1, <4>1, <4>2, <5>1 DEF PlanInv, LineageAges, IsRun
      <4>. QED  BY <4>1, <4>2
    <3>. QED
      BY <1>2, <2>3, <2>5, <2>6, <3>1, <3>2 DEF ResultsAreSound, Found, IsCompleted, IsRun
  <2>10. WavesAreOrdered(w)'
    <3>1. FoundFits(w)'
      <4>1. ASSUME NEW s \in Steps, NEW d \in DependsOn[s],
                   found[s].status = "COMPLETED", found[d].status = "COMPLETED"
            PROVE  runs[found[s].run].input[d] = found[d].run
        <5>1. d \in Steps
          BY Bounds
        <5>. QED  BY <2>1, <4>1, <5>1, ListedIsSound
      <4>. QED  BY <1>2, <2>5, <2>6, <4>1 DEF FoundFits, Found
    <3>. QED
      BY <1>1, <2>1, <2>3, <2>5, <2>6, <2>7, <3>1 DEF WavesAreOrdered, IsOpen, Found
  <2>11. MemoryIsSound(w)'
    BY <2>8, <2>9, <2>10 DEF MemoryIsSound
  <2>. QED  BY <1>2, <1>4, <2>5, <2>11, PassingLeaves
<1>. QED
  <2>1. \/ worker' = [worker EXCEPT ![w] = Idle]
        \/ Holding(w, m)
    BY DEF ListForRecovery, Holding
  <2>. QED  BY <1>3, <1>4, <2>1

\* A task that reruns a step and has nothing open holds outputs.
LEMMA RerunReads ==
    ASSUME NEW w \in Workers, NEW m, worker'[w] = m, m.task \in Steps,
           m.at \in {"reserve", "synthesize"}, runs' # <<>>,
           \A s \in Steps : m.branch[s].at = "over",
           \A s \in Steps : m.found[s].status = "COMPLETED" =>
              /\ m.found[s].run \in DOMAIN runs' /\ runs'[m.found[s].run].role = s
              /\ runs'[m.found[s].run].status = "COMPLETED"
    PROVE  MemoryIsSound(w)'
<1>1. PhaseIsSound(w)'
  BY DEF PhaseIsSound, Phases
<1>2. ResultsAreSound(w)'
  BY DEF ResultsAreSound, Found, IsCompleted, IsRun
<1>3. WavesAreOrdered(w)'
  BY DEF WavesAreOrdered, IsOpen
<1>. QED  BY <1>1, <1>2, <1>3 DEF MemoryIsSound

LEMMA ReadForRerunLeaves ==
    ASSUME PlanInv, NEW w \in Workers, ReadForRerun(w)
    PROVE  Leaves(w)
<1>. DEFINE t == worker[w].task
            found == [d \in Steps |-> Listed(d)]
            m == [worker[w] EXCEPT !.at = "reserve", !.run = step[t].latest, !.found = found]
<1>1. PlanTypeOK /\ runs # <<>> /\ t \in Steps
  BY RunsAreThere, StepsAreSteps DEF PlanInv, ReadForRerun
<1>2. UNCHANGED <<plan, step, runs, packages, event, queued, used>>
  BY DEF ReadForRerun
<1>3. CASE worker' = [worker EXCEPT ![w] = Idle]
  BY <1>2, <1>3, EndingLeaves DEF EndTask
<1>4. CASE Holding(w, m)
  <2>1. found \in [Steps -> Result] /\ step[t].latest \in RunIds
    BY <1>1, ListedIsSound, RowShape
  <2>2. /\ m \in Worker /\ m.task = t /\ m.at = "reserve"
        /\ m.found = found /\ m.branch = worker[w].branch
    BY <1>1, <2>1, WorkerShape DEF Worker
  <2>3. worker'[w] = m
    BY <1>1, <1>4, <2>2, OneHolds
  <2>4. \A s \in Steps : m.found[s].status = "COMPLETED" =>
           /\ m.found[s].run \in DOMAIN runs' /\ runs'[m.found[s].run].role = s
           /\ runs'[m.found[s].run].status = "COMPLETED"
    BY <1>2, <2>2, ListedIsSound DEF IsCompleted, IsRun
  <2>5. \A s \in Steps : m.branch[s].at = "over"
    BY <2>2, WavesOnly DEF ReadForRerun
  <2>. HIDE DEF m
  <2>6. MemoryIsSound(w)'
    BY <1>1, <1>2, <2>2, <2>3, <2>4, <2>5, RerunReads
  <2>. QED  BY <1>2, <1>4, <2>2, <2>6, PassingLeaves
<1>. QED
  <2>1. \/ worker' = [worker EXCEPT ![w] = Idle]
        \/ Holding(w, m)
    BY DEF ReadForRerun, Holding
  <2>. QED  BY <1>3, <1>4, <2>1

LEMMA ListForRerunLeaves ==
    ASSUME PlanInv, NEW w \in Workers, ListForRerun(w)
    PROVE  Leaves(w)
<1>. DEFINE t == worker[w].task
            results == [s \in Steps |-> IF s = t THEN worker[w].found[s] ELSE Listed(s)]
            m == [Idle EXCEPT !.task = t, !.at = "synthesize", !.found = results]
<1>1. PlanTypeOK /\ runs # <<>> /\ t \in Steps /\ ResultsAreSound(w)
  BY RunsAreThere, StepsAreSteps DEF PlanInv, ListForRerun, MemoryIsSound
<1>2. UNCHANGED <<plan, step, runs, packages, event, queued, used>>
  BY DEF ListForRerun
<1>3. CASE worker' = [worker EXCEPT ![w] = Idle]
  BY <1>2, <1>3, EndingLeaves DEF EndTask
<1>4. CASE Holding(w, m)
  <2>1. results \in [Steps -> Result]
    BY <1>1, ListedIsSound, WorkerShape
  <2>2. \A s \in Steps : results[s].status = "COMPLETED" => IsCompleted(results[s].run, s)
    BY <1>1, ListedIsSound DEF ResultsAreSound, Found
  <2>. HIDE DEF results
  <2>3. /\ m \in Worker /\ m.task = t /\ m.at = "synthesize" /\ m.found = results
        /\ \A s \in Steps : m.branch[s].at = "over"
    BY <1>1, <2>1, Blank DEF Worker, Idle, Over, Kinds
  <2>. HIDE DEF m
  <2>4. worker'[w] = m
    BY <1>1, <1>4, <2>3, OneHolds
  <2>5. \A s \in Steps : m.found[s].status = "COMPLETED" =>
           /\ m.found[s].run \in DOMAIN runs' /\ runs'[m.found[s].run].role = s
           /\ runs'[m.found[s].run].status = "COMPLETED"
    BY <1>2, <2>2, <2>3 DEF IsCompleted, IsRun
  <2>6. MemoryIsSound(w)'
    BY <1>1, <1>2, <2>3, <2>4, <2>5, RerunReads
  <2>. QED  BY <1>2, <1>4, <2>3, <2>6, PassingLeaves
<1>. QED
  <2>1. \/ worker' = [worker EXCEPT ![w] = Idle]
        \/ Holding(w, m)
    BY DEF ListForRerun, Holding
  <2>. QED  BY <1>3, <1>4, <2>1

\* A task whose steps have ended, or not begun, goes on.
LEMMA GoingOnIsSound ==
    ASSUME PlanInv, NEW w \in Workers,
           NEW at \in {"claim", "normalize", "invalidate", "list", "synthesize"},
           GoTo(w, at), runs' = runs, runs # <<>>,
           at = "claim" => IsRun(worker[w].run, "synthesis"),
           worker[w].at # "waves" \/ WavesOver(w)
    PROVE  \E m \in Worker : Holding(w, m) /\ MemoryIsSound(w)'
<1>. DEFINE m == [worker[w] EXCEPT !.at = at]
<1>1. PlanTypeOK /\ RunsKept
  BY RunsAreKept DEF PlanInv
<1>2. /\ m \in Worker /\ m.task = worker[w].task /\ m.at = at /\ m.run = worker[w].run
      /\ m.found = worker[w].found /\ m.branch = worker[w].branch
  BY <1>1, WorkerShape DEF Worker
<1>3. Holding(w, m)
  BY <1>1, <1>2, GoToHolds
<1>. HIDE DEF m
<1>4. worker'[w] = m
  BY <1>1, <1>2, <1>3, OneHolds
<1>5. PhaseIsSound(w)'
  BY <1>2, <1>4 DEF PhaseIsSound, Phases, IsRun
<1>6. MemoryIsSound(w)'
  BY <1>1, <1>2, <1>4, <1>5, WavesOnly, ClosedIsSound
<1>. QED  BY <1>2, <1>3, <1>6

\* The rows of the steps: a step is set to a status that has no output.
LEMMA DroppedRows ==
    ASSUME PlanTypeOK, NEW status \in {"FAILED", "SKIPPED"}, NEW dropped,
           step' = [s \in Steps |-> IF s \in dropped THEN [step[s] EXCEPT !.status = status]
                                                     ELSE step[s]]
    PROVE  step' \in [Steps -> Step] /\ StepsKept
<1>1. ASSUME NEW s \in Steps
      PROVE  /\ [step[s] EXCEPT !.status = status] \in Step /\ step[s] \in Step
             /\ [step[s] EXCEPT !.status = status].latest = step[s].latest
             /\ [step[s] EXCEPT !.status = status].valid = step[s].valid
             /\ [step[s] EXCEPT !.status = status].status = status
  BY RowShape DEF Step, StepStatus
<1>. QED  BY <1>1 DEF StepsKept

LEMMA DroppingLeaves ==
    ASSUME PlanInv, NEW w \in Workers, NEW m \in Worker, Holding(w, m), MemoryIsSound(w)',
           step' \in [Steps -> Step], StepsKept, runs # <<>>,
           UNCHANGED <<plan, runs, packages, event, queued, used>>
    PROVE  Leaves(w)
<1>1. PlanTypeOK /\ PlainRows /\ SynthesisIsNamed
  BY DEF PlanInv, PlainRows, SynthesisIsNamed
<1>. QED  BY <1>1, PlainLeaves DEF PlanTypeOK

LEMMA NormalizeLeaves ==
    ASSUME PlanInv, NEW w \in Workers, Normalize(w)
    PROVE  Leaves(w)
<1>1. PlanTypeOK /\ runs # <<>>
  BY RunsAreThere DEF PlanInv, Normalize
<1>. DEFINE lost == {s \in Steps : step[s].status = "RUNNING"
                        /\ runs[step[s].latest].status \notin {"QUEUED", "RUNNING"}}
<1>2. step' = [s \in Steps |-> IF s \in lost THEN [step[s] EXCEPT !.status = "FAILED"] ELSE step[s]]
  BY DEF Normalize
<1>3. step' \in [Steps -> Step] /\ StepsKept
  BY <1>1, <1>2, DroppedRows
<1>4. \E m \in Worker : Holding(w, m) /\ MemoryIsSound(w)'
  BY <1>1, GoingOnIsSound DEF Normalize
<1>. QED  BY <1>1, <1>3, <1>4, DroppingLeaves DEF Normalize

LEMMA InvalidateLeaves ==
    ASSUME PlanInv, NEW w \in Workers, Invalidate(w)
    PROVE  Leaves(w)
<1>1. PlanTypeOK /\ runs # <<>>
  BY RunsAreThere DEF PlanInv, Invalidate
<1>. DEFINE lost == {s \in Steps : Completed(s) /\ s \notin StillSound}
<1>2. step' = [s \in Steps |-> IF s \in lost THEN [step[s] EXCEPT !.status = "SKIPPED"] ELSE step[s]]
  BY DEF Invalidate
<1>3. step' \in [Steps -> Step] /\ StepsKept
  BY <1>1, <1>2, DroppedRows
<1>4. \E m \in Worker : Holding(w, m) /\ MemoryIsSound(w)'
  BY <1>1, GoingOnIsSound DEF Invalidate
<1>. QED  BY <1>1, <1>3, <1>4, DroppingLeaves DEF Invalidate

-----------------------------------------------------------------------------
(* The waves *)

LEMMA ReserveLeaves ==
    ASSUME PlanInv, NEW w \in Workers, Reserve(w)
    PROVE  Leaves(w)
<1>. DEFINE s == worker[w].task
<1>1. AddStepRun(w, s, 0) /\ worker[w].at = "reserve" /\ MayReserve(w, s) /\ s \in Steps
  BY DEF Reserve, PlanInv, MemoryIsSound, PhaseIsSound
<1>2. \A d \in DependsOn[s] : worker[w].found[d].run <= step[d].valid
  BY <1>1, Bounds, RowShape DEF PlanInv, MayReserve
<1>. QED  BY <1>1, <1>2, AddStepRunLeaves

LEMMA StartStepLeaves ==
    ASSUME PlanInv, NEW w \in Workers, NEW s \in Steps, StartStep(w, s)
    PROVE  Leaves(w)
<1>1. worker[w].at = "waves" /\ IsOpen(w, s) /\ DepsGood(w, s) /\ AddStepRun(w, s, plan.synthesis)
  BY DEF StartStep, InTurn, IsOpen
<1>2. worker[w].task \in Steps => s = worker[w].task
  BY <1>1 DEF PlanInv, MemoryIsSound, WavesAreOrdered
<1>3. ASSUME NEW d \in DependsOn[s] PROVE worker[w].found[d].run <= step[d].valid
  <2>1. d \in Steps /\ IsCompleted(worker[w].found[d].run, d)
    BY <1>1, Bounds DEF PlanInv, MemoryIsSound, ResultsAreSound, DepsGood, Found
  <2>. QED  BY <2>1 DEF PlanInv, NewestAreNamed, IsCompleted, IsRun
<1>. QED  BY <1>1, <1>2, <1>3, AddStepRunLeaves

LEMMA SkipStepLeaves ==
    ASSUME PlanInv, NEW w \in Workers, NEW s \in Steps, SkipStep(w, s)
    PROVE  Leaves(w)
<1>. DEFINE result == [status |-> "SKIPPED", run |-> 0]
<1>1. PlanTypeOK /\ IsOpen(w, s) /\ RunsKept
  BY RunsAreKept DEF PlanInv, SkipStep, IsOpen
<1>2. result \in Result /\ FitsInMemory(w, s, result)
  BY Blank DEF Result, StepStatus, FitsInMemory
<1>3. PICK m : BranchIsOver(w, s, m, result)
  BY <1>1, <1>2, BranchEnds DEF SkipStep
<1>4. MemoryIsSound(w)'
  BY <1>1, <1>2, <1>3, BranchEndIsSound
<1>. QED  BY <1>3, <1>4, PassingLeaves DEF SkipStep, BranchIsOver

LEMMA FailStepLeaves ==
    ASSUME PlanInv, NEW w \in Workers, NEW s \in Steps, NEW retryable \in BOOLEAN,
           FailStep(w, s, retryable)
    PROVE  Leaves(w)
<1>1. PlanTypeOK
  BY DEF PlanInv
<1>2. PICK r \in RunIds : worker[w].branch[s].run = r
  BY <1>1, WorkerShape
<1>3. PICK status \in {"RUNNING", "FAILED"} :
         status = IF WillRetry(r, retryable) THEN "RUNNING" ELSE "FAILED"
  OBVIOUS
<1>. DEFINE result == [status |-> status, run |-> r]
<1>4. /\ r \in DOMAIN runs /\ runs[r].status = "RUNNING" /\ IsOpen(w, s) /\ runs # <<>>
  <2>1. r \in DOMAIN runs /\ runs[r].status = "RUNNING" /\ IsOpen(w, s)
    BY <1>2, BranchRuns DEF FailStep
  <2>. QED  BY <1>1, <2>1, RunsShape
<1>5. Moves(r)
  BY <1>1, <1>2, <1>4, FailureMoves DEF FailStep
<1>6. step' \in [Steps -> Step] /\ StepsKept
  <2>. DEFINE y == [step[s] EXCEPT !.status = status]
  <2>1. y \in Step /\ y.status = status /\ y.latest = step[s].latest /\ y.valid = step[s].valid
    BY <1>1, RowShape DEF Step, StepStatus
  <2>2. step' = [step EXCEPT ![s] = y]
    BY <1>1, <1>2, <1>3 DEF FailStep, PlanTypeOK
  <2>. HIDE DEF y
  <2>. QED  BY <1>1, <2>1, <2>2 DEF PlanTypeOK, StepsKept
<1>7. PlainRows /\ SynthesisIsNamed /\ RunsKept
  <2>1. PlainRows /\ SynthesisIsNamed
    BY <1>5, <1>6 DEF PlainRows, SynthesisIsNamed, FailStep
  <2>. QED  BY <1>1, <2>1, PlainRowsKeepRuns
<1>8. result \in Result /\ FitsInMemory(w, s, result)
  BY DEF Result, StepStatus, FitsInMemory
<1>9. PICK m : BranchIsOver(w, s, m, result)
  BY <1>1, <1>2, <1>3, <1>8, BranchEnds DEF FailStep, EndBranch
<1>10. MemoryIsSound(w)'
  BY <1>4, <1>7, <1>8, <1>9, BranchEndIsSound
<1>11. event' \in BOOLEAN
  BY <1>1 DEF FailStep, EnsureEvent, PlanTypeOK
<1>. QED
  BY <1>1, <1>4, <1>6, <1>7, <1>9, <1>10, <1>11, PlainLeaves
  DEF FailStep, PlanTypeOK, BranchIsOver

LEMMA ClaimStepLeaves ==
    ASSUME PlanInv, NEW w \in Workers, NEW s \in Steps, ClaimStep(w, s)
    PROVE  Leaves(w)
<1>1. PlanTypeOK /\ MemoryIsSound(w) /\ runs # <<>> /\ worker[w].at = "waves"
  BY RunsAreThere DEF PlanInv, ClaimStep, InTurn
<1>2. PICK r \in RunIds : worker[w].branch[s].run = r
  BY <1>1, WorkerShape
<1>. DEFINE b == [worker[w].branch[s] EXCEPT !.at = "run", !.number = runs[r].number]
            m == [worker[w] EXCEPT !.branch = [@ EXCEPT ![s] = b]]
<1>3. /\ r \in DOMAIN runs /\ runs[r].status = "QUEUED" /\ runs' = Claimed(r)
      /\ DepsGood(w, s) /\ worker[w].branch[s].at = "claim"
  BY <1>1, <1>2 DEF MemoryIsSound, ResultsAreSound, IsRun, ClaimStep
<1>4. Moves(r)
  BY <1>1, <1>3, ClaimMoves
<1>5. b \in Branch /\ b.at = "run" /\ b.run = r
  <2>1. runs[r].number \in 1..MaxAttempts
    BY <1>1, <1>3, RunsShape DEF Run
  <2>2. runs[r].number \in 0..MaxAttempts
    BY <2>1, Bounds
  <2>3. worker[w].branch[s] \in Branch
    BY <1>1, WorkerShape
  <2>. QED  BY <1>2, <2>2, <2>3 DEF Branch
<1>6. Holding(w, m)
  <2>1. worker' = [worker EXCEPT ![w].branch[s] = b]
    BY <1>1, <1>2, WorkerShape DEF ClaimStep
  <2>2. worker \in [Workers -> Worker] /\ worker[w] \in Worker
        /\ worker[w].branch \in [Steps -> Branch] /\ worker[w].branch[s] \in Branch
    BY <1>1, WorkerShape DEF PlanTypeOK
  <2>. HIDE DEF b
  <2>. QED  BY <2>1, <2>2 DEF Holding, Worker
<1>. HIDE DEF b
<1>7. /\ m \in Worker /\ m.task = worker[w].task /\ m.at = "waves" /\ m.run = worker[w].run
      /\ m.found = worker[w].found /\ m.branch[s] = b
      /\ \A e \in Steps \ {s} : m.branch[e] = worker[w].branch[e]
  BY <1>1, <1>5, WorkerShape DEF Worker
<1>. HIDE DEF m
<1>8. worker'[w] = m
  BY <1>1, <1>6, <1>7, OneHolds
<1>9. PlainRows /\ SynthesisIsNamed /\ RunsKept
  <2>1. PlainRows /\ SynthesisIsNamed
    BY <1>4 DEF PlainRows, StepsKept, SynthesisIsNamed, ClaimStep
  <2>. QED  BY <1>1, <2>1, PlainRowsKeepRuns
<1>10. PhaseIsSound(w)'
  BY <1>1, <1>7, <1>8, <1>9 DEF MemoryIsSound, PhaseIsSound, Phases, RunsKept, IsRun
<1>11. ResultsAreSound(w)'
  <2>1. ASSUME NEW e \in Steps, m.found[e].status = "COMPLETED"
        PROVE  IsCompleted(worker[w].found[e].run, e)'
    BY <1>7, <1>8, <1>9, <2>1, ResultsStay DEF Found
  <2>2. ASSUME NEW e \in Steps, m.branch[e].at \in {"claim", "run"}
        PROVE  /\ IsRun(worker[w].branch[e].run, e)'
               /\ \A d \in DependsOn[e] : m.found[d].status = "COMPLETED" =>
                     runs'[m.branch[e].run].deps[d] <= m.found[d].run
    <3>1. m.branch[e].run = worker[w].branch[e].run /\ worker[w].branch[e].at \in {"claim", "run"}
      BY <1>2, <1>3, <1>5, <1>7, <2>2
    <3>. QED  BY <1>7, <1>8, <1>9, <3>1, ResultsStay DEF Found
  <2>. QED  BY <1>8, <2>1, <2>2 DEF ResultsAreSound, Found
<1>12. WavesAreOrdered(w)'
  <2>1. ASSUME NEW e \in Steps, m.branch[e].at # "over" PROVE IsOpen(w, e)
    BY <1>3, <1>7, <2>1 DEF IsOpen
  <2>2. ASSUME NEW e \in Steps, m.branch[e].at = "run"
        PROVE  \A d \in DependsOn[e] : m.found[d].status = "COMPLETED"
    BY <1>1, <1>3, <1>7, <2>2 DEF MemoryIsSound, WavesAreOrdered, DepsGood
  <2>3. m.task \notin Steps => FoundFits(w)'
    BY <1>1, <1>7, <1>8, <1>9, FitsStay DEF MemoryIsSound, WavesAreOrdered
  <2>. QED
    BY <1>1, <1>7, <1>8, <2>1, <2>2, <2>3
    DEF MemoryIsSound, WavesAreOrdered, IsOpen, Found, DepsGood
<1>13. MemoryIsSound(w)'
  BY <1>10, <1>11, <1>12 DEF MemoryIsSound
<1>. QED
  BY <1>1, <1>6, <1>7, <1>9, <1>13, PlainLeaves DEF ClaimStep, PlanTypeOK

LEMMA EndWavesLeaves ==
    ASSUME PlanInv, NEW w \in Workers, EndWaves(w)
    PROVE  Leaves(w)
<1>1. PlanTypeOK /\ runs # <<>> /\ worker[w].at = "waves" /\ WavesOver(w) /\ worker[w].task \notin Steps
  BY RunsAreThere DEF PlanInv, EndWaves, WavesOver
<1>2. UNCHANGED <<plan, runs, packages, event, queued, used>>
  BY DEF EndWaves
<1>3. CASE RetryPending(w)
  BY <1>2, <1>3, EndingLeaves DEF EndWaves
<1>4. CASE ~RetryPending(w)
  <2>. DEFINE lost == {s \in Steps : worker[w].found[s].status = "SKIPPED"}
  <2>1. step' = [s \in Steps |-> IF s \in lost THEN [step[s] EXCEPT !.status = "SKIPPED"]
                                               ELSE step[s]]
    BY <1>4 DEF EndWaves
  <2>2. step' \in [Steps -> Step] /\ StepsKept
    BY <1>1, <2>1, DroppedRows
  <2>3. CASE worker[w].run # 0
    <3>1. IsRun(worker[w].run, "synthesis")
      BY <1>1, <2>3 DEF PlanInv, MemoryIsSound, PhaseIsSound
    <3>2. GoTo(w, "claim")
      BY <1>4, <2>3 DEF EndWaves
    <3>3. \E m \in Worker : Holding(w, m) /\ MemoryIsSound(w)'
      BY <1>1, <1>2, <3>1, <3>2, GoingOnIsSound
    <3>. QED  BY <1>1, <1>2, <2>2, <3>3, DroppingLeaves
  <2>4. CASE worker[w].run = 0
    <3>1. GoTo(w, "synthesize")
      BY <1>4, <2>4 DEF EndWaves
    <3>2. \E m \in Worker : Holding(w, m) /\ MemoryIsSound(w)'
      BY <1>1, <1>2, <3>1, GoingOnIsSound
    <3>. QED  BY <1>1, <1>2, <2>2, <3>2, DroppingLeaves
  <2>. QED  BY <2>3, <2>4
<1>. QED  BY <1>3, <1>4

LEMMA EndRerunStepLeaves ==
    ASSUME PlanInv, NEW w \in Workers, EndRerunStep(w)
    PROVE  Leaves(w)
<1>1. UNCHANGED <<plan, step, runs, packages, event, queued, used>>
  BY DEF EndRerunStep
<1>2. CASE EndTask(w)
  BY <1>1, <1>2, EndingLeaves
<1>3. CASE GoTo(w, "invalidate")
  <2>1. runs # <<>> /\ WavesOver(w)
    BY RunsAreThere DEF EndRerunStep, WavesOver
  <2>2. \E m \in Worker : Holding(w, m) /\ MemoryIsSound(w)'
    BY <1>1, <1>3, <2>1, GoingOnIsSound
  <2>. QED  BY <1>1, <2>2, PassingLeaves
<1>. QED  BY <1>2, <1>3 DEF EndRerunStep

-----------------------------------------------------------------------------
(* The synthesis *)

LEMMA StartSynthesisLeaves ==
    ASSUME PlanInv, NEW w \in Workers, StartSynthesis(w)
    PROVE  Leaves(w)
<1>. DEFINE n == Len(runs) + 1
            x == NewRun("synthesis", NoDeps)
            m == [worker[w] EXCEPT !.at = "claim", !.run = n]
<1>1. PlanTypeOK /\ runs # <<>>
  BY RunsAreThere DEF PlanInv, StartSynthesis
<1>2. x \in Run /\ x.status = "QUEUED" /\ x.role = "synthesis"
  BY Blank, NewRunIsRun DEF Phases
<1>3. Adds(x)
  BY <1>2 DEF StartSynthesis, Adds
<1>4. n \in RunIds /\ n \in DOMAIN runs' /\ runs'[n] = x
  BY <1>1, <1>3, Added, RunsShape
<1>. HIDE DEF x
<1>5. /\ m \in Worker /\ m.task = worker[w].task /\ m.at = "claim" /\ m.run = n
      /\ m.found = worker[w].found /\ m.branch = worker[w].branch
  BY <1>1, <1>4, WorkerShape DEF Worker
<1>6. Holding(w, m)
  BY <1>1, RunsAt DEF StartSynthesis
<1>7. plan' \in Plan /\ plan'.status = "RUNNING" /\ plan'.synthesis = n
  BY <1>1, <1>4 DEF StartSynthesis, PlanTypeOK, Plan
<1>. HIDE DEF m, n
<1>8. worker'[w] = m
  BY <1>1, <1>5, <1>6, OneHolds
<1>9. PlainRows /\ SynthesisIsNamed /\ RunsKept
  <2>1. PlainRows
    BY <1>2, <1>3 DEF PlainRows, StepsKept, StartSynthesis, Phases
  <2>2. SynthesisIsNamed
    BY <1>2, <1>4, <1>7 DEF SynthesisIsNamed, IsRun
  <2>. QED  BY <1>1, <2>1, <2>2, PlainRowsKeepRuns
<1>10. MemoryIsSound(w)'
  <2>1. PhaseIsSound(w)'
    BY <1>1, <1>2, <1>4, <1>5, <1>8, <1>9 DEF PhaseIsSound, Phases, RunsKept
  <2>2. \A s \in Steps : worker[w].branch[s].at = "over"
    BY WavesOnly DEF StartSynthesis
  <2>. QED  BY <1>5, <1>8, <1>9, <2>1, <2>2, ClosedIsSound
<1>. QED
  BY <1>1, <1>5, <1>6, <1>7, <1>9, <1>10, PlainLeaves DEF StartSynthesis, PlanTypeOK

LEMMA StoreSynthesisLeaves ==
    ASSUME PlanInv, NEW w \in Workers, StoreSynthesis(w)
    PROVE  Leaves(w)
<1>1. PlanTypeOK /\ Holding(w, Idle) /\ Idle \in Worker /\ ResultsAreSound(w)
  BY EndTaskHolds, Blank DEF PlanInv, StoreSynthesis, MemoryIsSound
<1>2. /\ \A v \in Workers \ {w} : worker'[v] = worker[v]
      /\ worker' \in [Workers -> Worker] /\ MemoryIsSound(w)'
  BY <1>1, OneHolds, NothingIsSound
<1>3. /\ worker[w].run \in DOMAIN runs /\ runs[worker[w].run].role = "synthesis"
      /\ runs[worker[w].run].status = "RUNNING" /\ runs # <<>>
  BY PhaseRuns DEF StoreSynthesis, Phases
<1>4. Completes(worker[w].run)
  BY <1>1, <1>3, SuccessCompletes DEF StoreSynthesis
<1>5. plan' \in Plan /\ plan'.synthesis = plan.synthesis /\ plan'.status # "NONE"
  BY <1>1 DEF StoreSynthesis, PlanTypeOK, Plan
<1>6. PlainRows /\ SynthesisIsNamed /\ RunsKept
  <2>1. PlainRows /\ SynthesisIsNamed
    BY <1>3, <1>4, <1>5 DEF PlainRows, StepsKept, SynthesisIsNamed, StoreSynthesis, Phases
  <2>. QED  BY <1>1, <2>1, PlainRowsKeepRuns
<1>7. runs' \in Seq(Run) /\ Len(runs') <= MaxRuns
  BY <1>1, <1>4, Rewritten DEF Completes, PlanTypeOK
<1>8. /\ Inputs(w) \in [Steps -> RunIds] /\ worker[w].run \in RunIds
      /\ \A s \in Steps : Inputs(w)[s] # 0 => IsCompleted(Inputs(w)[s], s)
  BY <1>1, WorkerShape, Blank DEF Inputs, ResultsAreSound, Found
<1>9. packages' = packages \cup {[run |-> worker[w].run, inputs |-> Inputs(w)]}
  BY DEF StoreSynthesis
<1>10. PlanTypeOK'
  <2>1. packages' \subseteq [run : RunIds, inputs : [Steps -> RunIds]]
    BY <1>1, <1>8, <1>9 DEF PlanTypeOK
  <2>. QED  BY <1>1, <1>2, <1>5, <1>7, <2>1 DEF PlanTypeOK, StoreSynthesis
<1>11. RunsAreStarted'
  BY <1>1, <1>3, <1>5, <1>6, StartedStays DEF PlanInv
<1>12. PackagesHoldOutputs'
  <2>1. ASSUME NEW p \in packages', NEW s \in Steps, p.inputs[s] # 0
        PROVE  IsCompleted(p.inputs[s], s)
    BY <1>8, <1>9, <2>1 DEF PlanInv, PackagesHoldOutputs
  <2>. QED  BY <1>6, <2>1 DEF PackagesHoldOutputs, RunsKept, IsCompleted, IsRun
<1>. QED
  BY <1>2, <1>6, <1>10, <1>11, <1>12, PlainRowsKeepTables DEF Leaves

-----------------------------------------------------------------------------
(* The theorems for any number of workers *)

LEMMA WorkLeaves ==
    ASSUME PlanInv, NEW w \in Workers, Work(w)
    PROVE  Leaves(w)
<1>1. CASE PreparePlanning(w) \/ BeginRecovery(w) \/ ClaimRun(w) \/ AcceptPlanning(w)
  BY <1>1, PreparePlanningLeaves, BeginRecoveryLeaves, ClaimRunLeaves, AcceptPlanningLeaves
<1>2. CASE Replay(w) \/ Raise(w)
  BY <1>2, EndingLeaves DEF Replay, Raise
<1>3. ASSUME NEW retryable \in BOOLEAN, FailPhase(w, retryable) PROVE Leaves(w)
  BY <1>3, FailPhaseLeaves
<1>4. CASE Normalize(w) \/ Invalidate(w) \/ ListForRecovery(w) \/ ListForRerun(w)
  BY <1>4, NormalizeLeaves, InvalidateLeaves, ListForRecoveryLeaves, ListForRerunLeaves
<1>5. CASE ReadForRerun(w) \/ Reserve(w)
  BY <1>5, ReadForRerunLeaves, ReserveLeaves
<1>6. CASE Waves(w)
  <2>1. ASSUME NEW s \in Steps, SkipStep(w, s) \/ StartStep(w, s) \/ ClaimStep(w, s) \/ StoreStep(w, s)
        PROVE  Leaves(w)
    BY <2>1, SkipStepLeaves, StartStepLeaves, ClaimStepLeaves, StoreStepLeaves
  <2>2. ASSUME NEW s \in Steps, NEW retryable \in BOOLEAN, FailStep(w, s, retryable)
        PROVE  Leaves(w)
    BY <2>2, FailStepLeaves
  <2>3. CASE EndWaves(w) \/ EndRerunStep(w)
    BY <2>3, EndWavesLeaves, EndRerunStepLeaves
  <2>. QED  BY <1>6, <2>1, <2>2, <2>3 DEF Waves
<1>7. CASE StartSynthesis(w) \/ StoreSynthesis(w)
  BY <1>7, StartSynthesisLeaves, StoreSynthesisLeaves
<1>. QED  BY <1>1, <1>2, <1>3, <1>4, <1>5, <1>6, <1>7 DEF Work

LEMMA PlanInit == Init => PlanInv
<1>. SUFFICES ASSUME Init PROVE PlanInv
  OBVIOUS
<1>1. runs = <<>> /\ runs \in Seq(Run) /\ Len(runs) = 0 /\ DOMAIN runs = {}
  BY DEF Init
<1>2. PlanTypeOK
  <2>1. worker \in [Workers -> Worker]
    BY Blank DEF Init
  <2>2. plan \in Plan /\ step \in [Steps -> Step]
    BY Blank DEF Init, Plan, Step, StepStatus
  <2>3. queued \in [Kinds -> Nat] /\ used \in [reruns : 0..MaxReruns, faults : 0..MaxFaults]
    BY Bounds DEF Init
  <2>4. Len(runs) <= MaxRuns
    BY <1>1, Bounds
  <2>5. packages \subseteq [run : RunIds, inputs : [Steps -> RunIds]] /\ event \in BOOLEAN
    BY DEF Init
  <2>. QED  BY <1>1, <2>1, <2>2, <2>3, <2>4, <2>5 DEF PlanTypeOK
<1>3. RunsAreStarted
  BY <1>1 DEF Init, RunsAreStarted
<1>4. PointersAreSound
  BY DEF Init, PointersAreSound, Completed
<1>5. NewestAreNamed /\ LeasesAreOver /\ LineageAges
  BY <1>1 DEF NewestAreNamed, LeasesAreOver, LineageAges
<1>6. PackagesHoldOutputs
  BY DEF Init, PackagesHoldOutputs
<1>7. ASSUME NEW w \in Workers PROVE MemoryIsSound(w)
  <2>1. worker[w] = Idle
    BY DEF Init
  <2>2. /\ Idle.task = "none" /\ Idle.at = "idle"
        /\ \A s \in Steps : Idle.found[s].status = "none" /\ Idle.branch[s].at = "over"
    BY DEF Idle, NoResult, Over
  <2>. QED
    BY <2>1, <2>2 DEF MemoryIsSound, PhaseIsSound, ResultsAreSound, WavesAreOrdered, IsOpen, Found,
       FoundFits, Phases
<1>. QED  BY <1>2, <1>3, <1>4, <1>5, <1>6, <1>7 DEF PlanInv

LEMMA PlanStutters ==
    ASSUME PlanInv, UNCHANGED vars
    PROVE  PlanInv'
<1>1. \A v \in Workers : MemoryIsSound(v)'
  BY RunsAreKept, MemoryStays DEF vars, PlanInv
<1>2. PlanTypeOK' /\ RunsAreStarted' /\ PackagesHoldOutputs'
  BY DEF vars, PlanInv, PlanTypeOK, RunsAreStarted, PackagesHoldOutputs, IsRun, IsCompleted
<1>. QED
  BY <1>1, <1>2, SameRows, PlainRowsKeepTables DEF vars, PlanInv

LEMMA PlanStep == PlanInv /\ [Next]_vars => PlanInv'
<1>. SUFFICES ASSUME PlanInv, [Next]_vars PROVE PlanInv'
  OBVIOUS
<1>1. ASSUME NEW s \in Steps, RequestRerun(s) PROVE PlanInv'
  BY <1>1, RequestRerunKeeps
<1>2. ASSUME NEW r \in DOMAIN runs, CancelRun(r) \/ Lapse(r) \/ Scan(r) PROVE PlanInv'
  BY <1>2, CancelAndScanKeep
<1>3. ASSUME NEW w \in Workers, Crash(w) PROVE PlanInv'
  BY <1>3, CrashLeaves, LeavesInv
<1>4. ASSUME NEW k \in Kinds, LoseTask(k) PROVE PlanInv'
  BY <1>4, LoseTaskKeeps
<1>5. CASE Dispatch
  BY <1>5, DispatchKeeps
<1>6. ASSUME NEW w \in Workers, Work(w) PROVE PlanInv'
  BY <1>6, WorkLeaves, LeavesInv
<1>7. ASSUME NEW w \in Workers, NEW k \in Kinds, Take(w, k) PROVE PlanInv'
  BY <1>7, TakeLeaves, LeavesInv
<1>8. CASE UNCHANGED vars
  BY <1>8, PlanStutters
<1>. QED
  BY <1>1, <1>2, <1>3, <1>4, <1>5, <1>6, <1>7, <1>8 DEF Next, Outside

\* What the rows and the memory of the workers say of the runs, always.
THEOREM PlanInvariant == Spec => []PlanInv
  BY PlanInit, PlanStep, PTL DEF Spec

\* The columns and the memory keep their types, for every plan and any number of
\* workers.
THEOREM PlanTypeCorrect == Spec => []PlanTypeOK
<1>1. PlanInv => PlanTypeOK
  BY DEF PlanInv
<1>. QED  BY <1>1, PlanInvariant, PTL

\* However many workers, recoveries and reruns work on a plan, and however often
\* they crash: the valid run of a step is the last of its runs that completed.
THEOREM ValidRunIsLatest == Spec => []ValidRunIsLatestCompleted
<1>1. PlanInv => ValidRunIsLatestCompleted
  BY DEF PlanInv, PointersAreSound, NewestAreNamed, IsCompleted, IsRun, ValidRunIsLatestCompleted
<1>. QED  BY <1>1, PlanInvariant, PTL

-----------------------------------------------------------------------------
(* One worker: the outputs of a package fit together *)

\* No step but the success of a step changes what is valid.
ValidKept == \A s \in Steps : step'[s].valid = step[s].valid

LEMMA WhatIsHeldStays ==
    ASSUME PlanInv, RunsKept, ValidKept, NEW w \in Workers, worker[w].task \in Steps,
           worker'[w].task = worker[w].task, worker'[w].found = worker[w].found
    PROVE  /\ DepsGood(w, worker[w].task) => DepsGood(w, worker[w].task)'
           /\ ReadsValid(w) => ReadsValid(w)'
           /\ HasValid(w) => HasValid(w)'
           /\ FoundFits(w) => FoundFits(w)'
<1>1. \A s \in Steps : Found(w, s) => IsCompleted(worker[w].found[s].run, s)
  BY DEF PlanInv, MemoryIsSound, ResultsAreSound
<1>2. \A s \in Steps : DependsOn[s] \subseteq Steps
  BY Bounds
<1>3. \A s \in Steps : Found(w, s) =>
         runs'[worker[w].found[s].run].input = runs[worker[w].found[s].run].input
  BY <1>1, RunsStay
<1>4. DepsGood(w, worker[w].task) => DepsGood(w, worker[w].task)'
  BY DEF DepsGood
<1>5. ReadsValid(w) => ReadsValid(w)'
  BY <1>2, <1>4 DEF ReadsValid, ValidKept
<1>6. HasValid(w) => HasValid(w)'
  BY <1>2, <1>3 DEF HasValid, ValidKept, Found
<1>7. FoundFits(w) => FoundFits(w)'
  BY <1>3 DEF FoundFits, Found
<1>. QED  BY <1>4, <1>5, <1>6, <1>7

\* A step of others, or of nobody.
LEMMA CurrentStays ==
    ASSUME PlanInv, RunsKept, ValidKept, NEW w \in Workers, RerunIsCurrent(w),
           worker'[w] = worker[w]
    PROVE  RerunIsCurrent(w)'
<1>1. CASE worker[w].task \in Steps
  BY <1>1, WhatIsHeldStays DEF RerunIsCurrent, IsOpen
<1>2. CASE worker[w].task \notin Steps
  BY <1>2 DEF RerunIsCurrent
<1>. QED  BY <1>1, <1>2

LEMMA PackagesStayConsistent ==
    ASSUME PlanInv, RunsKept, PackageIsConsistent, packages' = packages
    PROVE  PackageIsConsistent'
<1>1. ASSUME NEW p \in packages, NEW s \in Steps, NEW d \in DependsOn[s],
             p.inputs[s] # 0, p.inputs[d] # 0
      PROVE  runs'[p.inputs[s]].input[d] = p.inputs[d]
  <2>1. IsCompleted(p.inputs[s], s)
    BY <1>1 DEF PlanInv, PackagesHoldOutputs
  <2>2. runs[p.inputs[s]].input[d] = p.inputs[d]
    BY <1>1 DEF PackageIsConsistent
  <2>. QED  BY <2>1, <2>2, RunsStay
<1>. QED  BY <1>1 DEF PackageIsConsistent

LEMMA IdleIsCurrent ==
    ASSUME NEW w \in Workers, worker'[w].task \notin Steps
    PROVE  RerunIsCurrent(w)'
  BY DEF RerunIsCurrent

\* Whoever reruns no step is not made to by a step of his task.
LEMMA NoRerunBegins ==
    ASSUME PlanTypeOK, NEW w \in Workers, worker[w].task \notin Steps, Work(w)
    PROVE  worker'[w].task \notin Steps
<1>. DEFINE t == worker[w].task
            goal == worker'[w].task \notin Steps
<1>1. worker \in [Workers -> Worker] /\ worker[w] \in Worker
  BY DEF PlanTypeOK
<1>2. Idle.task \notin Steps
  BY StepsAreSteps DEF Idle
<1>3. EndTask(w) => goal
  BY <1>1, <1>2 DEF EndTask
<1>4. ASSUME NEW at, GoTo(w, at) PROVE goal
  BY <1>1, <1>4 DEF GoTo, Worker
<1>5. CASE PreparePlanning(w)
  BY <1>1, <1>5 DEF PreparePlanning, Worker
<1>6. CASE Replay(w) \/ Raise(w) \/ StoreSynthesis(w)
  BY <1>3, <1>6 DEF Replay, Raise, StoreSynthesis
<1>7. CASE BeginRecovery(w)
  BY <1>1, <1>4, <1>7 DEF BeginRecovery, Worker
<1>8. CASE ClaimRun(w)
  BY <1>1, <1>8 DEF ClaimRun, Worker
<1>9. CASE AcceptPlanning(w)
  BY <1>1, <1>9 DEF AcceptPlanning, Idle
<1>10. ASSUME NEW retryable \in BOOLEAN, FailPhase(w, retryable) PROVE goal
  BY <1>3, <1>10 DEF FailPhase
<1>11. CASE Normalize(w) \/ Invalidate(w)
  BY <1>4, <1>11 DEF Normalize, Invalidate
<1>12. CASE ListForRecovery(w)
  BY <1>1, <1>2, <1>12 DEF ListForRecovery, Worker
<1>13. CASE ListForRerun(w) \/ ReadForRerun(w) \/ EndRerunStep(w)
  BY <1>13 DEF ListForRerun, ReadForRerun, EndRerunStep
<1>14. ASSUME NEW s \in Steps, NEW synthesis, AddStepRun(w, s, synthesis) PROVE goal
  BY <1>1, <1>14 DEF AddStepRun, Worker
<1>15. CASE Reserve(w)
  BY <1>1, <1>15 DEF Reserve, AddStepRun, Worker
<1>16. ASSUME NEW s \in Steps, SkipStep(w, s) \/ StartStep(w, s) \/ ClaimStep(w, s) \/ StoreStep(w, s)
       PROVE  goal
  <2>1. CASE SkipStep(w, s)
    BY <1>1, <2>1 DEF SkipStep, Worker
  <2>2. CASE StartStep(w, s)
    BY <1>14, <2>2 DEF StartStep
  <2>3. CASE ClaimStep(w, s)
    BY <1>1, <2>3 DEF ClaimStep, Worker
  <2>4. CASE StoreStep(w, s)
    BY <1>1, <2>4 DEF StoreStep, EndBranch, Worker
  <2>. QED  BY <1>16, <2>1, <2>2, <2>3, <2>4
<1>17. ASSUME NEW s \in Steps, NEW retryable \in BOOLEAN, FailStep(w, s, retryable) PROVE goal
  BY <1>1, <1>17 DEF FailStep, EndBranch, Worker
<1>18. CASE EndWaves(w)
  BY <1>3, <1>4, <1>18 DEF EndWaves
<1>19. CASE StartSynthesis(w)
  BY <1>1, <1>19 DEF StartSynthesis, Worker
<1>. QED
  BY <1>5, <1>6, <1>7, <1>8, <1>9, <1>10, <1>11, <1>12, <1>13, <1>15, <1>16, <1>17, <1>18, <1>19
  DEF Work, Waves

\* Steps of a rerun that keep its task and its results, and what is valid.
LEMMA GoingOnIsCurrent ==
    ASSUME PlanInv, RunsKept, ValidKept, NEW w \in Workers, worker[w].task \in Steps,
           RerunIsCurrent(w),
           worker'[w].task = worker[w].task, worker'[w].found = worker[w].found,
           \/ /\ worker'[w].at = "waves"
              /\ ReadsValid(w) /\ IsOpen(w, worker[w].task)'
           \/ /\ worker[w].at \in {"waves", "invalidate"} /\ ~IsOpen(w, worker[w].task)
              /\ worker'[w].at \in {"invalidate", "list"} /\ ~IsOpen(w, worker[w].task)'
           \/ /\ worker[w].at \in {"synthesize", "claim"}
              /\ worker'[w].at \in {"claim", "synthesis"} /\ ~IsOpen(w, worker[w].task)'
    PROVE  RerunIsCurrent(w)'
<1>1. CASE worker'[w].at = "waves" /\ ReadsValid(w) /\ IsOpen(w, worker[w].task)'
  BY <1>1, WhatIsHeldStays DEF RerunIsCurrent
<1>2. CASE /\ worker[w].at \in {"waves", "invalidate"} /\ ~IsOpen(w, worker[w].task)
           /\ worker'[w].at \in {"invalidate", "list"} /\ ~IsOpen(w, worker[w].task)'
  <2>1. HasValid(w)
    BY <1>2 DEF RerunIsCurrent
  <2>. QED  BY <1>2, <2>1, WhatIsHeldStays DEF RerunIsCurrent
<1>3. CASE /\ worker[w].at \in {"synthesize", "claim"}
           /\ worker'[w].at \in {"claim", "synthesis"} /\ ~IsOpen(w, worker[w].task)'
  <2>1. FoundFits(w)
    BY <1>3 DEF RerunIsCurrent
  <2>. QED  BY <1>3, <2>1, WhatIsHeldStays DEF RerunIsCurrent
<1>. QED  BY <1>1, <1>2, <1>3

LEMMA RerunClaims ==
    ASSUME PlanInv, RunsKept, NEW w \in Workers, worker[w].task \in Steps, RerunIsCurrent(w),
           ClaimRun(w) \/ StartSynthesis(w)
    PROVE  RerunIsCurrent(w)'
<1>1. PlanTypeOK /\ worker \in [Workers -> Worker] /\ worker[w] \in Worker
  BY DEF PlanInv, PlanTypeOK
<1>2. /\ worker'[w].task = worker[w].task /\ worker'[w].found = worker[w].found
      /\ worker'[w].branch = worker[w].branch
  BY <1>1 DEF ClaimRun, StartSynthesis, Worker
<1>3. worker[w].at \in {"synthesize", "claim"} /\ worker'[w].at \in {"claim", "synthesis"}
  <2>1. CASE ClaimRun(w)
    <3>1. runs[worker[w].run].role = "synthesis"
      BY <2>1 DEF PlanInv, MemoryIsSound, PhaseIsSound, ClaimRun
    <3>. QED  BY <1>1, <2>1, <3>1 DEF ClaimRun, Worker
  <2>2. CASE StartSynthesis(w)
    BY <1>1, <2>2 DEF StartSynthesis, Worker
  <2>. QED  BY <2>1, <2>2
<1>4. ~IsOpen(w, worker[w].task)'
  BY <1>2, <1>3, WavesOnly DEF IsOpen
<1>5. ValidKept
  BY DEF ValidKept, ClaimRun, StartSynthesis
<1>. QED  BY <1>2, <1>3, <1>4, <1>5, GoingOnIsCurrent

LEMMA RerunInvalidates ==
    ASSUME PlanInv, RunsKept, NEW w \in Workers, worker[w].task \in Steps, RerunIsCurrent(w),
           Invalidate(w) \/ EndRerunStep(w)
    PROVE  RerunIsCurrent(w)'
<1>1. PlanTypeOK /\ worker \in [Workers -> Worker] /\ worker[w] \in Worker
  BY DEF PlanInv, PlanTypeOK
<1>2. ValidKept
  <2>1. CASE Invalidate(w)
    BY <1>1, <2>1, RowShape DEF ValidKept, Invalidate, Step
  <2>2. CASE EndRerunStep(w)
    BY <2>2 DEF ValidKept, EndRerunStep
  <2>. QED  BY <2>1, <2>2
<1>3. ~IsOpen(w, worker[w].task)
  BY WavesOnly DEF IsOpen, Invalidate, EndRerunStep
<1>4. ASSUME NEW at \in {"invalidate", "list"}, GoTo(w, at)
      PROVE  /\ worker'[w].task = worker[w].task /\ worker'[w].found = worker[w].found
             /\ worker'[w].at = at /\ worker'[w].branch = worker[w].branch
  BY <1>1, <1>4 DEF GoTo, Worker
<1>5. ASSUME NEW at \in {"invalidate", "list"}, GoTo(w, at),
             worker[w].at \in {"waves", "invalidate"}
      PROVE  RerunIsCurrent(w)'
  <2>1. ~IsOpen(w, worker[w].task)'
    BY <1>3, <1>4, <1>5 DEF IsOpen
  <2>. QED  BY <1>2, <1>3, <1>4, <1>5, <2>1, GoingOnIsCurrent
<1>6. CASE EndTask(w)
  BY <1>1, <1>6, StepsAreSteps, IdleIsCurrent DEF EndTask, Idle
<1>. QED  BY <1>5, <1>6 DEF Invalidate, EndRerunStep, WavesOver

LEMMA RerunBegins ==
    ASSUME PlanInv, NEW w \in Workers, worker[w].task \in Steps, ReadForRerun(w)
    PROVE  RerunIsCurrent(w)'
<1>. DEFINE t == worker[w].task
            found == [d \in Steps |-> Listed(d)]
            m == [worker[w] EXCEPT !.at = "reserve", !.run = step[t].latest, !.found = found]
<1>1. PlanTypeOK /\ worker \in [Workers -> Worker] /\ worker[w] \in Worker
  BY DEF PlanInv, PlanTypeOK
<1>2. CASE worker' = [worker EXCEPT ![w] = Idle]
  BY <1>1, <1>2, StepsAreSteps, IdleIsCurrent DEF Idle
<1>3. CASE /\ \A d \in DependsOn[t] : Listed(d).status = "COMPLETED"
           /\ worker' = [worker EXCEPT ![w] = m]
  <2>1. /\ worker'[w].at = "reserve" /\ worker'[w].task = t
        /\ worker'[w].found = found /\ worker'[w].branch = worker[w].branch
    BY <1>1, <1>3 DEF Worker
  <2>2. \A d \in DependsOn[t] : found[d].status = "COMPLETED"
    BY <1>3, Bounds
  <2>3. worker[w].branch[t].at = "over"
    BY WavesOnly DEF ReadForRerun
  <2>. QED  BY <2>1, <2>2, <2>3 DEF RerunIsCurrent, DepsGood, IsOpen
<1>. QED
  <2>1. \/ worker' = [worker EXCEPT ![w] = Idle]
        \/ /\ \A d \in DependsOn[t] : Listed(d).status = "COMPLETED"
           /\ worker' = [worker EXCEPT ![w] = m]
    BY DEF ReadForRerun
  <2>. QED  BY <1>2, <1>3, <2>1

\* The run is reserved on what is valid, and what is valid stays.
LEMMA RerunStarts ==
    ASSUME PlanInv, RunsKept, NEW w \in Workers, worker[w].task \in Steps, RerunIsCurrent(w),
           Reserve(w) \/ (\E s \in Steps : StartStep(w, s))
    PROVE  RerunIsCurrent(w)'
<1>. DEFINE t == worker[w].task
<1>1. PlanTypeOK /\ worker \in [Workers -> Worker] /\ worker[w] \in Worker
  BY DEF PlanInv, PlanTypeOK
<1>2. /\ ReadsValid(w)
      /\ \E synthesis : AddStepRun(w, t, synthesis)
  <2>1. CASE Reserve(w)
    BY <2>1 DEF Reserve, MayReserve, ReadsValid, RerunIsCurrent
  <2>2. ASSUME NEW s \in Steps, StartStep(w, s)
        PROVE  ReadsValid(w) /\ \E synthesis : AddStepRun(w, t, synthesis)
    <3>1. IsOpen(w, s)
      BY <2>2 DEF StartStep, IsOpen
    <3>2. s = t
      BY <3>1 DEF PlanInv, MemoryIsSound, WavesAreOrdered
    <3>. QED  BY <2>2, <3>1, <3>2 DEF RerunIsCurrent, StartStep
  <2>. QED  BY <2>1, <2>2
<1>3. PICK synthesis : AddStepRun(w, t, synthesis)
  BY <1>2
<1>. DEFINE b == [at |-> "claim", run |-> Len(runs) + 1, number |-> 0]
<1>4. worker' = [worker EXCEPT ![w].at = "waves", ![w].branch[t] = b]
  BY <1>3 DEF AddStepRun
<1>. HIDE DEF b
<1>5. /\ worker'[w].task = worker[w].task /\ worker'[w].found = worker[w].found
      /\ worker'[w].at = "waves" /\ worker'[w].branch[t] = b
  BY <1>1, <1>4, WorkerShape DEF Worker
<1>6. ValidKept
  BY <1>1, <1>3, RowShape DEF ValidKept, AddStepRun, PlanTypeOK, Step
<1>7. IsOpen(w, worker[w].task)'
  BY <1>5 DEF IsOpen, b
<1>. QED  BY <1>2, <1>5, <1>6, <1>7, GoingOnIsCurrent

LEMMA RerunClaimsStep ==
    ASSUME PlanInv, RunsKept, NEW w \in Workers, worker[w].task \in Steps, RerunIsCurrent(w),
           NEW s \in Steps, ClaimStep(w, s)
    PROVE  RerunIsCurrent(w)'
<1>. DEFINE t == worker[w].task
<1>1. PlanTypeOK /\ worker \in [Workers -> Worker] /\ worker[w] \in Worker
  BY DEF PlanInv, PlanTypeOK
<1>2. IsOpen(w, s) /\ s = t
  BY DEF PlanInv, MemoryIsSound, WavesAreOrdered, ClaimStep, IsOpen
<1>3. ReadsValid(w) /\ worker[w].at = "waves"
  BY <1>2 DEF RerunIsCurrent, ClaimStep, InTurn
<1>. DEFINE n == runs[worker[w].branch[s].run].number
<1>4. worker' = [worker EXCEPT ![w].branch[s] = [@ EXCEPT !.at = "run", !.number = n]]
  BY DEF ClaimStep
<1>. HIDE DEF n
<1>5. /\ worker'[w].task = worker[w].task /\ worker'[w].found = worker[w].found
      /\ worker'[w].at = worker[w].at /\ worker'[w].branch[s].at = "run"
  BY <1>1, <1>4, WorkerShape DEF Worker, Branch
<1>6. ValidKept
  BY DEF ValidKept, ClaimStep
<1>7. IsOpen(w, worker[w].task)'
  BY <1>2, <1>5 DEF IsOpen
<1>. QED  BY <1>3, <1>5, <1>6, <1>7, GoingOnIsCurrent

\* A branch of a rerun has ended: with an output, or without.
LEMMA RerunEndsStep ==
    ASSUME PlanInv, RunsKept, NEW w \in Workers, worker[w].task \in Steps, RerunIsCurrent(w),
           NEW s \in Steps, IsOpen(w, s), NEW m, NEW result, BranchIsOver(w, s, m, result),
           result.status = "COMPLETED" =>
              /\ step'[s].valid = result.run
              /\ \A d \in DependsOn[s] :
                    /\ runs'[result.run].input[d] = worker[w].found[d].run
                    /\ step'[d].valid = step[d].valid
    PROVE  RerunIsCurrent(w)'
<1>1. worker'[w] = m
  BY OneHolds DEF PlanInv, BranchIsOver
<1>2. s = worker[w].task /\ worker[w].at = "waves"
  BY DEF PlanInv, MemoryIsSound, WavesAreOrdered
<1>3. ReadsValid(w)
  BY <1>2 DEF RerunIsCurrent
<1>4. /\ m.task = s /\ m.at = "waves" /\ m.branch[s].at = "over" /\ m.found[s] = result
      /\ \A d \in DependsOn[s] : m.found[d] = worker[w].found[d]
  BY <1>2, Bounds, NoSelf DEF BranchIsOver, Over
<1>5. HasValid(w)'
  <2>1. ASSUME result.status = "COMPLETED"
        PROVE  /\ result.run = step'[s].valid
               /\ \A d \in DependsOn[s] : runs'[result.run].input[d] = step'[d].valid
    BY <1>2, <1>3, <2>1 DEF ReadsValid
  <2>. QED  BY <1>1, <1>4, <2>1 DEF HasValid, Found
<1>. QED  BY <1>1, <1>4, <1>5 DEF RerunIsCurrent, IsOpen

LEMMA RerunStores ==
    ASSUME PlanInv, RunsKept, NEW w \in Workers, worker[w].task \in Steps, RerunIsCurrent(w),
           NEW s \in Steps, StoreStep(w, s)
    PROVE  RerunIsCurrent(w)'
<1>1. PlanTypeOK
  BY DEF PlanInv
<1>2. PICK r \in RunIds : worker[w].branch[s].run = r
  BY <1>1, WorkerShape
<1>. DEFINE result == [status |-> "COMPLETED", run |-> r]
<1>3. r \in DOMAIN runs /\ IsOpen(w, s)
  BY <1>2, BranchRuns DEF StoreStep
<1>4. PICK m : BranchIsOver(w, s, m, result)
  <2>1. result \in Result
    BY DEF Result, StepStatus
  <2>. QED  BY <1>1, <1>2, <2>1, BranchEnds DEF StoreStep, EndBranch
<1>5. step'[s].valid = r /\ \A d \in DependsOn[s] : step'[d].valid = step[d].valid
  BY <1>1, <1>2, Bounds, NoSelf, RowShape DEF StoreStep, PlanTypeOK, Step
<1>6. runs'[r].input = DepsIn(w, s)
  <2>1. runs[r] \in Run
    BY <1>1, <1>3, RunsShape
  <2>2. runs' = [runs EXCEPT ![r] = [Ended(@, "COMPLETED") EXCEPT !.input = DepsIn(w, s)]]
    BY <1>2 DEF StoreStep
  <2>. QED  BY <1>3, <2>1, <2>2 DEF Ended, Run
<1>7. \A d \in DependsOn[s] : runs'[r].input[d] = worker[w].found[d].run
  BY <1>1, <1>6, DepsInTyped
<1>. QED  BY <1>3, <1>4, <1>5, <1>7, RerunEndsStep

LEMMA RerunFails ==
    ASSUME PlanInv, RunsKept, NEW w \in Workers, worker[w].task \in Steps, RerunIsCurrent(w),
           NEW s \in Steps, NEW retryable \in BOOLEAN, FailStep(w, s, retryable)
    PROVE  RerunIsCurrent(w)'
<1>1. PlanTypeOK /\ IsOpen(w, s)
  BY DEF PlanInv, FailStep, IsOpen
<1>2. PICK r \in RunIds : worker[w].branch[s].run = r
  BY <1>1, WorkerShape
<1>3. PICK status \in {"RUNNING", "FAILED"} :
         status = IF WillRetry(r, retryable) THEN "RUNNING" ELSE "FAILED"
  OBVIOUS
<1>. DEFINE result == [status |-> status, run |-> r]
<1>4. result \in Result /\ result.status # "COMPLETED"
  BY DEF Result, StepStatus
<1>5. PICK m : BranchIsOver(w, s, m, result)
  BY <1>1, <1>2, <1>3, <1>4, BranchEnds DEF FailStep, EndBranch
<1>. QED  BY <1>1, <1>4, <1>5, RerunEndsStep

\* The output of the rerun and what it reads of the others fit together.
LEMMA RerunLists ==
    ASSUME PlanInv, NEW w \in Workers, worker[w].task \in Steps, RerunIsCurrent(w),
           ListForRerun(w)
    PROVE  RerunIsCurrent(w)'
<1>. DEFINE t == worker[w].task
            results == [s \in Steps |-> IF s = t THEN worker[w].found[s] ELSE Listed(s)]
            m == [Idle EXCEPT !.task = t, !.at = "synthesize", !.found = results]
<1>1. PlanTypeOK /\ worker \in [Workers -> Worker] /\ worker[w] \in Worker
  BY DEF PlanInv, PlanTypeOK
<1>2. CASE worker' = [worker EXCEPT ![w] = Idle]
  BY <1>1, <1>2, StepsAreSteps, IdleIsCurrent DEF Idle
<1>3. CASE worker' = [worker EXCEPT ![w] = m]
  <2>1. HasValid(w)
    BY WavesOnly DEF RerunIsCurrent, ListForRerun, IsOpen
  <2>2. ASSUME NEW s \in Steps, NEW d \in DependsOn[s],
               results[s].status = "COMPLETED", results[d].status = "COMPLETED"
        PROVE  runs[results[s].run].input[d] = results[d].run
    <3>1. d \in Steps /\ d # s
      BY Bounds, NoSelf
    <3>2. results[d].run = step[d].valid
      BY <2>1, <2>2, <3>1, ListedIsSound DEF HasValid, Found
    <3>3. runs[results[s].run].input[d] = step[d].valid
      BY <2>1, <2>2, <3>1, ListedIsSound DEF HasValid, Found
    <3>. QED  BY <3>2, <3>3
  <2>. HIDE DEF results
  <2>3. /\ worker'[w].task = t /\ worker'[w].at = "synthesize" /\ worker'[w].found = results
        /\ worker'[w].branch[t].at = "over" /\ runs' = runs
    <3>1. /\ m.task = t /\ m.at = "synthesize" /\ m.found = results
          /\ \A s \in Steps : m.branch[s].at = "over"
      BY DEF Idle, Over
    <3>2. worker'[w] = m
      BY <1>1, <1>3
    <3>. HIDE DEF m
    <3>. QED  BY <3>1, <3>2 DEF ListForRerun
  <2>4. FoundFits(w)'
    BY <2>2, <2>3 DEF FoundFits, Found
  <2>. QED  BY <2>3, <2>4 DEF RerunIsCurrent, IsOpen
<1>. QED
  <2>1. \/ worker' = [worker EXCEPT ![w] = Idle]
        \/ worker' = [worker EXCEPT ![w] = m]
    BY DEF ListForRerun
  <2>. QED  BY <1>2, <1>3, <2>1

LEMMA RerunWorks ==
    ASSUME PlanInv, RunsKept, NEW w \in Workers, worker[w].task \in Steps, RerunIsCurrent(w),
           Work(w)
    PROVE  RerunIsCurrent(w)'
<1>1. ASSUME EndTask(w) PROVE RerunIsCurrent(w)'
  <2>1. worker'[w] = Idle
    BY <1>1 DEF EndTask, PlanInv, PlanTypeOK
  <2>. QED  BY <2>1, StepsAreSteps, IdleIsCurrent DEF Idle
<1>2. CASE PreparePlanning(w) \/ BeginRecovery(w) \/ ListForRecovery(w) \/ EndWaves(w)
  BY <1>2, StepsAreSteps DEF PreparePlanning, BeginRecovery, ListForRecovery, EndWaves
<1>3. CASE AcceptPlanning(w)
  BY <1>3, PhaseRuns DEF AcceptPlanning, Phases
<1>4. CASE Normalize(w)
  BY <1>4 DEF Normalize, RerunIsCurrent
<1>5. CASE Replay(w) \/ Raise(w) \/ StoreSynthesis(w)
  BY <1>1, <1>5 DEF Replay, Raise, StoreSynthesis
<1>6. ASSUME NEW retryable \in BOOLEAN, FailPhase(w, retryable) PROVE RerunIsCurrent(w)'
  BY <1>1, <1>6 DEF FailPhase
<1>7. CASE ClaimRun(w) \/ StartSynthesis(w)
  BY <1>7, RerunClaims
<1>8. CASE Invalidate(w) \/ EndRerunStep(w)
  BY <1>8, RerunInvalidates
<1>9. CASE ListForRerun(w) \/ ReadForRerun(w)
  BY <1>9, RerunLists, RerunBegins
<1>10. CASE Reserve(w)
  BY <1>10, RerunStarts
<1>11. ASSUME NEW s \in Steps, SkipStep(w, s) PROVE FALSE
  <2>1. IsOpen(w, s) /\ ~DepsGood(w, s)
    BY <1>11 DEF SkipStep, IsOpen
  <2>2. s = worker[w].task
    BY <2>1 DEF PlanInv, MemoryIsSound, WavesAreOrdered
  <2>. QED  BY <2>1, <2>2 DEF RerunIsCurrent, ReadsValid
<1>12. ASSUME NEW s \in Steps, StartStep(w, s) \/ ClaimStep(w, s) \/ StoreStep(w, s)
       PROVE  RerunIsCurrent(w)'
  BY <1>12, RerunStarts, RerunClaimsStep, RerunStores
<1>13. ASSUME NEW s \in Steps, NEW retryable \in BOOLEAN, FailStep(w, s, retryable)
       PROVE  RerunIsCurrent(w)'
  BY <1>13, RerunFails
<1>. QED
  BY <1>2, <1>3, <1>4, <1>5, <1>6, <1>7, <1>8, <1>9, <1>10, <1>11, <1>12, <1>13 DEF Work, Waves

\* A step of the only worker keeps what its rerun knows.
LEMMA WorkIsCurrent ==
    ASSUME PlanInv, NEW w \in Workers, RerunIsCurrent(w), Work(w)
    PROVE  RerunIsCurrent(w)'
<1>1. CASE worker[w].task \in Steps
  BY <1>1, WorkLeaves, RerunWorks DEF Leaves
<1>2. CASE worker[w].task \notin Steps
  BY <1>2, NoRerunBegins, IdleIsCurrent DEF PlanInv
<1>. QED  BY <1>1, <1>2

\* What a synthesis has in memory fits, so its package does.
LEMMA PackageFits ==
    ASSUME PlanInv, RunsKept, NEW w \in Workers, RerunIsCurrent(w), PackageIsConsistent,
           StoreSynthesis(w)
    PROVE  PackageIsConsistent'
<1>1. FoundFits(w) /\ ResultsAreSound(w)
  BY DEF PlanInv, MemoryIsSound, WavesAreOrdered, RerunIsCurrent, StoreSynthesis
<1>2. ASSUME NEW s \in Steps, NEW d \in DependsOn[s], Inputs(w)[s] # 0, Inputs(w)[d] # 0
      PROVE  runs'[Inputs(w)[s]].input[d] = Inputs(w)[d]
  <2>1. d \in Steps
    BY Bounds
  <2>2. /\ Found(w, s) /\ Inputs(w)[s] = worker[w].found[s].run
        /\ Found(w, d) /\ Inputs(w)[d] = worker[w].found[d].run
    BY <1>2, <2>1 DEF Inputs, Found
  <2>3. IsCompleted(worker[w].found[s].run, s)
    BY <1>1, <2>2 DEF ResultsAreSound
  <2>. QED  BY <1>1, <2>2, <2>3, RunsStay DEF FoundFits
<1>3. ASSUME NEW p \in packages, NEW s \in Steps, NEW d \in DependsOn[s],
             p.inputs[s] # 0, p.inputs[d] # 0
      PROVE  runs'[p.inputs[s]].input[d] = p.inputs[d]
  <2>1. IsCompleted(p.inputs[s], s)
    BY <1>3 DEF PlanInv, PackagesHoldOutputs
  <2>2. runs[p.inputs[s]].input[d] = p.inputs[d]
    BY <1>3 DEF PackageIsConsistent
  <2>. QED  BY <2>1, <2>2, RunsStay
<1>. QED  BY <1>2, <1>3 DEF PackageIsConsistent, StoreSynthesis

LEMMA OnlyTheSynthesisPacks ==
    ASSUME NEW w \in Workers, Work(w), ~StoreSynthesis(w)
    PROVE  packages' = packages
  BY DEF Work, Waves, PreparePlanning, Replay, BeginRecovery, ClaimRun, AcceptPlanning, FailPhase,
     Normalize, Invalidate, ListForRecovery, ListForRerun, ReadForRerun, Reserve, AddStepRun,
     SkipStep, StartStep, ClaimStep, StoreStep, FailStep, EndWaves, EndRerunStep, StartSynthesis,
     Raise

LEMMA SoloInit ==
    ASSUME Init
    PROVE  SoloInv
<1>1. PlanInv
  BY PlanInit
<1>2. PackageIsConsistent
  BY DEF Init, PackageIsConsistent
<1>3. ASSUME NEW w \in Workers PROVE RerunIsCurrent(w)
  BY StepsAreSteps DEF Init, Idle, RerunIsCurrent
<1>. QED  BY <1>1, <1>2, <1>3 DEF SoloInv

\* Steps of nobody leave what is valid and the memory as they are.
LEMMA NobodyIsSolo ==
    ASSUME SoloInv, PlanInv', UNCHANGED <<worker, packages>>, PlainRows
    PROVE  SoloInv'
<1>1. PlanInv /\ RunsKept /\ ValidKept
  BY PlainRowsKeepRuns DEF SoloInv, PlanInv, PlainRows, StepsKept, ValidKept
<1>2. ASSUME NEW w \in Workers PROVE RerunIsCurrent(w)'
  BY <1>1, <1>2, CurrentStays DEF SoloInv
<1>3. PackageIsConsistent'
  BY <1>1, PackagesStayConsistent DEF SoloInv
<1>. QED  BY <1>2, <1>3 DEF SoloInv

LEMMA OutsideRows ==
    ASSUME PlanInv, NEW r \in DOMAIN runs, CancelRun(r) \/ Lapse(r) \/ Scan(r)
    PROVE  PlainRows /\ UNCHANGED <<worker, packages>>
<1>1. PlanTypeOK
  BY DEF PlanInv
<1>2. StepsKept
  <2>1. CASE step' = step
    BY <2>1 DEF StepsKept
  <2>2. CASE BuryExpired(r) /\ runs[r].role \in Steps
    BY <1>1, <2>2, RowShape DEF BuryExpired, StepsKept, PlanTypeOK, Step
  <2>. QED
    BY <2>1, <2>2 DEF CancelRun, Lapse, Scan, CancelSuperseded, RequeueStale, RequeueExpired,
       BuryExpired
<1>3. runs' = runs \/ Moves(r)
  <2>1. CASE RequeueStale(r)
    BY <2>1 DEF RequeueStale
  <2>2. CASE runs[r].status = "COMPLETED"
    BY <2>1, <2>2 DEF PlanInv, LeasesAreOver, CancelRun, Lapse, Scan, CancelSuperseded,
       RequeueExpired, BuryExpired
  <2>. QED  BY <1>1, <2>1, <2>2, OutsideMoves DEF Scan
<1>4. UNCHANGED <<worker, packages>>
  BY DEF CancelRun, Lapse, Scan, CancelSuperseded, RequeueStale, RequeueExpired, BuryExpired
<1>. QED  BY <1>2, <1>3, <1>4 DEF PlainRows

LEMMA SoloStep ==
    ASSUME SingleWorker, SoloInv, [Next]_vars
    PROVE  SoloInv'
<1>1. PlanInv /\ PlanInv' /\ PlanTypeOK
  BY PlanStep DEF SoloInv, PlanInv
<1>2. ASSUME NEW w \in Workers, Leaves(w), RerunIsCurrent(w)', PackageIsConsistent'
      PROVE  SoloInv'
  <2>1. \A v \in Workers : v = w
    BY DEF SingleWorker
  <2>. QED  BY <1>1, <1>2, <2>1 DEF SoloInv
<1>3. ASSUME NEW w \in Workers, Work(w) PROVE SoloInv'
  <2>1. Leaves(w) /\ RunsKept /\ RerunIsCurrent(w)'
    BY <1>1, <1>3, WorkLeaves, WorkIsCurrent DEF Leaves, SoloInv
  <2>2. PackageIsConsistent'
    <3>1. CASE StoreSynthesis(w)
      BY <1>1, <2>1, <3>1, PackageFits DEF SoloInv
    <3>2. CASE ~StoreSynthesis(w)
      BY <1>1, <1>3, <2>1, <3>2, OnlyTheSynthesisPacks, PackagesStayConsistent DEF SoloInv
    <3>. QED  BY <3>1, <3>2
  <2>. QED  BY <1>2, <2>1, <2>2
<1>4. ASSUME NEW w \in Workers, NEW k \in Kinds, Take(w, k) PROVE SoloInv'
  <2>1. Leaves(w) /\ RunsKept /\ packages' = packages
    BY <1>1, <1>4, TakeLeaves DEF Leaves, Take
  <2>2. worker'[w].at = "begin" /\ worker'[w].branch = Idle.branch
    BY <1>1, <1>4, Blank DEF Take, PlanTypeOK, Worker
  <2>3. RerunIsCurrent(w)'
    BY <2>2 DEF RerunIsCurrent, IsOpen, Idle, Over
  <2>. QED  BY <1>1, <1>2, <2>1, <2>3, PackagesStayConsistent DEF SoloInv
<1>5. ASSUME NEW w \in Workers, Crash(w) PROVE SoloInv'
  <2>1. Leaves(w) /\ RunsKept /\ packages' = packages /\ worker'[w] = Idle
    BY <1>1, <1>5, CrashLeaves DEF Leaves, Crash, EndTask, PlanTypeOK
  <2>2. RerunIsCurrent(w)'
    BY <2>1, StepsAreSteps, IdleIsCurrent DEF Idle
  <2>. QED  BY <1>1, <1>2, <2>1, <2>2, PackagesStayConsistent DEF SoloInv
<1>6. ASSUME NEW r \in DOMAIN runs, CancelRun(r) \/ Lapse(r) \/ Scan(r) PROVE SoloInv'
  BY <1>1, <1>6, OutsideRows, NobodyIsSolo
<1>7. ASSUME NEW s \in Steps, RequestRerun(s) PROVE SoloInv'
  BY <1>1, <1>7, SameRows, NobodyIsSolo DEF RequestRerun
<1>8. ASSUME NEW k \in Kinds, LoseTask(k) PROVE SoloInv'
  BY <1>1, <1>8, SameRows, NobodyIsSolo DEF LoseTask
<1>9. CASE Dispatch
  BY <1>1, <1>9, SameRows, NobodyIsSolo DEF Dispatch
<1>10. CASE UNCHANGED vars
  BY <1>1, <1>10, SameRows, NobodyIsSolo DEF vars
<1>. QED
  BY <1>3, <1>4, <1>5, <1>6, <1>7, <1>8, <1>9, <1>10 DEF Next, Outside

\* One worker, however often it crashes and is given a task again: whatever a
\* review package holds of a step was drawn from the outputs of its dependencies
\* that the package holds beside it.
THEOREM PackagesAreConsistent ==
    ASSUME SingleWorker
    PROVE  Spec => []PackageIsConsistent
<1>1. SoloInv => PackageIsConsistent
  BY DEF SoloInv
<1>2. Init => SoloInv
  BY SoloInit
<1>3. SoloInv /\ [Next]_vars => SoloInv'
  BY SoloStep
<1>. QED  BY <1>1, <1>2, <1>3, PTL DEF Spec
=============================================================================
