------------------------ MODULE MessageAnalysisProofs ------------------------
(***************************************************************************)
(* What the analysis of a message keeps, for every number of workers,      *)
(* tasks, runs, attempts, requests and faults.                             *)
(*                                                                         *)
(* Attempts of a run are used one after the other, and one that is over is *)
(* written by nobody: what a worker writes is guarded by the lease of the  *)
(* attempt it holds.  The status of the message is written with that of    *)
(* the latest run, and no earlier run is active, so whoever writes a run   *)
(* that is active writes the latest.                                       *)
(***************************************************************************)
EXTENDS MessageAnalysis, SequenceTheorems, TLAPS

Busy(w) == worker[w].step # "idle"

\* A worker that is at work holds a task of its own.
WorkersHoldTasks ==
    /\ \A w \in Workers : ~Busy(w) => worker[w] = Idle
    /\ \A w \in Workers : Busy(w) => /\ worker[w].task \in Tasks
                                     /\ task[worker[w].task].stage = "worker"
    /\ \A v, w \in Workers : Busy(v) /\ Busy(w) /\ v # w => worker[v].task # worker[w].task

\* It has the run that it prepared, and the attempt that it started.
WorkersHoldRuns ==
    \A w \in Workers :
        /\ worker[w].step \in {"prepared", "running"} => worker[w].run \in 1..Len(runs)
        /\ worker[w].step = "running" => worker[w].number \in 1..MaxAttempts

\* The attempts behind the current one, and the current one of a queued run, were
\* not started.
Ahead(run) ==
    \A n \in 1..MaxAttempts :
        n > run.number \/ (n = run.number /\ run.status = "QUEUED") => run.attempts[n] = "NONE"

AttemptsAhead == \A r \in 1..Len(runs) : Ahead(runs[r])

AInv ==
    /\ AnalysisTypeOK
    /\ WorkersHoldTasks
    /\ WorkersHoldRuns
    /\ AttemptsAhead
    /\ MessageFollowsRun

-----------------------------------------------------------------------------
\* What a step may make of an attempt, and of a run.
Proceeds(old, new) ==
    \/ new = old
    \/ old = "NONE" /\ new = "RUNNING"
    \/ old = "RUNNING" /\ new \in {"COMPLETED", "FAILED", "LAPSED"}
    \/ old = "LAPSED" /\ new = "EXPIRED"

Moves(old, new) ==
    /\ new \in Run
    /\ Ahead(new)
    /\ \A n \in 1..MaxAttempts : Proceeds(old.attempts[n], new.attempts[n])

LEMMA Bounds ==
    /\ MaxAttempts \in Nat /\ 1 \in 1..MaxAttempts /\ MaxRetries \in Nat /\ MaxRuns \in Nat
    /\ MaxRequests \in Nat /\ MaxFaults \in Nat /\ NoTask \notin Tasks
BY AnalysisAssumption

LEMMA RunIs ==
    ASSUME NEW run \in Run
    PROVE  /\ run.status \in RunStatus /\ run.number \in 1..MaxAttempts /\ run.number \in Nat
           /\ run.attempts \in [1..MaxAttempts -> AttemptStatus]
           /\ \A s \in RunStatus, n \in 1..MaxAttempts, a \in [1..MaxAttempts -> AttemptStatus] :
                  [status |-> s, number |-> n, attempts |-> a] \in Run
BY Bounds DEF Run

\* A run gets a status.
LEMMA StatusMoves ==
    ASSUME NEW run \in Run, Ahead(run), NEW s \in RunStatus \ {"QUEUED"}
    PROVE  /\ Moves(run, [run EXCEPT !.status = s]) /\ [run EXCEPT !.status = s].status = s
           /\ [run EXCEPT !.status = s].number = run.number
           /\ [run EXCEPT !.status = s].attempts = run.attempts
<1> DEFINE new == [run EXCEPT !.status = s]
<1>1. new.status = s /\ new.number = run.number /\ new.attempts = run.attempts /\ new \in Run
  BY DEF Run
<1> HIDE DEF new
<1>2. Ahead(new)
  BY <1>1 DEF Ahead
<1>3. Moves(run, new)
  BY <1>1, <1>2 DEF Moves, Proceeds
<1> QED
  BY <1>1, <1>3 DEF new

\* An attempt of a run is written, and maybe its status.
LEMMA AttemptMoves ==
    ASSUME NEW run \in Run, Ahead(run), NEW n \in 1..MaxAttempts, NEW a \in AttemptStatus,
           NEW s \in RunStatus, Proceeds(run.attempts[n], a), a # "NONE",
           n = run.number => s # "QUEUED", s = "QUEUED" => run.status = "QUEUED",
           n <= run.number
    PROVE  Moves(run, [run EXCEPT !.status = s, !.attempts[n] = a])
<1> DEFINE attempts == [run.attempts EXCEPT ![n] = a]
           new == [run EXCEPT !.status = s, !.attempts[n] = a]
<1>1. run.number \in Nat /\ run.attempts \in [1..MaxAttempts -> AttemptStatus]
  BY RunIs
<1>2. /\ attempts \in [1..MaxAttempts -> AttemptStatus] /\ attempts[n] = a
      /\ \A k \in 1..MaxAttempts \ {n} : attempts[k] = run.attempts[k]
  BY <1>1
<1>3. new.status = s /\ new.number = run.number /\ new.attempts = attempts
  BY DEF Run
<1>4. new = [run EXCEPT !.status = s, !.attempts = attempts]
  OBVIOUS
<1> HIDE DEF attempts
<1>5. new \in Run
  BY <1>2, <1>4 DEF Run
<1> HIDE DEF new
<1>6. Ahead(new)
  BY <1>1, <1>2, <1>3 DEF Ahead
<1>7. Moves(run, new)
  BY <1>1, <1>2, <1>3, <1>5, <1>6 DEF Moves, Proceeds
<1> QED
  BY <1>7 DEF new

LEMMA NextAttemptMoves ==
    ASSUME NEW run \in Run, Ahead(run), run.number < MaxAttempts
    PROVE  /\ Moves(run, NextAttempt(run)) /\ NextAttempt(run).status = "QUEUED"
           /\ NextAttempt(run).attempts = run.attempts
<1> DEFINE new == NextAttempt(run)
<1>1. run.number \in Nat /\ run.number \in 1..MaxAttempts
  BY RunIs
<1>2. new.status = "QUEUED" /\ new.number = run.number + 1 /\ new.attempts = run.attempts
  BY DEF Run, NextAttempt
<1>3. new = [run EXCEPT !.status = "QUEUED", !.number = run.number + 1]
  BY DEF NextAttempt
<1>4. run.number + 1 \in 1..MaxAttempts
  BY <1>1, Bounds
<1>5. new \in Run
  BY <1>3, <1>4 DEF Run, RunStatus
<1> HIDE DEF new
<1>6. Ahead(new)
  BY <1>1, <1>2 DEF Ahead
<1>7. Moves(run, new)
  BY <1>2, <1>5, <1>6 DEF Moves, Proceeds
<1> QED
  BY <1>2, <1>7 DEF new

LEMMA ExpireCurrentMoves ==
    ASSUME NEW run \in Run, Ahead(run), run.status # "QUEUED"
    PROVE  /\ Moves(run, ExpireCurrent(run)) /\ ExpireCurrent(run).status = run.status
           /\ ExpireCurrent(run).number = run.number
<1>1. CASE run.attempts[run.number] = "LAPSED"
  <2> DEFINE n == run.number
             new == [run EXCEPT !.status = run.status, !.attempts[n] = "EXPIRED"]
  <2>1. n \in 1..MaxAttempts /\ n \in Nat /\ run.status \in RunStatus
    BY RunIs
  <2>2. Proceeds(run.attempts[n], "EXPIRED") /\ "EXPIRED" \in AttemptStatus /\ n <= n
    BY <1>1, <2>1 DEF Proceeds, AttemptStatus
  <2>3. Moves(run, new)
    BY <2>1, <2>2, AttemptMoves
  <2>4. new = ExpireCurrent(run)
    BY <1>1 DEF ExpireCurrent, Run
  <2>5. ExpireCurrent(run).status = run.status /\ ExpireCurrent(run).number = run.number
    BY <1>1 DEF ExpireCurrent, Run
  <2> QED
    BY <2>3, <2>4, <2>5
<1>2. CASE run.attempts[run.number] # "LAPSED"
  <2>1. ExpireCurrent(run) = run
    BY <1>2 DEF ExpireCurrent
  <2> QED
    BY <2>1 DEF Moves, Proceeds
<1> QED
  BY <1>1, <1>2

\* First a lapsed attempt expires, then the run alone changes.
LEMMA MovesTwice ==
    ASSUME NEW old, NEW mid, NEW new, Moves(old, mid), Moves(mid, new),
           new.attempts = mid.attempts
    PROVE  Moves(old, new)
BY DEF Moves

-----------------------------------------------------------------------------
\* What a step leaves of the runs: their types, and attempts that proceed.
RunsKept ==
    /\ runs' \in Seq(Run)
    /\ Len(runs) <= Len(runs') /\ Len(runs') <= MaxRuns
    /\ AttemptsAhead'
    /\ \A r \in 1..Len(runs), n \in 1..MaxAttempts :
           Proceeds(runs[r].attempts[n], runs'[r].attempts[n])

LEMMA RunsAre ==
    ASSUME AnalysisTypeOK
    PROVE  /\ runs \in Seq(Run) /\ Len(runs) \in Nat /\ Len(runs) <= MaxRuns
           /\ DOMAIN runs = 1..Len(runs)
           /\ \A r \in 1..Len(runs) : runs[r] \in Run
           /\ runs # <<>> <=> Len(runs) \in 1..Len(runs)
<1>1. runs \in Seq(Run) /\ Len(runs) <= MaxRuns
  BY DEF AnalysisTypeOK
<1>2. /\ Len(runs) \in Nat /\ DOMAIN runs = 1..Len(runs)
      /\ \A r \in 1..Len(runs) : runs[r] \in Run
  BY <1>1, LenProperties, ElementOfSeq
<1>3. runs # <<>> <=> Len(runs) \in 1..Len(runs)
  BY <1>1, <1>2, EmptySeq
<1> QED
  BY <1>1, <1>2, <1>3

LEMMA RunsSame ==
    ASSUME AnalysisTypeOK, AttemptsAhead, UNCHANGED runs
    PROVE  RunsKept
<1>1. Len(runs) <= Len(runs)
  BY RunsAre
<1> QED
  BY <1>1, RunsAre DEF RunsKept, AttemptsAhead, Proceeds, Ahead

LEMMA RunChanged ==
    ASSUME AnalysisTypeOK, AttemptsAhead, NEW r \in 1..Len(runs), NEW new,
           Moves(runs[r], new), runs' = [runs EXCEPT ![r] = new]
    PROVE  /\ RunsKept /\ Len(runs') = Len(runs) /\ runs'[r] = new
           /\ \A q \in 1..Len(runs) \ {r} : runs'[q] = runs[q]
<1>1. runs \in Seq(Run) /\ Len(runs) \in Nat /\ Len(runs) <= MaxRuns
  BY RunsAre
<1>2. new \in Run /\ Ahead(new)
  BY DEF Moves
<1>3. /\ runs' \in Seq(Run) /\ Len(runs') = Len(runs)
      /\ \A q \in 1..Len(runs) : runs'[q] = IF q = r THEN new ELSE runs[q]
  BY <1>1, <1>2, ExceptSeq
<1>4. \A q \in 1..Len(runs') : Ahead(runs'[q])
  BY <1>2, <1>3 DEF AttemptsAhead
<1>5. AttemptsAhead'
  BY <1>4 DEF AttemptsAhead, Ahead
<1>6. \A q \in 1..Len(runs), n \in 1..MaxAttempts :
          Proceeds(runs[q].attempts[n], runs'[q].attempts[n])
  BY <1>3 DEF Moves, Proceeds
<1> QED
  BY <1>1, <1>3, <1>5, <1>6 DEF RunsKept

FreshRun == [status |-> "QUEUED", number |-> 1,
             attempts |-> [n \in 1..MaxAttempts |-> "NONE"]]

LEMMA RunAppended ==
    ASSUME AnalysisTypeOK, AttemptsAhead, Len(runs) < MaxRuns, runs' = Append(runs, FreshRun)
    PROVE  /\ RunsKept /\ Len(runs') = Len(runs) + 1 /\ runs'[Len(runs) + 1] = FreshRun
           /\ \A q \in 1..Len(runs) : runs'[q] = runs[q]
<1>1. runs \in Seq(Run) /\ Len(runs) \in Nat /\ MaxRuns \in Nat
  BY RunsAre, Bounds
<1>2. FreshRun \in Run /\ Ahead(FreshRun)
  BY Bounds DEF FreshRun, Run, Ahead, RunStatus, AttemptStatus
<1>3. /\ runs' \in Seq(Run) /\ Len(runs') = Len(runs) + 1
      /\ \A q \in 1..Len(runs) : runs'[q] = runs[q]
      /\ runs'[Len(runs) + 1] = FreshRun
  BY <1>1, <1>2, AppendProperties
<1>4. \A q \in 1..Len(runs') : Ahead(runs'[q])
  <2> TAKE q \in 1..Len(runs')
  <2>1. q \in 1..Len(runs) \/ q = Len(runs) + 1
    BY <1>1, <1>3
  <2> QED
    BY <1>2, <1>3, <2>1 DEF AttemptsAhead
<1>5. AttemptsAhead'
  BY <1>4 DEF AttemptsAhead, Ahead
<1>6. \A q \in 1..Len(runs), n \in 1..MaxAttempts :
          Proceeds(runs[q].attempts[n], runs'[q].attempts[n])
  BY <1>3 DEF Proceeds
<1> QED
  BY <1>1, <1>3, <1>5, <1>6 DEF RunsKept

-----------------------------------------------------------------------------
\* The status of a message fits that of its latest run.
Fits(status, run) ==
    /\ status = "AGENT_QUEUED" <=> run.status = "QUEUED"
    /\ status = "ANALYSING" <=> run.status = "RUNNING"
    /\ status = "DEAD_LETTER" => run.status = "DEAD_LETTER"

LEMMA ActiveIsLast ==
    ASSUME AnalysisTypeOK, MessageFollowsRun, NEW r \in 1..Len(runs), runs[r].status \in Active
    PROVE  ~message.recalled => r = Len(runs)
BY RunsAre DEF MessageFollowsRun

LEMMA LastFits ==
    ASSUME AnalysisTypeOK, MessageFollowsRun, ~message.recalled
    PROVE  /\ Len(runs) \in 1..Len(runs) => Fits(message.status, runs[Len(runs)])
           /\ message.status \in {"AGENT_QUEUED", "ANALYSING", "DEAD_LETTER"}
                 => Len(runs) \in 1..Len(runs)
           /\ \A q \in 1..Len(runs) : q # Len(runs) => runs[q].status \notin Active
BY RunsAre DEF MessageFollowsRun, Last, Fits

\* Conversely, that is all that there is to it.
LEMMA FollowsWhenFits ==
    ASSUME RunsKept, MaxRuns \in Nat, Len(runs') \in 1..Len(runs'),
           ~message'.recalled => Fits(message'.status, runs'[Len(runs')]),
           ~message'.recalled =>
               \A q \in 1..Len(runs') : q # Len(runs') => runs'[q].status \notin Active
    PROVE  MessageFollowsRun'
<1>1. runs' \in Seq(Run) /\ DOMAIN runs' = 1..Len(runs') /\ runs' # <<>>
  BY LenProperties, EmptySeq DEF RunsKept
<1> QED
  BY <1>1 DEF MessageFollowsRun, Last, Fits, Active

\* The latest run changes and the message with it.
LEMMA LatestChanged ==
    ASSUME AnalysisTypeOK, AttemptsAhead, MessageFollowsRun, NEW r \in 1..Len(runs), NEW new,
           Moves(runs[r], new), runs' = [runs EXCEPT ![r] = new],
           ~message'.recalled => ~message.recalled /\ r = Len(runs) /\ Fits(message'.status, new)
    PROVE  RunsKept /\ MessageFollowsRun'
<1>1. /\ RunsKept /\ Len(runs') = Len(runs) /\ runs'[r] = new
      /\ \A q \in 1..Len(runs) \ {r} : runs'[q] = runs[q]
  BY RunChanged
<1>2. Len(runs) \in Nat /\ MaxRuns \in Nat
  BY RunsAre, Bounds
<1>4. Len(runs) \in 1..Len(runs)
  BY <1>2
<1>3. ASSUME ~message'.recalled
      PROVE  /\ Fits(message'.status, runs'[Len(runs')])
             /\ \A q \in 1..Len(runs') : q # Len(runs') => runs'[q].status \notin Active
  BY <1>1, <1>3, LastFits
<1> QED
  BY <1>1, <1>2, <1>3, <1>4, FollowsWhenFits

\* Some run changes, and neither its status nor the message.
LEMMA StatusesSame ==
    ASSUME AnalysisTypeOK, MessageFollowsRun, RunsKept, Len(runs') = Len(runs),
           \A q \in 1..Len(runs) : runs'[q].status = runs[q].status,
           ~message'.recalled =>
               /\ ~message.recalled
               /\ \/ message'.status = message.status
                  \/ /\ message.status \notin {"AGENT_QUEUED", "ANALYSING"}
                     /\ message'.status \notin {"AGENT_QUEUED", "ANALYSING", "DEAD_LETTER"}
    PROVE  MessageFollowsRun'
<1>1. Len(runs) \in Nat /\ MaxRuns \in Nat
  BY RunsAre, Bounds
<1>2. CASE Len(runs) \in 1..Len(runs)
  <2>1. ASSUME ~message'.recalled
        PROVE  /\ Fits(message'.status, runs'[Len(runs')])
               /\ \A q \in 1..Len(runs') : q # Len(runs') => runs'[q].status \notin Active
    BY <1>2, <2>1, LastFits DEF Fits
  <2> QED
    BY <1>1, <1>2, <2>1, FollowsWhenFits
<1>3. CASE Len(runs) \notin 1..Len(runs)
  <2>1. runs' \in Seq(Run) /\ runs' = <<>> /\ DOMAIN runs' = {}
    <3>1. Len(runs') = 0
      BY <1>1, <1>3
    <3>2. runs' \in Seq(Run)
      BY DEF RunsKept
    <3> QED
      BY <3>1, <3>2, EmptySeq, LenProperties
  <2>2. ~message'.recalled => message'.status \notin {"AGENT_QUEUED", "ANALYSING", "DEAD_LETTER"}
    BY <1>3, LastFits
  <2> QED
    BY <2>1, <2>2 DEF MessageFollowsRun
<1> QED
  BY <1>2, <1>3

-----------------------------------------------------------------------------
\* What a step leaves of the tasks and the workers.
WorkKept ==
    /\ task' \in [Tasks -> Task \cup {FreeSlot}]
    /\ worker' \in [Workers -> Worker]
    /\ WorkersHoldTasks'
    /\ WorkersHoldRuns'

LEMMA WorkersAre ==
    ASSUME AnalysisTypeOK, WorkersHoldTasks, NEW w \in Workers
    PROVE  /\ task \in [Tasks -> Task \cup {FreeSlot}] /\ worker \in [Workers -> Worker]
           /\ worker[w].run \in 0..MaxRuns /\ worker[w].number \in 0..MaxAttempts
           /\ worker[w] # Idle <=> Busy(w)
           /\ Busy(w) => worker[w].task \in Tasks /\ task[worker[w].task].stage = "worker"
                         /\ task[worker[w].task] \in Task
BY DEF AnalysisTypeOK, WorkersHoldTasks, Worker, Busy, Idle, FreeSlot

LEMMA IdleIsWorker == Idle \in Worker /\ Idle.step = "idle"
BY Bounds DEF Idle, Worker

LEMMA FreeIsNoTask == FreeSlot.stage = "free" /\ \A x \in Task : x.stage # "free"
BY DEF FreeSlot, Task

LEMMA WorkSame ==
    ASSUME AnalysisTypeOK, WorkersHoldTasks, WorkersHoldRuns, RunsKept, UNCHANGED <<task, worker>>
    PROVE  WorkKept
<1>1. /\ task \in [Tasks -> Task \cup {FreeSlot}] /\ worker \in [Workers -> Worker]
      /\ Len(runs) \in Nat
  BY RunsAre DEF AnalysisTypeOK
<1>2. Len(runs') \in Nat /\ 1..Len(runs) \subseteq 1..Len(runs')
  BY <1>1, LenProperties DEF RunsKept
<1> QED
  BY <1>1, <1>2 DEF WorkKept, WorkersHoldTasks, WorkersHoldRuns, Busy

\* A slot whose task no worker is at is written.
LEMMA SlotWritten ==
    ASSUME AnalysisTypeOK, WorkersHoldTasks, WorkersHoldRuns, RunsKept, UNCHANGED worker,
           NEW t \in Tasks, task[t].stage # "worker", NEW x \in Task \cup {FreeSlot},
           task' = [task EXCEPT ![t] = x]
    PROVE  WorkKept
<1>1. /\ task \in [Tasks -> Task \cup {FreeSlot}] /\ worker \in [Workers -> Worker]
      /\ Len(runs) \in Nat
  BY RunsAre DEF AnalysisTypeOK
<1>2. Len(runs') \in Nat /\ 1..Len(runs) \subseteq 1..Len(runs')
  BY <1>1, LenProperties DEF RunsKept
<1>3. /\ task' \in [Tasks -> Task \cup {FreeSlot}]
      /\ \A s \in Tasks \ {t} : task'[s] = task[s]
  BY <1>1
<1> QED
  BY <1>1, <1>2, <1>3 DEF WorkKept, WorkersHoldTasks, WorkersHoldRuns, Busy

\* Worker w gets to another step of its task.
LEMMA WorkerSteps ==
    ASSUME AnalysisTypeOK, WorkersHoldTasks, WorkersHoldRuns, RunsKept, UNCHANGED task,
           NEW w \in Workers, Busy(w), NEW new \in Worker, new.step # "idle",
           new.task = worker[w].task, new.run \in 1..Len(runs'),
           new.step = "running" => new.number \in 1..MaxAttempts,
           worker' = [worker EXCEPT ![w] = new]
    PROVE  WorkKept
<1>1. /\ task \in [Tasks -> Task \cup {FreeSlot}] /\ worker \in [Workers -> Worker]
      /\ Len(runs) \in Nat
  BY RunsAre DEF AnalysisTypeOK
<1>2. Len(runs') \in Nat /\ 1..Len(runs) \subseteq 1..Len(runs')
  BY <1>1, LenProperties DEF RunsKept
<1>3. /\ worker' \in [Workers -> Worker] /\ worker'[w] = new
      /\ \A v \in Workers \ {w} : worker'[v] = worker[v]
  BY <1>1
<1>4. WorkersHoldTasks'
  BY <1>3 DEF WorkersHoldTasks, Busy
<1>5. WorkersHoldRuns'
  BY <1>2, <1>3 DEF WorkersHoldRuns
<1> QED
  BY <1>1, <1>3, <1>4, <1>5 DEF WorkKept

\* Worker w leaves its task, and x is in the slot of it.
LEMMA WorkerLeaves ==
    ASSUME AnalysisTypeOK, WorkersHoldTasks, WorkersHoldRuns, RunsKept,
           NEW w \in Workers, Busy(w), NEW x \in Task \cup {FreeSlot},
           worker' = [worker EXCEPT ![w] = Idle],
           task' = [task EXCEPT ![worker[w].task] = x]
    PROVE  WorkKept
<1>1. /\ task \in [Tasks -> Task \cup {FreeSlot}] /\ worker \in [Workers -> Worker]
      /\ Len(runs) \in Nat
  BY RunsAre DEF AnalysisTypeOK
<1>2. Len(runs') \in Nat /\ 1..Len(runs) \subseteq 1..Len(runs')
  BY <1>1, LenProperties DEF RunsKept
<1>3. /\ worker' \in [Workers -> Worker] /\ worker'[w] = Idle
      /\ \A v \in Workers \ {w} : worker'[v] = worker[v]
  BY <1>1, IdleIsWorker
<1>4. /\ task' \in [Tasks -> Task \cup {FreeSlot}]
      /\ \A s \in Tasks : s # worker[w].task => task'[s] = task[s]
  BY <1>1
<1>5. WorkersHoldTasks'
  BY <1>3, <1>4, IdleIsWorker DEF WorkersHoldTasks, Busy
<1>6. WorkersHoldRuns'
  BY <1>2, <1>3, IdleIsWorker DEF WorkersHoldRuns
<1> QED
  BY <1>3, <1>4, <1>5, <1>6 DEF WorkKept

\* An idle worker w takes the task in slot t.
LEMMA WorkerTakes ==
    ASSUME AnalysisTypeOK, WorkersHoldTasks, WorkersHoldRuns, RunsKept,
           NEW w \in Workers, NEW t \in Tasks, Take(w, t)
    PROVE  WorkKept
<1> DEFINE x == [task[t] EXCEPT !.stage = "worker"]
           new == [Idle EXCEPT !.step = "taken", !.task = t]
<1>1. /\ task \in [Tasks -> Task \cup {FreeSlot}] /\ worker \in [Workers -> Worker]
      /\ Len(runs) \in Nat
  BY RunsAre DEF AnalysisTypeOK
<1>2. Len(runs') \in Nat /\ 1..Len(runs) \subseteq 1..Len(runs')
  BY <1>1, LenProperties DEF RunsKept
<1>3. x \in Task /\ x.stage = "worker"
  BY <1>1, FreeIsNoTask DEF Take, Task
<1>4. new \in Worker /\ new.step = "taken" /\ new.task = t
  BY IdleIsWorker DEF Worker
<1>5. task' = [task EXCEPT ![t] = x] /\ worker' = [worker EXCEPT ![w] = new]
  BY DEF Take
<1>6. worker[w] = Idle /\ task[t].stage = "broker"
  BY DEF Take
<1> HIDE DEF x, new
<1>7. /\ worker' \in [Workers -> Worker] /\ worker'[w] = new
      /\ \A v \in Workers \ {w} : worker'[v] = worker[v]
  BY <1>1, <1>4, <1>5
<1>8. /\ task' \in [Tasks -> Task \cup {FreeSlot}] /\ task'[t] = x
      /\ \A s \in Tasks \ {t} : task'[s] = task[s]
  BY <1>1, <1>3, <1>5
<1>9. WorkersHoldTasks'
  BY <1>3, <1>4, <1>6, <1>7, <1>8, IdleIsWorker DEF WorkersHoldTasks, Busy
<1>10. WorkersHoldRuns'
  BY <1>2, <1>4, <1>7 DEF WorkersHoldRuns
<1> QED
  BY <1>7, <1>8, <1>9, <1>10 DEF WorkKept

LEMMA EventIsTask ==
    ASSUME NEW force \in BOOLEAN, NEW override \in BOOLEAN, NEW recover \in BOOLEAN
    PROVE  NewEvent(force, override, recover) \in Task
<1>1. 0 \in 0..MaxRetries
  BY Bounds
<1> QED
  BY <1>1 DEF NewEvent, Task

LEMMA EventAdded ==
    ASSUME AnalysisTypeOK, WorkersHoldTasks, WorkersHoldRuns, RunsKept, UNCHANGED worker,
           NEW event \in Task, AddEvent(event)
    PROVE  WorkKept
<1>1. PICK t \in Tasks : task[t] = FreeSlot /\ task' = [task EXCEPT ![t] = event]
  BY DEF AddEvent
<1>2. task[t].stage # "worker"
  BY <1>1 DEF FreeSlot
<1> QED
  BY <1>1, <1>2, SlotWritten

LEMMA TaskEnds ==
    ASSUME AnalysisTypeOK, WorkersHoldTasks, WorkersHoldRuns, RunsKept,
           NEW w \in Workers, Busy(w), EndTask(w)
    PROVE  WorkKept
<1>1. /\ worker' = [worker EXCEPT ![w] = Idle]
      /\ task' = [task EXCEPT ![worker[w].task] = FreeSlot]
  BY DEF EndTask
<1> QED
  BY <1>1, WorkerLeaves

LEMMA TaskRetried ==
    ASSUME AnalysisTypeOK, WorkersHoldTasks, WorkersHoldRuns, RunsKept,
           NEW w \in Workers, Busy(w), RetryTask(w)
    PROVE  WorkKept
<1> DEFINE old == task[worker[w].task]
           x == TryAgain(old)
<1>1. old \in Task /\ worker[w].task \in Tasks /\ task \in [Tasks -> Task \cup {FreeSlot}]
  BY WorkersAre
<1>2. worker' = [worker EXCEPT ![w] = Idle] /\ task' = [task EXCEPT ![worker[w].task] = x]
  BY <1>1 DEF RetryTask
<1>3. x \in Task \cup {FreeSlot}
  <2>1. CASE old.retries < MaxRetries
    <3>1. old.retries \in 0..MaxRetries
      BY <1>1 DEF Task
    <3>2. old.retries + 1 \in 0..MaxRetries
      BY <2>1, <3>1, Bounds
    <3>3. [old EXCEPT !.stage = "broker", !.retries = old.retries + 1, !.recover = TRUE] \in Task
      BY <1>1, <3>2 DEF Task
    <3> QED
      BY <2>1, <3>3 DEF TryAgain
  <2>2. CASE ~(old.retries < MaxRetries)
    BY <2>2 DEF TryAgain
  <2> QED
    BY <2>1, <2>2
<1> HIDE DEF x
<1> QED
  BY <1>2, <1>3, WorkerLeaves

LEMMA RunPrepared ==
    ASSUME AnalysisTypeOK, WorkersHoldTasks, WorkersHoldRuns, RunsKept,
           NEW w \in Workers, Busy(w), NEW r \in 1..Len(runs'), Prepared(w, r)
    PROVE  WorkKept
<1> DEFINE old == worker[w]
           new == [old EXCEPT !.step = "prepared", !.run = r]
<1>1. old \in Worker /\ worker \in [Workers -> Worker]
  BY DEF AnalysisTypeOK
<1>2. r \in 0..MaxRuns
  <2>1. Len(runs') \in Nat /\ MaxRuns \in Nat /\ Len(runs') <= MaxRuns
    BY Bounds, LenProperties DEF RunsKept
  <2> QED
    BY <2>1
<1>3. new \in Worker /\ new.step = "prepared" /\ new.task = old.task /\ new.run = r
  BY <1>1, <1>2 DEF Worker
<1>4. worker' = [worker EXCEPT ![w] = new] /\ UNCHANGED task
  BY <1>1 DEF Prepared
<1> HIDE DEF new
<1> QED
  BY <1>3, <1>4, WorkerSteps

-----------------------------------------------------------------------------
Kept == AInv' /\ RunsKept

LEMMA KeptTogether ==
    ASSUME RunsKept, WorkKept, MessageFollowsRun', message' \in Message, candidate' \in Candidate,
           used' \in [requests : 0..MaxRequests, faults : 0..MaxFaults]
    PROVE  Kept
BY DEF Kept, AInv, AnalysisTypeOK, RunsKept, WorkKept

\* A step that leaves the runs alone, and the message unless it was not analysed.
LEMMA OnlyWork ==
    ASSUME AInv, UNCHANGED runs, WorkKept, message' \in Message, candidate' \in Candidate,
           used' \in [requests : 0..MaxRequests, faults : 0..MaxFaults],
           ~message'.recalled =>
               /\ ~message.recalled
               /\ \/ message'.status = message.status
                  \/ /\ message.status \notin {"AGENT_QUEUED", "ANALYSING"}
                     /\ message'.status \notin {"AGENT_QUEUED", "ANALYSING", "DEAD_LETTER"}
    PROVE  Kept
<1>1. RunsKept
  BY RunsSame DEF AInv
<1>2. MessageFollowsRun'
  BY <1>1, StatusesSame DEF AInv
<1> QED
  BY <1>1, <1>2, KeptTogether

LEMMA Types ==
    ASSUME AInv
    PROVE  /\ message \in Message /\ candidate \in Candidate
           /\ used \in [requests : 0..MaxRequests, faults : 0..MaxFaults]
           /\ \A s \in MessageStatus : /\ [message EXCEPT !.status = s] \in Message
                                       /\ [message EXCEPT !.status = s].status = s
                                       /\ [message EXCEPT !.status = s].recalled = message.recalled
           /\ [message EXCEPT !.recalled = TRUE] \in Message
           /\ [message EXCEPT !.recalled = TRUE].recalled
BY DEF AInv, AnalysisTypeOK, Message

LEMMA RequestCounted ==
    ASSUME AInv, RequestBudget
    PROVE  used' \in [requests : 0..MaxRequests, faults : 0..MaxFaults]
<1>1. used.requests + 1 \in 0..MaxRequests
  BY Types, Bounds DEF RequestBudget
<1> QED
  BY <1>1, Types DEF RequestBudget

LEMMA FaultCounted ==
    ASSUME AInv, FaultBudget
    PROVE  used' \in [requests : 0..MaxRequests, faults : 0..MaxFaults]
<1>1. used.faults + 1 \in 0..MaxFaults
  BY Types, Bounds DEF FaultBudget
<1> QED
  BY <1>1, Types DEF FaultBudget

-----------------------------------------------------------------------------
LEMMA GateRequestKeeps ==
    ASSUME AInv, NEW edited \in BOOLEAN, GateRequest(edited)
    PROVE  Kept
<1> DEFINE event == NewEvent(edited \/ message.status # "RECEIVED", FALSE, FALSE)
<1>1. AddEvent(event) /\ UNCHANGED <<message, runs, candidate, worker>> /\ RequestBudget
  BY DEF GateRequest
<1>2. event \in Task
  BY EventIsTask
<1> HIDE DEF event
<1>3. WorkKept
  BY <1>1, <1>2, EventAdded, RunsSame DEF AInv
<1> QED
  BY <1>1, <1>3, RequestCounted, Types, OnlyWork

LEMMA RecallKeeps ==
    ASSUME AInv, RecallMessage
    PROVE  Kept
<1>1. /\ message' = [message EXCEPT !.recalled = TRUE]
      /\ UNCHANGED runs /\ UNCHANGED candidate /\ UNCHANGED <<task, worker>> /\ UNCHANGED used
  BY DEF RecallMessage
<1>2. WorkKept
  BY <1>1, WorkSame, RunsSame DEF AInv
<1>3. message' \in Message /\ message'.recalled
  BY <1>1, Types
<1> QED
  BY <1>1, <1>2, <1>3, Types, OnlyWork

LEMMA RequestAnalysisKeeps ==
    ASSUME AInv, NEW force \in BOOLEAN, NEW override \in BOOLEAN, RequestAnalysis(force, override)
    PROVE  Kept
<1>1. /\ message' = [message EXCEPT !.status = "QUEUED_FOR_ANALYSIS"]
      /\ message.status \notin {"AGENT_QUEUED", "ANALYSING"}
      /\ AddEvent(NewEvent(force, override, FALSE)) /\ RequestBudget
      /\ UNCHANGED runs /\ UNCHANGED candidate /\ UNCHANGED worker
  BY DEF RequestAnalysis, Analysed
<1>2. WorkKept
  BY <1>1, EventIsTask, EventAdded, RunsSame DEF AInv
<1>3. /\ message' \in Message /\ message'.recalled = message.recalled
      /\ message'.status = "QUEUED_FOR_ANALYSIS"
  BY <1>1, Types DEF MessageStatus
<1> QED
  BY <1>1, <1>2, <1>3, RequestCounted, Types, OnlyWork

LEMMA CandidateResolvedKeeps ==
    ASSUME AInv, ConfirmCandidate \/ DismissCandidate
    PROVE  Kept
<1>1. UNCHANGED message /\ UNCHANGED runs /\ UNCHANGED <<task, worker>> /\ UNCHANGED used
  BY DEF ConfirmCandidate, DismissCandidate
<1>2. candidate' \in Candidate
  BY Types, Bounds DEF ConfirmCandidate, DismissCandidate, Candidate, NoCandidate
<1>3. WorkKept
  BY <1>1, WorkSame, RunsSame DEF AInv
<1> QED
  BY <1>1, <1>2, <1>3, Types, OnlyWork

\* A run that is active is cancelled, and a message in analysis has failed.
LEMMA Cancelled ==
    ASSUME AInv, NEW r \in 1..Len(runs), runs[r].status \in Active,
           runs' = [runs EXCEPT ![r].status = "CANCELLED"],
           message' = IF message.status \in InAnalysis
                      THEN [message EXCEPT !.status = "ANALYSIS_FAILED"] ELSE message
    PROVE  RunsKept /\ MessageFollowsRun' /\ message' \in Message
<1> DEFINE new == [runs[r] EXCEPT !.status = "CANCELLED"]
<1>1. runs[r] \in Run /\ Ahead(runs[r])
  BY RunsAre DEF AInv, AttemptsAhead
<1>2. Moves(runs[r], new) /\ new.status = "CANCELLED"
  BY <1>1, StatusMoves DEF RunStatus
<1>3. runs' = [runs EXCEPT ![r] = new]
  BY RunsAre DEF AInv
<1>4. message' \in Message /\ message'.recalled = message.recalled
  BY Types DEF MessageStatus
<1> HIDE DEF new
<1>5. ASSUME ~message'.recalled PROVE r = Len(runs) /\ Fits(message'.status, new)
  <2>1. r = Len(runs) /\ Fits(message.status, runs[r])
    BY <1>4, <1>5, ActiveIsLast, LastFits DEF AInv
  <2>2. message.status \in InAnalysis
    BY <2>1 DEF Fits, Active, InAnalysis
  <2>3. message'.status = "ANALYSIS_FAILED"
    BY <2>2, Types DEF MessageStatus
  <2> QED
    BY <1>2, <2>1, <2>3 DEF Fits
<1> QED
  BY <1>2, <1>3, <1>4, <1>5, LatestChanged DEF AInv

LEMMA CancelAgentRunKeeps ==
    ASSUME AInv, NEW r \in DOMAIN runs, CancelAgentRun(r)
    PROVE  Kept
<1>1. /\ runs[r].status \in Active
      /\ runs' = [runs EXCEPT ![r].status = "CANCELLED"]
      /\ message' = IF message.status \in InAnalysis
                    THEN [message EXCEPT !.status = "ANALYSIS_FAILED"] ELSE message
      /\ UNCHANGED candidate /\ UNCHANGED <<task, worker>> /\ FaultBudget
  BY DEF CancelAgentRun
<1>2. r \in 1..Len(runs)
  BY RunsAre DEF AInv
<1>3. RunsKept /\ MessageFollowsRun' /\ message' \in Message
  BY <1>1, <1>2, Cancelled
<1>4. WorkKept
  BY <1>1, <1>3, WorkSame DEF AInv
<1> QED
  BY <1>1, <1>3, <1>4, FaultCounted, Types, KeptTogether

-----------------------------------------------------------------------------
LEMMA StagedIsTask ==
    ASSUME AInv, NEW t \in Tasks, task[t] # FreeSlot
    PROVE  [task[t] EXCEPT !.stage = "broker"] \in Task
<1>1. task[t] \in Task
  BY DEF AInv, AnalysisTypeOK
<1> QED
  BY <1>1 DEF Task

LEMMA DispatchKeeps ==
    ASSUME AInv, NEW t \in Tasks, Dispatch(t)
    PROVE  Kept
<1>1. /\ task[t].stage = "outbox"
      /\ UNCHANGED message /\ UNCHANGED runs /\ UNCHANGED candidate /\ UNCHANGED worker
      /\ UNCHANGED used
  BY DEF Dispatch
<1>2. task[t] # FreeSlot /\ task[t].stage # "worker"
  BY <1>1 DEF FreeSlot
<1> DEFINE x == [task[t] EXCEPT !.stage = "broker"]
<1>3. x \in Task
  BY <1>2, StagedIsTask
<1>4. task' = [task EXCEPT ![t] = x] \/ task' = [task EXCEPT ![t] = FreeSlot]
  BY DEF Dispatch
<1> HIDE DEF x
<1>5. WorkKept
  BY <1>1, <1>2, <1>3, <1>4, SlotWritten, RunsSame DEF AInv
<1> QED
  BY <1>1, <1>5, Types, OnlyWork

LEMMA DispatchTwiceKeeps ==
    ASSUME AInv, NEW t \in Tasks, DispatchTwice(t)
    PROVE  Kept
<1>1. /\ task[t] # FreeSlot
      /\ AddEvent([task[t] EXCEPT !.stage = "broker"]) /\ FaultBudget
      /\ UNCHANGED message /\ UNCHANGED runs /\ UNCHANGED candidate /\ UNCHANGED worker
  BY DEF DispatchTwice, FreeSlot
<1>2. WorkKept
  BY <1>1, StagedIsTask, EventAdded, RunsSame DEF AInv
<1> QED
  BY <1>1, <1>2, FaultCounted, Types, OnlyWork

LEMMA LoseTaskKeeps ==
    ASSUME AInv, NEW t \in Tasks, LoseTask(t)
    PROVE  Kept
<1>1. /\ task[t].stage # "worker" /\ task' = [task EXCEPT ![t] = FreeSlot] /\ FaultBudget
      /\ UNCHANGED message /\ UNCHANGED runs /\ UNCHANGED candidate /\ UNCHANGED worker
  BY DEF LoseTask
<1>2. WorkKept
  BY <1>1, SlotWritten, RunsSame DEF AInv
<1> QED
  BY <1>1, <1>2, FaultCounted, Types, OnlyWork

LEMMA TakeKeeps ==
    ASSUME AInv, NEW w \in Workers, NEW t \in Tasks, Take(w, t)
    PROVE  Kept
<1>1. UNCHANGED message /\ UNCHANGED runs /\ UNCHANGED candidate /\ UNCHANGED used
  BY DEF Take
<1>2. WorkKept
  BY <1>1, WorkerTakes, RunsSame DEF AInv
<1> QED
  BY <1>1, <1>2, Types, OnlyWork

LEMMA CrashKeeps ==
    ASSUME AInv, NEW w \in Workers, Crash(w)
    PROVE  Kept
<1> DEFINE old == task[worker[w].task]
           x == [old EXCEPT !.stage = "broker", !.recover = TRUE]
<1>1. /\ worker[w] # Idle /\ worker' = [worker EXCEPT ![w] = Idle] /\ FaultBudget
      /\ UNCHANGED message /\ UNCHANGED runs /\ UNCHANGED candidate
  BY DEF Crash
<1>2. Busy(w) /\ old \in Task /\ worker[w].task \in Tasks
      /\ task \in [Tasks -> Task \cup {FreeSlot}]
  BY <1>1, WorkersAre DEF AInv
<1>3. task' = [task EXCEPT ![worker[w].task] = x]
  BY <1>2 DEF Crash
<1>4. x \in Task
  BY <1>2 DEF Task
<1> HIDE DEF x
<1>5. WorkKept
  BY <1>1, <1>2, <1>3, <1>4, WorkerLeaves, RunsSame DEF AInv
<1> QED
  BY <1>1, <1>5, FaultCounted, Types, OnlyWork

\* What a worker raises ends or repeats its task.
LEMMA RaisedKeeps ==
    ASSUME AInv, NEW w \in Workers, Busy(w), RetryTask(w) \/ EndTask(w),
           UNCHANGED <<runs, candidate>>, message' = message, used' = used \/ FaultBudget
    PROVE  Kept
<1>1. UNCHANGED runs /\ UNCHANGED candidate
  OBVIOUS
<1>2. WorkKept
  BY <1>1, TaskRetried, TaskEnds, RunsSame DEF AInv
<1> QED
  BY <1>1, <1>2, FaultCounted, Types, OnlyWork

LEMMA AbortKeeps ==
    ASSUME AInv, NEW w \in Workers, Abort(w)
    PROVE  Kept
<1>1. Busy(w) /\ RetryTask(w) /\ UNCHANGED <<runs, candidate>> /\ message' = message /\ FaultBudget
  BY WorkersAre DEF Abort, AInv
<1> QED
  BY <1>1, RaisedKeeps

-----------------------------------------------------------------------------
LEMMA PreparesBusy ==
    ASSUME NEW w \in Workers, Preparing(w) \/ Admitted(w)
    PROVE  Busy(w)
BY DEF Preparing, Admitted, Busy

LEMMA SuppressKeeps ==
    ASSUME AInv, NEW w \in Workers, Suppress(w)
    PROVE  Kept
<1>1. /\ Busy(w) /\ message.recalled /\ EndTask(w)
      /\ message' = IF message.status \in InAnalysis
                    THEN [message EXCEPT !.status = "ANALYSIS_FAILED"] ELSE message
      /\ UNCHANGED runs /\ UNCHANGED candidate /\ UNCHANGED used
  BY PreparesBusy DEF Suppress, Allowed
<1>2. message' \in Message /\ message'.recalled
  BY <1>1, Types DEF MessageStatus
<1>3. WorkKept
  BY <1>1, TaskEnds, RunsSame DEF AInv
<1> QED
  BY <1>1, <1>2, <1>3, Types, OnlyWork

LEMMA ReplayKeeps ==
    ASSUME AInv, NEW w \in Workers, Replay(w)
    PROVE  Kept
<1>1. /\ Busy(w) /\ EndTask(w) /\ UNCHANGED <<runs, candidate>> /\ message' = message
      /\ used' = used
  BY PreparesBusy DEF Replay
<1> QED
  BY <1>1, RaisedKeeps

LEMMA PrepareRaisesKeeps ==
    ASSUME AInv, NEW w \in Workers, PrepareRaises(w)
    PROVE  Kept
<1>1. /\ Busy(w) /\ RetryTask(w) /\ UNCHANGED <<runs, candidate>> /\ message' = message
      /\ used' = used
  BY PreparesBusy DEF PrepareRaises
<1> QED
  BY <1>1, RaisedKeeps

LEMMA ResumeQueuedKeeps ==
    ASSUME AInv, NEW w \in Workers, ResumeQueued(w)
    PROVE  Kept
<1>1. /\ Busy(w) /\ runs # <<>> /\ Prepared(w, Len(runs))
      /\ UNCHANGED message /\ UNCHANGED runs /\ UNCHANGED candidate /\ UNCHANGED used
  BY PreparesBusy DEF ResumeQueued, Resumes
<1>2. Len(runs) \in 1..Len(runs')
  BY <1>1, RunsAre DEF AInv
<1>3. WorkKept
  BY <1>1, <1>2, RunPrepared, RunsSame DEF AInv
<1> QED
  BY <1>1, <1>3, Types, OnlyWork

\* The latest run is handed on or given up, and the message with it.
LEMMA LatestHandled ==
    ASSUME AInv, NEW w \in Workers, Busy(w), runs # <<>>, NEW new, NEW s \in MessageStatus,
           Moves(Last, new), Fits(s, new),
           runs' = [runs EXCEPT ![Len(runs)] = new],
           message' = [message EXCEPT !.status = s],
           EndTask(w) \/ Prepared(w, Len(runs)), UNCHANGED <<candidate, used>>
    PROVE  Kept
<1>1. Len(runs) \in 1..Len(runs) /\ Last = runs[Len(runs)]
  BY RunsAre DEF AInv, Last
<1>2. message' \in Message /\ message'.status = s /\ message'.recalled = message.recalled
  BY Types
<1>3. RunsKept /\ MessageFollowsRun'
  BY <1>1, <1>2, LatestChanged DEF AInv
<1>4. Len(runs') = Len(runs)
  BY <1>1, RunChanged DEF AInv
<1>5. WorkKept
  BY <1>1, <1>3, <1>4, TaskEnds, RunPrepared DEF AInv
<1> QED
  BY <1>2, <1>3, <1>5, Types, KeptTogether

LEMMA LastIs ==
    ASSUME AInv, runs # <<>>
    PROVE  Last \in Run /\ Ahead(Last) /\ Last = runs[Len(runs)] /\ Len(runs) \in 1..Len(runs)
BY RunsAre DEF AInv, Last, AttemptsAhead

LEMMA DeadLetterInterruptedKeeps ==
    ASSUME AInv, NEW w \in Workers, DeadLetterInterrupted(w)
    PROVE  Kept
<1> DEFINE mid == ExpireCurrent(Last)
           new == [mid EXCEPT !.status = "DEAD_LETTER"]
<1>1. /\ Busy(w) /\ runs # <<>> /\ Last.status = "RUNNING"
      /\ message' = [message EXCEPT !.status = "DEAD_LETTER"] /\ EndTask(w)
      /\ UNCHANGED <<candidate, used>>
  BY PreparesBusy DEF DeadLetterInterrupted, Interrupted, Resumes
<1>2. runs' = [runs EXCEPT ![Len(runs)] = new]
  BY <1>1, LastIs DEF DeadLetterInterrupted
<1>3. Moves(Last, mid) /\ mid \in Run /\ Ahead(mid)
  BY <1>1, LastIs, ExpireCurrentMoves DEF Moves
<1> HIDE DEF mid
<1>4. Moves(mid, new) /\ new.attempts = mid.attempts /\ new.status = "DEAD_LETTER"
  BY <1>3, StatusMoves DEF RunStatus
<1> HIDE DEF new
<1>5. Moves(Last, new)
  BY <1>3, <1>4, MovesTwice
<1>6. Fits("DEAD_LETTER", new) /\ "DEAD_LETTER" \in MessageStatus
  BY <1>4 DEF Fits, MessageStatus
<1> QED
  BY <1>1, <1>2, <1>5, <1>6, LatestHandled

LEMMA RetryInterruptedKeeps ==
    ASSUME AInv, NEW w \in Workers, RetryInterrupted(w)
    PROVE  Kept
<1> DEFINE mid == ExpireCurrent(Last)
           new == NextAttempt(mid)
<1>1. /\ Busy(w) /\ runs # <<>> /\ Last.status = "RUNNING" /\ Last.number < MaxAttempts
      /\ message' = [message EXCEPT !.status = "AGENT_QUEUED"] /\ Prepared(w, Len(runs))
      /\ UNCHANGED <<candidate, used>>
  BY PreparesBusy DEF RetryInterrupted, Interrupted, Resumes
<1>2. runs' = [runs EXCEPT ![Len(runs)] = new]
  BY <1>1, LastIs DEF RetryInterrupted
<1>3. Moves(Last, mid) /\ mid \in Run /\ Ahead(mid) /\ mid.number = Last.number
  BY <1>1, LastIs, ExpireCurrentMoves DEF Moves
<1> HIDE DEF mid
<1>4. Moves(mid, new) /\ new.attempts = mid.attempts /\ new.status = "QUEUED"
  BY <1>1, <1>3, NextAttemptMoves
<1> HIDE DEF new
<1>5. Moves(Last, new)
  BY <1>3, <1>4, MovesTwice
<1>6. Fits("AGENT_QUEUED", new) /\ "AGENT_QUEUED" \in MessageStatus
  BY <1>4 DEF Fits, MessageStatus
<1> QED
  BY <1>1, <1>2, <1>5, <1>6, LatestHandled

LEMMA RetryFailedKeeps ==
    ASSUME AInv, NEW w \in Workers, RetryFailed(w)
    PROVE  Kept
<1> DEFINE new == NextAttempt(Last)
<1>1. /\ Busy(w) /\ runs # <<>> /\ Last.number < MaxAttempts
      /\ message' = [message EXCEPT !.status = "AGENT_QUEUED"] /\ Prepared(w, Len(runs))
      /\ UNCHANGED <<candidate, used>>
  BY PreparesBusy DEF RetryFailed, Retryable, Resumes
<1>2. runs' = [runs EXCEPT ![Len(runs)] = new]
  BY <1>1, LastIs DEF RetryFailed
<1>3. Moves(Last, new) /\ new.status = "QUEUED"
  BY <1>1, LastIs, NextAttemptMoves
<1> HIDE DEF new
<1>4. Fits("AGENT_QUEUED", new) /\ "AGENT_QUEUED" \in MessageStatus
  BY <1>3 DEF Fits, MessageStatus
<1> QED
  BY <1>1, <1>2, <1>3, <1>4, LatestHandled

LEMMA NewRunKeeps ==
    ASSUME AInv, NEW w \in Workers, NewRun(w)
    PROVE  Kept
<1>1. /\ Busy(w) /\ Len(runs) < MaxRuns /\ Queueable
      /\ message' = [message EXCEPT !.status = "AGENT_QUEUED"]
      /\ runs' = Append(runs, FreshRun)
      /\ Prepared(w, Len(runs) + 1)
      /\ UNCHANGED candidate /\ UNCHANGED used
  BY PreparesBusy DEF NewRun, FreshRun
<1>2. /\ RunsKept /\ Len(runs') = Len(runs) + 1 /\ runs'[Len(runs) + 1] = FreshRun
      /\ \A q \in 1..Len(runs) : runs'[q] = runs[q]
  BY <1>1, RunAppended DEF AInv
<1>3. /\ message' \in Message /\ message'.status = "AGENT_QUEUED"
      /\ message'.recalled = message.recalled
  BY <1>1, Types DEF MessageStatus
<1>4. Len(runs) \in Nat /\ MaxRuns \in Nat /\ Len(runs) + 1 \in 1..Len(runs')
  BY <1>2, RunsAre, Bounds DEF AInv
<1>5. ASSUME ~message'.recalled
      PROVE  /\ Fits(message'.status, runs'[Len(runs')])
             /\ \A q \in 1..Len(runs') : q # Len(runs') => runs'[q].status \notin Active
  <2>1. message.status \notin {"AGENT_QUEUED", "ANALYSING"}
    BY <1>1 DEF Queueable, MayMove, MessageMoves, Analysed
  <2>2. \A q \in 1..Len(runs) : runs[q].status \notin Active
    BY <1>3, <1>5, <2>1, LastFits DEF AInv, Fits, Active
  <2>3. \A q \in 1..Len(runs') : q # Len(runs') => q \in 1..Len(runs)
    BY <1>2, <1>4
  <2> QED
    BY <1>2, <1>3, <2>2, <2>3 DEF Fits, FreshRun
<1>6. MessageFollowsRun'
  BY <1>2, <1>4, <1>5, FollowsWhenFits
<1>7. WorkKept
  BY <1>1, <1>2, <1>4, RunPrepared DEF AInv
<1> QED
  BY <1>1, <1>2, <1>3, <1>6, <1>7, Types, KeptTogether

LEMMA PrepareKeeps ==
    ASSUME AInv, NEW w \in Workers, Prepare(w)
    PROVE  Kept
BY SuppressKeeps, ReplayKeeps, ResumeQueuedKeeps, DeadLetterInterruptedKeeps,
   RetryInterruptedKeeps, RetryFailedKeeps, NewRunKeeps, PrepareRaisesKeeps DEF Prepare

-----------------------------------------------------------------------------
\* The run that a worker prepared.
LEMMA RunOfIs ==
    ASSUME AInv, NEW w \in Workers, worker[w].step \in {"prepared", "running"}
    PROVE  /\ Busy(w) /\ worker[w].run \in 1..Len(runs) /\ RunOf(w) = runs[worker[w].run]
           /\ RunOf(w) \in Run /\ Ahead(RunOf(w)) /\ worker[w] \in Worker
           /\ worker[w].step = "running" => worker[w].number \in 1..MaxAttempts
<1>1. worker[w].run \in 1..Len(runs) /\ Busy(w) /\ worker[w] \in Worker
  BY DEF AInv, WorkersHoldRuns, Busy, AnalysisTypeOK
<1> QED
  BY <1>1, RunsAre DEF AInv, WorkersHoldRuns, RunOf, AttemptsAhead

LEMMA StartRunKeeps ==
    ASSUME AInv, NEW w \in Workers, StartRun(w)
    PROVE  Kept
<1> DEFINE r == worker[w].run
           old == RunOf(w)
           n == old.number
           new == [old EXCEPT !.status = "RUNNING", !.attempts[n] = "RUNNING"]
           next == [worker[w] EXCEPT !.step = "running", !.number = n]
<1>1. /\ worker[w].step = "prepared" /\ old.status = "QUEUED"
      /\ message' = [message EXCEPT !.status = "ANALYSING"]
      /\ UNCHANGED candidate /\ UNCHANGED task /\ UNCHANGED used
  BY DEF StartRun
<1>2. /\ Busy(w) /\ r \in 1..Len(runs) /\ old = runs[r] /\ old \in Run /\ Ahead(old)
      /\ worker[w] \in Worker
  BY <1>1, RunOfIs
<1>3. runs' = [runs EXCEPT ![r] = new]
  BY <1>2, RunsAre DEF StartRun, Started, AInv
<1>4. worker' = [worker EXCEPT ![w] = next]
  BY DEF StartRun, AInv, AnalysisTypeOK
<1>5. n \in 1..MaxAttempts /\ n \in Nat /\ old.attempts[n] = "NONE" /\ n <= n
  BY <1>1, <1>2, RunIs DEF Ahead
<1>6. Moves(old, new)
  BY <1>2, <1>5, AttemptMoves DEF Proceeds, RunStatus, AttemptStatus
<1>7. new.status = "RUNNING"
  BY <1>2 DEF Run
<1>8. next \in Worker /\ next.step = "running" /\ next.task = worker[w].task
      /\ next.run = r /\ next.number = n
  <2>1. n \in 0..MaxAttempts
    BY <1>5, Bounds
  <2> HIDE DEF n
  <2> QED
    BY <1>2, <2>1 DEF Worker
<1> HIDE DEF new, next
<1>9. /\ message' \in Message /\ message'.status = "ANALYSING"
      /\ message'.recalled = message.recalled
  BY <1>1, Types DEF MessageStatus
<1>10. ~message'.recalled => ~message.recalled /\ r = Len(runs) /\ Fits(message'.status, new)
  BY <1>1, <1>2, <1>7, <1>9, ActiveIsLast DEF AInv, Active, Fits
<1>11. RunsKept /\ MessageFollowsRun' /\ Len(runs') = Len(runs)
  BY <1>2, <1>3, <1>6, <1>10, LatestChanged, RunChanged DEF AInv
<1>12. WorkKept
  BY <1>1, <1>2, <1>4, <1>5, <1>8, <1>11, WorkerSteps DEF AInv
<1> QED
  BY <1>1, <1>9, <1>11, <1>12, Types, KeptTogether

LEMMA CancelRunKeeps ==
    ASSUME AInv, NEW w \in Workers, CancelRun(w)
    PROVE  Kept
<1> DEFINE r == worker[w].run
<1>1. /\ worker[w].step = "prepared" /\ RunOf(w).status \in Active
      /\ runs' = [runs EXCEPT ![r].status = "CANCELLED"]
      /\ message' = IF message.status \in InAnalysis
                    THEN [message EXCEPT !.status = "ANALYSIS_FAILED"] ELSE message
      /\ EndTask(w) /\ UNCHANGED candidate /\ UNCHANGED used
  BY DEF CancelRun
<1>2. Busy(w) /\ r \in 1..Len(runs) /\ runs[r].status \in Active
  BY <1>1, RunOfIs
<1>3. RunsKept /\ MessageFollowsRun' /\ message' \in Message
  BY <1>1, <1>2, Cancelled
<1>4. WorkKept
  BY <1>1, <1>2, <1>3, TaskEnds DEF AInv
<1> QED
  BY <1>1, <1>3, <1>4, Types, KeptTogether

LEMMA StartRaisesKeeps ==
    ASSUME AInv, NEW w \in Workers, StartRaises(w) \/ PersistRaises(w)
    PROVE  Kept
<1>1. /\ worker[w].step \in {"prepared", "running"} /\ RetryTask(w)
      /\ UNCHANGED <<runs, candidate>> /\ message' = message /\ used' = used
  BY DEF StartRaises, PersistRaises
<1> QED
  BY <1>1, RunOfIs, RaisedKeeps

\* A worker that has the lease ends the run, and the status of the message fits it.
LEMMA ResultKeeps ==
    ASSUME AInv, NEW w \in Workers, worker[w].step = "running", Current(w),
           NEW s \in RunStatus \ {"QUEUED"}, NEW a \in {"COMPLETED", "FAILED"},
           runs' = Ended(w, s, a), message' \in Message, message'.recalled = message.recalled,
           ~message.recalled => Fits(message'.status, [status |-> s]),
           candidate' \in Candidate, UNCHANGED used, RetryTask(w) \/ EndTask(w)
    PROVE  Kept
<1> DEFINE r == worker[w].run
           n == worker[w].number
           old == RunOf(w)
           new == [old EXCEPT !.status = s, !.attempts[n] = a]
<1>1. /\ Busy(w) /\ r \in 1..Len(runs) /\ old = runs[r] /\ old \in Run /\ Ahead(old)
      /\ n \in 1..MaxAttempts
  BY RunOfIs
<1>2. old.attempts[n] = "RUNNING" /\ old.status = "RUNNING"
  BY DEF Current, HoldsLease
<1>3. n <= old.number /\ Proceeds(old.attempts[n], a) /\ a \in AttemptStatus /\ a # "NONE"
  BY <1>1, <1>2, RunIs DEF Ahead, Proceeds, AttemptStatus
<1>4. Moves(old, new)
  BY <1>1, <1>3, AttemptMoves
<1>5. new.status = s
  BY <1>1 DEF Run
<1>6. runs' = [runs EXCEPT ![r] = new]
  BY <1>1, RunsAre DEF Ended, AInv
<1> HIDE DEF new
<1>7. ~message'.recalled => ~message.recalled /\ r = Len(runs) /\ Fits(message'.status, new)
  BY <1>1, <1>2, <1>5, ActiveIsLast DEF AInv, Active, Fits
<1>8. RunsKept /\ MessageFollowsRun'
  BY <1>1, <1>4, <1>6, <1>7, LatestChanged DEF AInv
<1>9. WorkKept
  BY <1>1, <1>8, TaskRetried, TaskEnds DEF AInv
<1> QED
  BY <1>8, <1>9, Types, KeptTogether

LEMMA SucceedKeeps ==
    ASSUME AInv, NEW w \in Workers, NEW relevant \in BOOLEAN, Succeed(w, relevant)
    PROVE  Kept
<1>1. /\ worker[w].step = "running" /\ Current(w)
      /\ message' = [message EXCEPT !.status = Outcome(candidate')]
      /\ runs' = Ended(w, "COMPLETED", "COMPLETED") /\ EndTask(w) /\ UNCHANGED used
      /\ candidate' = IF Allowed(worker[w].task) THEN Verdict(w, relevant) ELSE candidate
  BY DEF Succeed
<1>2. candidate' \in Candidate
  <2>1. worker[w].run \in 0..MaxRuns /\ candidate \in Candidate /\ NoCandidate \in Candidate
    BY WorkersAre, Types, Bounds DEF AInv, Candidate, NoCandidate
  <2>2. Verdict(w, relevant) \in Candidate
    BY <2>1 DEF Verdict, Candidate
  <2> QED
    BY <1>1, <2>1, <2>2
<1>3. Outcome(candidate') \in {"IGNORED", "CANDIDATE_CREATED"}
  BY DEF Outcome
<1>4. /\ message' \in Message /\ message'.recalled = message.recalled
      /\ message'.status \in {"IGNORED", "CANDIDATE_CREATED"}
  BY <1>1, <1>3, Types DEF MessageStatus
<1>5. Fits(message'.status, [status |-> "COMPLETED"])
  BY <1>4 DEF Fits
<1>6. "COMPLETED" \in RunStatus \ {"QUEUED"}
  BY DEF RunStatus
<1> QED
  BY <1>1, <1>2, <1>4, <1>5, <1>6, ResultKeeps

LEMMA FailKeeps ==
    ASSUME AInv, NEW w \in Workers, NEW kind \in {"retryable", "fatal", "cancelled"},
           Fail(w, kind)
    PROVE  Kept
<1> DEFINE dead == kind = "fatal" \/ (kind = "retryable" /\ RunOf(w).number >= MaxAttempts)
           s == CASE dead               -> "DEAD_LETTER"
                  [] kind = "cancelled" -> "CANCELLED"
                  [] OTHER              -> "FAILED"
           m == IF dead THEN "DEAD_LETTER" ELSE "ANALYSIS_FAILED"
<1>1. /\ worker[w].step = "running" /\ Current(w)
      /\ runs' = Ended(w, s, "FAILED")
      /\ message' = [message EXCEPT !.status = m]
      /\ RetryTask(w) \/ EndTask(w)
      /\ UNCHANGED candidate /\ UNCHANGED used
  BY DEF Fail
<1>2. /\ s \in RunStatus \ {"QUEUED"} /\ s # "RUNNING" /\ m \in MessageStatus
      /\ m \notin {"AGENT_QUEUED", "ANALYSING"}
      /\ m = "DEAD_LETTER" => s = "DEAD_LETTER"
  <2>1. CASE dead
    <3>1. s = "DEAD_LETTER" /\ m = "DEAD_LETTER"
      BY <2>1
    <3> QED
      BY <3>1 DEF RunStatus, MessageStatus
  <2>2. CASE ~dead
    <3>1. s \in {"CANCELLED", "FAILED"} /\ m = "ANALYSIS_FAILED"
      BY <2>2
    <3> QED
      BY <3>1 DEF RunStatus, MessageStatus
  <2> QED
    BY <2>1, <2>2
<1> HIDE DEF s, m
<1>3. /\ message' \in Message /\ message'.recalled = message.recalled /\ message'.status = m
  BY <1>1, <1>2, Types
<1>4. Fits(message'.status, [status |-> s])
  BY <1>2, <1>3 DEF Fits
<1> QED
  BY <1>1, <1>2, <1>3, <1>4, Types, ResultKeeps

LEMMA FinishKeeps ==
    ASSUME AInv, NEW w \in Workers, Finish(w)
    PROVE  Kept
<1>1. \/ \E relevant \in BOOLEAN : Succeed(w, relevant)
      \/ \E kind \in {"retryable", "fatal", "cancelled"} : Fail(w, kind)
      \/ PersistRaises(w)
  BY DEF Finish
<1> QED
  BY <1>1, SucceedKeeps, FailKeeps, StartRaisesKeeps

LEMMA LapseKeeps ==
    ASSUME AInv, NEW r \in DOMAIN runs, LeaseLapses(r) \/ WorkerStalls(r)
    PROVE  Kept
<1>1. PICK n \in 1..MaxAttempts : Lapse(r, n) /\ (used' = used \/ FaultBudget)
  BY DEF LeaseLapses, WorkerStalls
<1> DEFINE old == runs[r]
           new == [old EXCEPT !.status = old.status, !.attempts[n] = "LAPSED"]
<1>2. r \in 1..Len(runs) /\ old \in Run /\ Ahead(old) /\ old.attempts[n] = "RUNNING"
  BY <1>1, RunsAre DEF AInv, AttemptsAhead, Lapse
<1>3. /\ n <= old.number /\ Proceeds(old.attempts[n], "LAPSED") /\ "LAPSED" \in AttemptStatus
      /\ n = old.number => old.status # "QUEUED"
  BY <1>2, RunIs DEF Ahead, Proceeds, AttemptStatus
<1>4. old.status \in RunStatus
  BY <1>2, RunIs
<1>5. Moves(old, new)
  BY <1>2, <1>3, <1>4, AttemptMoves
<1>6. new = [old EXCEPT !.attempts[n] = "LAPSED"] /\ new.status = old.status
  BY <1>2 DEF Run
<1>7. runs' = [runs EXCEPT ![r] = [old EXCEPT !.attempts[n] = "LAPSED"]]
  BY <1>1, <1>2, RunsAre DEF Lapse, AInv
<1> HIDE DEF new
<1>8. /\ RunsKept /\ Len(runs') = Len(runs) /\ runs'[r] = new
      /\ \A q \in 1..Len(runs) \ {r} : runs'[q] = runs[q]
  BY <1>2, <1>5, <1>6, <1>7, RunChanged DEF AInv
<1>9. message' = message /\ candidate' = candidate /\ UNCHANGED <<task, worker>>
  BY <1>1 DEF Lapse
<1>10. MessageFollowsRun'
  BY <1>6, <1>8, <1>9, StatusesSame DEF AInv
<1>11. WorkKept
  BY <1>8, <1>9, WorkSame DEF AInv
<1> QED
  BY <1>1, <1>8, <1>9, <1>10, <1>11, FaultCounted, Types, KeptTogether

-----------------------------------------------------------------------------
LEMMA RequeueKeeps ==
    ASSUME AInv, RequeueMissing \/ RequeueStale
    PROVE  Kept
<1>1. /\ AddEvent(RecoveryEvent) /\ UNCHANGED runs /\ UNCHANGED worker
      /\ UNCHANGED message /\ UNCHANGED candidate /\ UNCHANGED used
  BY DEF RequeueMissing, RequeueStale
<1>2. WorkKept
  BY <1>1, EventIsTask, EventAdded, RunsSame DEF AInv, RecoveryEvent
<1> QED
  BY <1>1, <1>2, Types, OnlyWork

LEMMA RecoverLeaseKeeps ==
    ASSUME AInv, NEW r \in DOMAIN runs, RecoverLease(r)
    PROVE  Kept
<1> DEFINE dead == runs[r].number >= MaxAttempts
           s == IF dead THEN "DEAD_LETTER" ELSE "FAILED"
           m == IF dead THEN "DEAD_LETTER" ELSE "ANALYSIS_FAILED"
           mid == ExpireCurrent(runs[r])
           new == [mid EXCEPT !.status = s]
<1>1. /\ runs[r].status = "RUNNING"
      /\ message' = IF message.status \in InAnalysis \cup {"ANALYSIS_FAILED"}
                    THEN [message EXCEPT !.status = m] ELSE message
      /\ UNCHANGED task \/ AddEvent(RecoveryEvent)
      /\ UNCHANGED candidate /\ UNCHANGED worker /\ UNCHANGED used
  BY DEF RecoverLease
<1>2. r \in 1..Len(runs) /\ runs[r] \in Run /\ Ahead(runs[r])
  BY RunsAre DEF AInv, AttemptsAhead
<1>3. runs' = [runs EXCEPT ![r] = new]
  BY <1>2, RunsAre DEF RecoverLease, AInv
<1>4. /\ s \in RunStatus \ {"QUEUED"} /\ s # "RUNNING" /\ m \in MessageStatus
      /\ m \notin {"AGENT_QUEUED", "ANALYSING"}
      /\ m = "DEAD_LETTER" => s = "DEAD_LETTER"
  BY DEF RunStatus, MessageStatus
<1>5. Moves(runs[r], mid) /\ mid \in Run /\ Ahead(mid)
  BY <1>1, <1>2, ExpireCurrentMoves DEF Moves
<1> HIDE DEF mid, s, m
<1>6. Moves(mid, new) /\ new.attempts = mid.attempts /\ new.status = s
  BY <1>4, <1>5, StatusMoves
<1> HIDE DEF new
<1>7. Moves(runs[r], new)
  BY <1>5, <1>6, MovesTwice
<1>8. message' \in Message /\ message'.recalled = message.recalled
  BY <1>1, <1>4, Types
<1>9. ASSUME ~message'.recalled PROVE r = Len(runs) /\ Fits(message'.status, new)
  <2>1. r = Len(runs) /\ Fits(message.status, runs[r])
    BY <1>1, <1>2, <1>8, <1>9, ActiveIsLast, LastFits DEF AInv, Active
  <2>2. message.status \in InAnalysis
    BY <1>1, <2>1 DEF Fits, InAnalysis
  <2>3. message'.status = m
    BY <1>1, <1>4, <2>2, Types
  <2> QED
    BY <1>4, <1>6, <2>1, <2>3 DEF Fits
<1>10. RunsKept /\ MessageFollowsRun'
  BY <1>2, <1>3, <1>7, <1>8, <1>9, LatestChanged DEF AInv
<1>11. WorkKept
  <2>1. RecoveryEvent \in Task
    BY EventIsTask DEF RecoveryEvent
  <2> QED
    BY <1>1, <1>10, <2>1, EventAdded, WorkSame DEF AInv
<1> QED
  BY <1>1, <1>8, <1>10, <1>11, Types, KeptTogether

-----------------------------------------------------------------------------
LEMMA StepKeeps == AInv /\ Next => Kept
<1> SUFFICES ASSUME AInv, Next PROVE Kept
  OBVIOUS
<1>1. CASE Outside
  BY <1>1, GateRequestKeeps, RecallKeeps, RequestAnalysisKeeps, CandidateResolvedKeeps,
     CancelAgentRunKeeps DEF Outside
<1>2. CASE Faults
  BY <1>2, DispatchTwiceKeeps, LoseTaskKeeps, CrashKeeps, AbortKeeps, LapseKeeps DEF Faults
<1>3. CASE \E t \in Tasks : Dispatch(t)
  BY <1>3, DispatchKeeps
<1>4. CASE \E w \in Workers, t \in Tasks : Take(w, t)
  BY <1>4, TakeKeeps
<1>5. CASE \E w \in Workers : Prepare(w) \/ Start(w) \/ Finish(w)
  BY <1>5, PrepareKeeps, StartRunKeeps, CancelRunKeeps, StartRaisesKeeps, FinishKeeps DEF Start
<1>6. CASE \E r \in DOMAIN runs : LeaseLapses(r)
  BY <1>6, LapseKeeps
<1>7. CASE Recover
  BY <1>7, RequeueKeeps, RecoverLeaseKeeps DEF Recover
<1> QED
  BY <1>1, <1>2, <1>3, <1>4, <1>5, <1>6, <1>7 DEF Next

LEMMA InitKeeps == Init => AInv
<1> SUFFICES ASSUME Init PROVE AInv
  OBVIOUS
<1>1. runs = <<>> /\ runs \in Seq(Run) /\ Len(runs) = 0 /\ DOMAIN runs = {}
  BY EmptySeq, LenProperties DEF Init
<1>2. message \in Message /\ message.status = "RECEIVED" /\ candidate \in Candidate
  BY Bounds DEF Init, Message, MessageStatus, Candidate, NoCandidate
<1>3. /\ task \in [Tasks -> Task \cup {FreeSlot}]
      /\ worker \in [Workers -> Worker]
      /\ used \in [requests : 0..MaxRequests, faults : 0..MaxFaults]
  BY Bounds, IdleIsWorker DEF Init
<1>4. AnalysisTypeOK
  BY <1>1, <1>2, <1>3, Bounds DEF AnalysisTypeOK
<1>5. \A w \in Workers : worker[w] = Idle
  BY DEF Init
<1>6. WorkersHoldTasks /\ WorkersHoldRuns
  BY <1>5, IdleIsWorker DEF WorkersHoldTasks, WorkersHoldRuns, Busy
<1>7. AttemptsAhead /\ MessageFollowsRun
  BY <1>1, <1>2 DEF AttemptsAhead, MessageFollowsRun
<1> QED
  BY <1>4, <1>6, <1>7 DEF AInv

LEMMA StutterKeeps == AInv /\ UNCHANGED vars => AInv'
BY DEF AInv, vars, AnalysisTypeOK, WorkersHoldTasks, WorkersHoldRuns, Busy, AttemptsAhead,
       Ahead, MessageFollowsRun, Last

LEMMA Invariance == Spec => []AInv
<1>1. AInv /\ [Next]_vars => AInv'
  BY StepKeeps, StutterKeeps DEF Kept
<1> QED
  BY <1>1, InitKeeps, PTL DEF Spec

\* The columns of the message, its runs, the candidate and the tasks keep their types.
THEOREM AnalysisTypeCorrect == Spec => []AnalysisTypeOK
<1>1. AInv => AnalysisTypeOK
  BY DEF AInv
<1> QED
  BY <1>1, Invariance, PTL

\* What a message shows is what its latest run is at, and only that one is active,
\* whichever of the workers, the operator and the recovery wrote last.
THEOREM StatusIsOfTheLatestRun == Spec => []MessageFollowsRun
<1>1. AInv => MessageFollowsRun
  BY DEF AInv
<1> QED
  BY <1>1, Invariance, PTL

\* A worker that lost its lease stores nothing in its attempt, nor does anybody in
\* one that is over.
THEOREM StaleWorkersStoreNothing == Spec => StaleAttemptStoresNothing
<1> DEFINE Stays ==
        \A r \in DOMAIN runs, n \in 1..MaxAttempts :
            LET old == runs[r].attempts[n]
                new == runs'[r].attempts[n] IN
            /\ old \in {"COMPLETED", "FAILED", "EXPIRED"} => new = old
            /\ old = "LAPSED" => new \in {"LAPSED", "EXPIRED"}
<1>1. AInv /\ Next => Stays
  <2> SUFFICES ASSUME AInv, Next PROVE Stays
    OBVIOUS
  <2>1. /\ DOMAIN runs = 1..Len(runs)
        /\ \A r \in 1..Len(runs), n \in 1..MaxAttempts :
               Proceeds(runs[r].attempts[n], runs'[r].attempts[n])
    BY StepKeeps, RunsAre DEF AInv, Kept, RunsKept
  <2> QED
    BY <2>1 DEF Proceeds
<1>2. AInv /\ [Next]_vars => [Stays]_vars
  BY <1>1
<1> QED
  BY <1>2, Invariance, PTL DEF Spec, StaleAttemptStoresNothing

LEMMA CandidateSame ==
    ASSUME AInv, Next, candidate' # candidate
    PROVE  \/ candidate'.run = candidate.run \/ candidate' = NoCandidate
           \/ \E w \in Workers, relevant \in BOOLEAN : Succeed(w, relevant)
<1>1. CASE Outside
  BY <1>1, Types DEF Outside, GateRequest, RecallMessage, RequestAnalysis, ConfirmCandidate,
     DismissCandidate, CancelAgentRun, Candidate
<1>2. CASE Faults
  BY <1>2 DEF Faults, DispatchTwice, LoseTask, Crash, Abort, WorkerStalls, Lapse
<1>3. CASE \E t \in Tasks : Dispatch(t)
  BY <1>3 DEF Dispatch
<1>4. CASE \E w \in Workers, t \in Tasks : Take(w, t)
  BY <1>4 DEF Take
<1>5. CASE \E w \in Workers : Prepare(w)
  BY <1>5 DEF Prepare, Suppress, Replay, ResumeQueued, DeadLetterInterrupted, RetryInterrupted,
     RetryFailed, NewRun, PrepareRaises
<1>6. CASE \E w \in Workers : Start(w)
  BY <1>6 DEF Start, StartRun, CancelRun, StartRaises
<1>7. CASE \E w \in Workers : Finish(w)
  BY <1>7 DEF Finish, Fail, PersistRaises
<1>8. CASE \E r \in DOMAIN runs : LeaseLapses(r)
  BY <1>8 DEF LeaseLapses, Lapse
<1>9. CASE Recover
  BY <1>9 DEF Recover, RequeueMissing, RequeueStale, RecoverLease
<1> QED
  BY <1>1, <1>2, <1>3, <1>4, <1>5, <1>6, <1>7, <1>8, <1>9 DEF Next

\* A result that arrives after the recall of its message does not put a candidate on
\* the user's list, unless the user asked for the analysis of the recalled message.
THEOREM RecallIsRespected == Spec => NoCandidateAfterRecall
<1> DEFINE Respected ==
        message.recalled /\ candidate'.run # candidate.run /\ candidate' # NoCandidate =>
            \E w \in Workers :
                /\ worker[w].step = "running"
                /\ worker[w].run = candidate'.run
                /\ task[worker[w].task].override
<1>1. AInv /\ Next => Respected
  <2> SUFFICES ASSUME AInv, Next, message.recalled, candidate'.run # candidate.run,
                      candidate' # NoCandidate
               PROVE  \E w \in Workers : /\ worker[w].step = "running"
                                         /\ worker[w].run = candidate'.run
                                         /\ task[worker[w].task].override
    OBVIOUS
  <2>1. PICK w \in Workers, relevant \in BOOLEAN : Succeed(w, relevant)
    BY CandidateSame
  <2>2. /\ worker[w].step = "running"
        /\ candidate' = IF Allowed(worker[w].task) THEN Verdict(w, relevant) ELSE candidate
    BY <2>1 DEF Succeed
  <2>3. Allowed(worker[w].task) /\ candidate' = Verdict(w, relevant)
    BY <2>2
  <2>4. candidate'.run = worker[w].run
    BY <2>3 DEF Verdict
  <2>5. task[worker[w].task].override
    BY <2>3 DEF Allowed
  <2> QED
    BY <2>2, <2>4, <2>5
<1>2. AInv /\ [Next]_vars => [Respected]_vars
  BY <1>1
<1> QED
  BY <1>2, Invariance, PTL DEF Spec, NoCandidateAfterRecall
=============================================================================
