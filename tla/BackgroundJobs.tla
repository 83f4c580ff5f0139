--------------------------- MODULE BackgroundJobs ---------------------------
(***************************************************************************)
(* BackgroundRuntime, TaskScheduler and WorkerPool: jobs are graphs of     *)
(* nodes, executed in waves of ready nodes under one pool of permits, with *)
(* retries, checkpoints, cancellation and resume.  Everything runs on one  *)
(* event loop; a step runs from one await to the next.  The in-memory      *)
(* checkpoint store answers without yielding; the SQLite store works in a  *)
(* thread, may fail, and finishes a write whose task has been cancelled.   *)
(*                                                                         *)
(* An execution of a job is one task that runs _run_job; resume_job starts *)
(* the next.  Node tasks belong to an execution: those of an execution     *)
(* that has been given up may still run.  One tenant.                      *)
(***************************************************************************)
EXTENDS Naturals, FiniteSets

CONSTANTS
  Jobs,
  Nodes,
  Workloads,          \* what may be submitted: job -> node of its graph -> what it depends on
  RetryLimit,         \* node -> its retry_limit
  MaxExecutions,      \* bound: one submission and the resumes after it
  PoolSize,           \* max_concurrency of the pool at the start
  Stores,             \* the checkpoint stores, "memory" and "sqlite"
  MaxActiveJobs,      \* quota: max_active_jobs_per_tenant; 0 for none
  MinConcurrency, MaxConcurrency, ScaleUpBacklog, ScaleUpStep, ScaleUpCooldown,
  ScaleUpHysteresis, BackpressureBacklog,
  ActiveRatioPercent  \* AgentScalerConfig

Executions == 1..MaxExecutions

\* _validate_dependencies and _validate_acyclic: every set of nodes has one that depends on
\* none of them.
ValidGraph(graph) ==
  /\ \A n \in DOMAIN graph : graph[n] \subseteq DOMAIN graph
  /\ \A S \in (SUBSET DOMAIN graph) \ {{}} : \E n \in S : graph[n] \cap S = {}

ASSUME BackgroundAssumption ==
  /\ \A w \in Workloads : /\ DOMAIN w \subseteq Jobs
                          /\ \A j \in DOMAIN w : DOMAIN w[j] \subseteq Nodes /\ ValidGraph(w[j])
  /\ RetryLimit \in [Nodes -> Nat]
  /\ {MaxExecutions, PoolSize, MinConcurrency, ScaleUpStep, ScaleUpBacklog,
       BackpressureBacklog, ActiveRatioPercent} \subseteq Nat \ {0}
  /\ {MaxActiveJobs, MaxConcurrency, ScaleUpCooldown, ScaleUpHysteresis} \subseteq Nat
  /\ MaxConcurrency >= MinConcurrency
  /\ Stores \subseteq {"memory", "sqlite"}

VARIABLES
  depends_on,         \* the graphs of the jobs, of Workloads
  checkpoint_store,   \* which checkpoint store is used
  job,                \* status, the current execution, and what its task is doing
  outcomes,           \* result.outcomes of the current execution
  node,               \* the node tasks of each execution
  cancelling,         \* the executions whose node tasks have been cancelled
  checkpoints,        \* the status in the checkpoint of each node
  late_writes,        \* writes that go on in a thread after their task was cancelled
  permits,            \* the value of the pool's semaphore
  max_concurrency,    \* _max_concurrency of the pool
  cooldown,           \* _cooldown_remaining of the scaler
  last_target         \* _last_scale_up_target of the scaler

jobVars == <<job, outcomes, cancelling>>
given == <<depends_on, checkpoint_store>>
scalerVars == <<max_concurrency, cooldown, last_target>>
backgroundVars ==
  <<given, jobVars, node, checkpoints, late_writes, permits, scalerVars>>

GraphOf(j) == DOMAIN depends_on[j]

JobStatuses == {"none", "pending", "running", "completed", "failed", "cancelled"}
OutcomeStatuses == {"none", "running", "completed", "failed", "cancelled"}

\* created: the task exists and has not run; listing: it reads the checkpoints; gathering: it
\* awaits its wave.  cancel: task.cancel() was called.
NoJob == [status |-> "none", execution |-> 0, at |-> "none", cancel |-> FALSE]

\* waiting: for a permit; handling: in an attempt; backoff: between attempts; starting,
\* storing, failing: saving the checkpoint that says running, completed or failed.  The
\* others are the ways a node task ends.
Saving == {"starting", "storing", "failing"}
Holding == Saving \cup {"handling", "backoff"}
Ended == {"completed", "failed", "raised", "cancelled"}
IdleNode == [at |-> "idle", attempts |-> 0]

NoOutcomes == [n \in Nodes |-> "none"]

BackgroundInit ==
  /\ depends_on \in Workloads
  /\ checkpoint_store \in Stores
  /\ job = [j \in Jobs |-> NoJob]
  /\ outcomes = [j \in Jobs |-> NoOutcomes]
  /\ node = [j \in Jobs |-> [e \in Executions |-> [n \in Nodes |-> IdleNode]]]
  /\ cancelling = {}
  /\ checkpoints = [j \in Jobs |-> NoOutcomes]
  /\ late_writes = {}
  /\ permits = PoolSize
  /\ max_concurrency = PoolSize
  /\ cooldown = 0
  /\ last_target = 0

-----------------------------------------------------------------------------
(* AgentScaler.evaluate and WorkerPool.scale_up_to, on submission.         *)

Pending == {j \in Jobs : job[j].status = "pending"}
Active == {j \in Jobs : job[j].status \in {"pending", "running"}}

Normalized == IF max_concurrency < MinConcurrency THEN MinConcurrency ELSE max_concurrency

BacklogThreshold ==
  IF ScaleUpHysteresis > 0 /\ last_target >= Normalized /\ Normalized > MinConcurrency
    THEN ScaleUpBacklog + ScaleUpHysteresis ELSE ScaleUpBacklog

ScalesUp ==
  Cardinality(Pending) >= BacklogThreshold /\ Normalized < MaxConcurrency /\ cooldown = 0

Target == IF Normalized + ScaleUpStep < MaxConcurrency THEN Normalized + ScaleUpStep
          ELSE MaxConcurrency

\* Mutation: as many permits are released as the pool is to have.
EvaluateFull ==
  IF ScalesUp
    THEN /\ last_target' = Target
         /\ cooldown' = ScaleUpCooldown
         /\ max_concurrency' = Target
         /\ permits' = permits + Target
    ELSE /\ cooldown' = IF cooldown > 0 THEN cooldown - 1 ELSE 0
         /\ UNCHANGED <<last_target, max_concurrency, permits>>

Evaluate ==
  IF ScalesUp
    THEN /\ last_target' = Target
         /\ cooldown' = ScaleUpCooldown
         /\ max_concurrency' = Target
         /\ permits' = permits + (Target - max_concurrency)
    ELSE /\ cooldown' = IF cooldown > 0 THEN cooldown - 1 ELSE 0
         /\ UNCHANGED <<last_target, max_concurrency, permits>>

ActiveThreshold == (Normalized * ActiveRatioPercent + 99) \div 100   \* ceil

Backpressure ==
  Cardinality(Pending) >= BackpressureBacklog /\ Cardinality(Active) >= ActiveThreshold

\* check_submission
WithinQuota == MaxActiveJobs = 0 \/ Cardinality(Active) < MaxActiveJobs

\* submit; the pool may have been scaled up even if the submission is then rejected.
Submit(j) ==
  /\ j \in DOMAIN depends_on /\ job[j].status = "none"
  /\ Evaluate
  /\ IF ~Backpressure /\ WithinQuota
       THEN job' = [job EXCEPT ![j] = [status |-> "pending", execution |-> 1,
                                       at |-> "created", cancel |-> FALSE]]
       ELSE UNCHANGED job
  /\ UNCHANGED <<given, outcomes, node, cancelling, checkpoints, late_writes>>

-----------------------------------------------------------------------------
(* The task of a job: _run_job and TaskScheduler.execute.                  *)

Wave(j) == {n \in GraphOf(j) : node[j][job[j].execution][n].at # "idle"
                               /\ outcomes[j][n] \notin {"completed", "failed"}}
Raised(j) == \E n \in Wave(j) : node[j][job[j].execution][n].at = "raised"
WaveOver(j) == \A n \in Wave(j) : node[j][job[j].execution][n].at \in Ended
Cancelling(j) == <<j, job[j].execution>> \in cancelling

Ends(j, status) == job' = [job EXCEPT ![j].status = status, ![j].at = "done"]

\* Mutation: any outcome of a dependency will do.
ReadyAfterStarted(j, out) ==
  {n \in GraphOf(j) : /\ out[n] \notin {"completed", "failed", "cancelled"}
                      /\ \A d \in depends_on[j][n] : out[d] # "none"}

\* ready_nodes, without the cancelled ones
Ready(j, out) ==
  {n \in GraphOf(j) : /\ out[n] \notin {"completed", "failed", "cancelled"}
                      /\ \A d \in depends_on[j][n] : out[d] = "completed"}

\* The head of the loop: a wave of the ready nodes, or the end.
NextWave(j, out) ==
  /\ outcomes' = [outcomes EXCEPT ![j] = out]
  /\ IF Ready(j, out) = {}
       THEN /\ Ends(j, IF \E n \in Nodes : out[n] = "failed" THEN "failed" ELSE "completed")
            /\ UNCHANGED node
       ELSE /\ job' = [job EXCEPT ![j].status = "running", ![j].at = "gathering"]
            /\ node' = [node EXCEPT ![j][job[j].execution] =
                           [n \in Nodes |-> IF n \in Ready(j, out)
                                             THEN [IdleNode EXCEPT !.at = "waiting"] ELSE @[n]]]

\* Mutation: a node that was running when the job stopped counts as completed.
JobStartTrusting(j) ==
  /\ job[j].at = "created" /\ ~job[j].cancel
  /\ NextWave(j, [n \in Nodes |-> IF checkpoints[j][n] = "running" THEN "completed"
                                  ELSE checkpoints[j][n]])
  /\ UNCHANGED <<given, cancelling, checkpoints, late_writes, permits, scalerVars>>

JobStart(j) ==
  /\ job[j].at = "created" /\ ~job[j].cancel
  /\ IF job[j].execution > 1 /\ checkpoint_store = "sqlite"
       THEN /\ job' = [job EXCEPT ![j].status = "running", ![j].at = "listing"]
            /\ UNCHANGED <<outcomes, node>>
       ELSE NextWave(j, IF job[j].execution > 1 THEN checkpoints[j] ELSE NoOutcomes)
  /\ UNCHANGED <<given, cancelling, checkpoints, late_writes, permits, scalerVars>>

\* The checkpoints have been read.
JobListed(j) ==
  /\ job[j].at = "listing" /\ ~job[j].cancel
  /\ NextWave(j, checkpoints[j])
  /\ UNCHANGED <<given, cancelling, checkpoints, late_writes, permits, scalerVars>>

\* A task cancelled before its first step never enters _run_job: the job stays pending.
JobNeverStarts(j) ==
  /\ job[j].at = "created" /\ job[j].cancel
  /\ job' = [job EXCEPT ![j].at = "done"]
  /\ UNCHANGED <<given, outcomes, node, cancelling, checkpoints, late_writes,
                 permits, scalerVars>>

\* _mark_downstream_cancelled: the nodes without an outcome that depend on one of the nodes
\* of failed or, in turn, on one of those: the least set that the loop leaves unchanged.
Downstream(j, out, failed) ==
  LET pending == {n \in GraphOf(j) : out[n] = "none"}
      Unchanging(S) == \A n \in pending : depends_on[j][n] \cap (failed \cup S) # {} => n \in S
  IN  {n \in pending : \A S \in SUBSET pending : Unchanging(S) => n \in S}

\* The wave's outcomes, added to those the execution has.
Gathered(j) ==
  LET ended == [n \in Nodes |-> IF n \in Wave(j) THEN node[j][job[j].execution][n].at
                                ELSE outcomes[j][n]]
      failed == {n \in Wave(j) : ended[n] = "failed"}
  IN  [n \in Nodes |-> IF n \in Downstream(j, ended, failed) THEN "cancelled" ELSE ended[n]]

\* Mutation: a wave with a failed node is not over.
WaveDoneAllCompleted(j) ==
  /\ job[j].at = "gathering" /\ ~job[j].cancel
  /\ \A n \in Wave(j) : node[j][job[j].execution][n].at = "completed"
  /\ NextWave(j, Gathered(j))
  /\ UNCHANGED <<given, cancelling, checkpoints, late_writes, permits, scalerVars>>

\* gather returns.
WaveDone(j) ==
  /\ job[j].at = "gathering" /\ ~job[j].cancel
  /\ WaveOver(j) /\ ~Raised(j)
  /\ NextWave(j, Gathered(j))
  /\ UNCHANGED <<given, cancelling, checkpoints, late_writes, permits, scalerVars>>

\* The execution fails: a node task raised, and gather passes the first exception on and lets
\* the other tasks run; or the checkpoints could not be listed.
JobRaises(j) ==
  /\ \/ job[j].at = "gathering" /\ Raised(j) /\ (job[j].cancel => Cancelling(j))
     \/ job[j].at = "listing" /\ ~job[j].cancel
  /\ Ends(j, "failed")
  /\ outcomes' = [outcomes EXCEPT ![j] = NoOutcomes]
  /\ UNCHANGED <<given, node, cancelling, checkpoints, late_writes, permits,
                 scalerVars>>

\* CancelledError arrives in _run_job: at once, unless gather has tasks to cancel and waits
\* for the first of them.
JobCancelled(j) ==
  /\ job[j].cancel
  /\ \/ job[j].at = "listing"
     \/ /\ job[j].at = "gathering"
        /\ Cancelling(j) =>
             /\ ~Raised(j)
             /\ \E n \in Wave(j) : node[j][job[j].execution][n].at = "cancelled"
  /\ Ends(j, "cancelled")
  /\ outcomes' = [outcomes EXCEPT ![j] = NoOutcomes]
  /\ UNCHANGED <<given, node, cancelling, checkpoints, late_writes, permits,
                 scalerVars>>

\* Mutation: the node tasks are shielded from the cancellation of the job.
CancelJobShielded(j) ==
  /\ job[j].status \in {"pending", "running"} /\ job[j].at # "done" /\ ~job[j].cancel
  /\ job' = [job EXCEPT ![j].cancel = TRUE]
  /\ UNCHANGED <<given, outcomes, node, cancelling, checkpoints, late_writes, permits,
                 scalerVars>>

\* cancel_job.  Cancelling the task cancels the gather it awaits, which cancels the node tasks
\* that still run; a gather that is over by then is not cancelled.
CancelJob(j) ==
  /\ job[j].status \in {"pending", "running"} /\ job[j].at # "done" /\ ~job[j].cancel
  /\ job' = [job EXCEPT ![j].cancel = TRUE]
  /\ \/ /\ job[j].at = "gathering" /\ ~WaveOver(j)
        /\ cancelling' = cancelling \cup {<<j, job[j].execution>>}
     \/ /\ job[j].at # "gathering" \/ WaveOver(j) \/ Raised(j)
        /\ UNCHANGED cancelling
  /\ UNCHANGED <<given, outcomes, node, checkpoints, late_writes, permits,
                 scalerVars>>

\* resume_job: neither the quota nor the scaler is asked.
ResumeJob(j) ==
  /\ job[j].status \in {"failed", "cancelled"}
  /\ job[j].execution < MaxExecutions
  /\ job' = [job EXCEPT ![j] = [status |-> "pending", execution |-> job[j].execution + 1,
                                at |-> "created", cancel |-> FALSE]]
  /\ outcomes' = [outcomes EXCEPT ![j] = NoOutcomes]
  /\ UNCHANGED <<given, node, cancelling, checkpoints, late_writes, permits,
                 scalerVars>>

-----------------------------------------------------------------------------
(* A node task: WorkerPool.run around _run_node.                           *)

Alive(j, e) == <<j, e>> \notin cancelling

\* The node task goes on with the permit it has.
Goes(j, e, n, place, attempts) ==
  /\ node' = [node EXCEPT ![j][e][n] = [at |-> place, attempts |-> attempts]]
  /\ UNCHANGED permits

\* The node task ends and leaves the pool.
Leaves(j, e, n, place) ==
  /\ node' = [node EXCEPT ![j][e][n].at = place]
  /\ permits' = permits + 1

Writes(j, n, status) == checkpoints' = [checkpoints EXCEPT ![j][n] = status]

\* An attempt that timed out or raised.
AttemptFails(j, e, n) ==
  IF node[j][e][n].attempts <= RetryLimit[n]
    THEN Goes(j, e, n, "backoff", node[j][e][n].attempts) /\ UNCHANGED checkpoints
    ELSE IF checkpoint_store = "memory"
           THEN Leaves(j, e, n, "failed") /\ Writes(j, n, "failed")
           ELSE /\ Goes(j, e, n, "failing", node[j][e][n].attempts)
                /\ UNCHANGED checkpoints

NodeAcquire(j, e, n) ==
  /\ node[j][e][n].at = "waiting" /\ Alive(j, e)
  /\ permits > 0
  /\ permits' = permits - 1
  /\ IF checkpoint_store = "memory"
       THEN /\ node' = [node EXCEPT ![j][e][n] = [at |-> "handling", attempts |-> 1]]
            /\ Writes(j, n, "running")
       ELSE node' = [node EXCEPT ![j][e][n].at = "starting"] /\ UNCHANGED checkpoints
  /\ UNCHANGED <<given, jobVars, late_writes, scalerVars>>

\* The handler answers in time.
NodeOk(j, e, n) ==
  /\ node[j][e][n].at = "handling" /\ Alive(j, e)
  /\ IF checkpoint_store = "memory"
       THEN Leaves(j, e, n, "completed") /\ Writes(j, n, "completed")
       ELSE Goes(j, e, n, "storing", node[j][e][n].attempts) /\ UNCHANGED checkpoints
  /\ UNCHANGED <<given, jobVars, late_writes, scalerVars>>

\* The handler raises or times out.
NodeError(j, e, n) ==
  /\ node[j][e][n].at = "handling" /\ Alive(j, e)
  /\ AttemptFails(j, e, n)
  /\ UNCHANGED <<given, jobVars, late_writes, scalerVars>>

NodeRetry(j, e, n) ==
  /\ node[j][e][n].at = "backoff" /\ Alive(j, e)
  /\ Goes(j, e, n, "handling", node[j][e][n].attempts + 1)
  /\ UNCHANGED <<given, jobVars, checkpoints, late_writes, scalerVars>>

\* What a save in each place writes.
Written(place) == CASE place = "starting" -> "running" [] place = "storing" -> "completed"
                    [] place = "failing" -> "failed"

\* save_checkpoint returns.
NodeSaved(j, e, n) ==
  /\ node[j][e][n].at \in Saving /\ Alive(j, e)
  /\ Writes(j, n, Written(node[j][e][n].at))
  /\ IF node[j][e][n].at = "starting" THEN Goes(j, e, n, "handling", 1)
       ELSE Leaves(j, e, n, Written(node[j][e][n].at))
  /\ UNCHANGED <<given, jobVars, late_writes, scalerVars>>

\* save_checkpoint raises: inside the attempt this counts as an error of the handler, outside
\* of it the node task raises.
NodeSaveFails(j, e, n) ==
  /\ node[j][e][n].at \in Saving /\ Alive(j, e)
  /\ IF node[j][e][n].at = "storing" THEN AttemptFails(j, e, n)
       ELSE Leaves(j, e, n, "raised") /\ UNCHANGED checkpoints
  /\ UNCHANGED <<given, jobVars, late_writes, scalerVars>>

\* CancelledError arrives in the node task; a save it awaits goes on in its thread.
NodeCancelled(j, e, n) ==
  /\ ~Alive(j, e)
  /\ node[j][e][n].at \in Holding \cup {"waiting"}
  /\ IF node[j][e][n].at \in Holding
       THEN Leaves(j, e, n, "cancelled")
       ELSE Goes(j, e, n, "cancelled", 0)
  /\ late_writes' = IF node[j][e][n].at \in Saving
                     THEN late_writes \cup {<<j, n, Written(node[j][e][n].at)>>}
                     ELSE late_writes
  /\ UNCHANGED <<given, jobVars, checkpoints, scalerVars>>

\* A write of a cancelled task reaches the database, or fails.
LateWrite(w) ==
  /\ late_writes' = late_writes \ {w}
  /\ Writes(w[1], w[2], w[3]) \/ UNCHANGED checkpoints
  /\ UNCHANGED <<given, jobVars, node, permits, scalerVars>>

-----------------------------------------------------------------------------
JobStep(j) ==
  JobStart(j) \/ JobListed(j) \/ JobNeverStarts(j) \/ WaveDone(j) \/ JobRaises(j)
    \/ JobCancelled(j)

NodeStep(j, e, n) ==
  NodeOk(j, e, n) \/ NodeError(j, e, n) \/ NodeRetry(j, e, n) \/ NodeSaved(j, e, n)
    \/ NodeSaveFails(j, e, n) \/ NodeCancelled(j, e, n)

\* What the event loop does on its own.
LoopStep ==
  \/ \E j \in Jobs : JobStep(j)
  \/ \E j \in Jobs, e \in Executions, n \in Nodes : NodeAcquire(j, e, n) \/ NodeStep(j, e, n)

BackgroundNext ==
  \/ \E j \in Jobs : Submit(j) \/ CancelJob(j) \/ ResumeJob(j)
  \/ \E w \in late_writes : LateWrite(w)
  \/ LoopStep

BackgroundSpec == BackgroundInit /\ [][BackgroundNext]_backgroundVars

\* The event loop goes on while something is ready: handlers are bounded by wait_for, the
\* back-off ends and a freed permit wakes a waiter.
BackgroundFairness == WF_backgroundVars(LoopStep)

BackgroundLiveSpec == BackgroundSpec /\ BackgroundFairness

-----------------------------------------------------------------------------
(* Properties.                                                             *)

\* Type invariant of the jobs, their node tasks, the pool and the checkpoints.
BackgroundTypeOK ==
  /\ given \in Workloads \X Stores
  /\ job \in [Jobs -> [status : JobStatuses, execution : 0..MaxExecutions,
                       at : {"none", "created", "listing", "gathering", "done"},
                       cancel : BOOLEAN]]
  /\ outcomes \in [Jobs -> [Nodes -> OutcomeStatuses]]
  /\ node \in [Jobs -> [Executions -> [Nodes ->
                 [at : {"idle", "waiting"} \cup Holding \cup Ended, attempts : Nat]]]]
  /\ cancelling \subseteq Jobs \X Executions
  /\ checkpoints \in [Jobs -> [Nodes -> OutcomeStatuses]]
  /\ late_writes \subseteq Jobs \X Nodes \X OutcomeStatuses
  /\ {permits, max_concurrency, cooldown, last_target} \subseteq Nat

NodeTasks == Jobs \X Executions \X Nodes
PlaceOf(t) == node[t[1]][t[2]][t[3]].at

\* The permits of the worker pool add up through retries, failures, cancellations, tasks left
\* behind by an execution that gave up, and growth of the pool: none is lost and none is made.
PermitsExact ==
  /\ permits + Cardinality({t \in NodeTasks : PlaceOf(t) \in Holding}) = max_concurrency
  /\ max_concurrency <= IF PoolSize > MaxConcurrency THEN PoolSize ELSE MaxConcurrency

\* A job that ends completed has completed every node of its graph, in this execution or in
\* an earlier one; with the in-memory store its checkpoints say so too.
CompletedMeansAll ==
  \A j \in Jobs : job[j].status = "completed" =>
    \A n \in GraphOf(j) :
      /\ outcomes[j][n] = "completed"
      /\ checkpoint_store = "memory" => checkpoints[j][n] = "completed"

\* With the in-memory store, a node is attempted (by an execution that has not been cancelled)
\* only when the checkpoints say that everything it depends on has been completed, whichever
\* execution did it.
DependencyOrder ==
  checkpoint_store = "memory" =>
    \A t \in NodeTasks : PlaceOf(t) \in Holding /\ <<t[1], t[2]>> \notin cancelling =>
      \A d \in depends_on[t[1]][t[3]] : checkpoints[t[1]][d] = "completed"

\* With the in-memory store no two executions of a job work on the same node, except that an
\* earlier one may not yet have noticed that it is cancelled.
NodeRunsOnce ==
  checkpoint_store = "memory" =>
    \A t, u \in NodeTasks :
      /\ PlaceOf(t) \in Holding /\ PlaceOf(u) \in Holding
      /\ t[1] = u[1] /\ t[3] = u[3] /\ t[2] < u[2]
      => <<t[1], t[2]>> \in cancelling

\* A job that runs ends: completed, failed or cancelled.
JobsFinish ==
  \A j \in Jobs : (job[j].status = "running") ~>
                    (job[j].status \in {"completed", "failed", "cancelled"})

\* Together, what holds of jobs and pool through failures, cancellation and resumption.
JobsSound == PermitsExact /\ CompletedMeansAll /\ DependencyOrder /\ NodeRunsOnce
=============================================================================
