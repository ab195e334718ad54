---------------------------- MODULE ParentResearch ----------------------------
(***************************************************************************)
(* A parent run fans a gap manifest out into one child job per topic.  This *)
(* module composes the job queue with the rows that mirror it: the research *)
(* run of each job, the parent's child rows and the parent row itself.      *)
(*                                                                         *)
(* The queue's transactions also write the run of the job they change; the  *)
(* research runtime, the coordinator and the tail of process_once write the *)
(* same rows in transactions of their own, which is what can go wrong.      *)
(*                                                                         *)
(* One parent is modelled.  Its children have scopes of their own, because  *)
(* a child's scope_key hashes a payload that contains parent_run_id.        *)
(***************************************************************************)
EXTENDS ResearchJobs

\* A gap manifest names finitely many topics.
ASSUME ManifestAssumption == IsFiniteSet(Jobs)

VARIABLES
    run,      \* status of the row of research_runs linked to a job
    steps,    \* which of its service steps the run has COMPLETED
    child,    \* status in research_parent_children, "none" before the row exists
    parent,   \* the row of research_parent_runs
    creator,  \* where create_parent is, and the incarnation that runs it
    tail      \* what a busy thread does inside the runtime or after the job closed

parentVars == <<run, steps, child, parent, creator, tail>>
allVars == <<vars, parentVars>>

Acceptable == {"SUCCEEDED", "PARTIAL", "NO_DATA"}

\* Stages inside AgenticResearchRuntime.run, then those after the job is closed.
Stages == {"none", "start", "open", "searching", "persisting", "persisted", "reading", "ready", "checkpointed",
           "reconcile", "claim", "materialise", "record", "recorded", "finish", "done"}
\* How the job was closed: by its result, by a failed result, or by the handler.
Paths == {"none", "result", "failed", "handler"}

Resting == [at |-> "none", path |-> "none", saw |-> "none"]

ParentInit ==
    /\ Init
    /\ run = [j \in Jobs |-> "none"]
    /\ steps = [j \in Jobs |-> {}]
    /\ child = [j \in Jobs |-> "none"]
    /\ parent = [status |-> "none", snapshot |-> "null", counted |-> 0]
    /\ creator = [at |-> "idle", worker |-> None, job |-> None]
    /\ tail = [s \in Slots |-> Resting]

-----------------------------------------------------------------------------
(* What the queue's transactions do to the linked run *)

RunTouched(j) == run[j] # "none" /\ job'[j].status # job[j].status

\* acquire_next, recover_abandoned and the rejections leave a closed run alone.
ActiveRunsFollow ==
    run' = [j \in Jobs |-> IF RunTouched(j) /\ run[j] \in Active
                           THEN job'[j].status ELSE run[j]]

\* complete and checkpoint set the run whatever its status was.
RunsFollow ==
    run' = [j \in Jobs |-> IF RunTouched(j) THEN job'[j].status ELSE run[j]]

\* retry_or_fail reschedules an active run even when it had lost the job.
RetriedRunFollows(j) ==
    run' = [run EXCEPT ![j] = IF @ \in Active THEN "RETRY_SCHEDULED" ELSE @]

PathOf(pc) == CASE pc = "working"   -> "result"
                [] pc = "failing"   -> "failed"
                [] pc = "refailing" -> "handler"

\* The stage of a thread follows its position in process_once.
TailsFollow ==
    tail' = [s \in Slots |->
        IF slot'[s].pc = slot[s].pc THEN tail[s]
        ELSE IF slot'[s].pc = "working" THEN [Resting EXCEPT !.at = "start"]
        ELSE IF slot'[s].pc = "closing"
        THEN [at |-> "reconcile", path |-> PathOf(slot[s].pc), saw |-> "none"]
        ELSE Resting]

GuardedStep ==
    /\ \/ \E w \in Workers : StartWorker(w) \/ NewRound(w) \/ Stop(w)
       \/ \E s \in Slots :
            \/ RecoverFirst(s) \/ AcquireNext(s) \/ BeginJob(s) \/ ProcessRaises(s)
            \/ Heartbeat(s) \/ Raise(s) \/ Handle(s)
            \/ \E why \in FailKinds, retryable \in BOOLEAN :
                  \/ /\ tail[s].at \in {"open", "searching"}
                     /\ RetryOrFail(s, why, retryable)
                  \/ HandlerRetryOrFail(s, why, retryable)
            \/ tail[s].at = "done" /\ EndJob(s)
       \/ \E j \in Jobs : RetryDue(j) \/ LeaseExpires(j)
    /\ ActiveRunsFollow
    /\ TailsFollow
    /\ UNCHANGED <<steps, child, parent, creator>>

ClosingStep(s) ==
    /\ \/ tail[s].at = "ready" /\ \E v \in Verdicts : Complete(s, v)
       \/ tail[s].at = "checkpointed" /\ Checkpoint(s)
       \/ FailWrite(s)
    /\ RunsFollow
    /\ TailsFollow
    /\ UNCHANGED <<steps, child, parent, creator>>

RetryingStep(s) ==
    /\ RetryWrite(s)
    /\ RetriedRunFollows(slot[s].job)
    /\ TailsFollow
    /\ UNCHANGED <<steps, child, parent, creator>>

-----------------------------------------------------------------------------
(* create_parent: the parent, then each child in three transactions *)

CreateParent(w) ==
    /\ creator.at = "idle"
    /\ Started(w)
    /\ parent' = [parent EXCEPT !.status = "PENDING"]
    /\ creator' = [at |-> "enqueue", worker |-> w, job |-> None]
    /\ UNCHANGED <<vars, run, steps, child, tail>>

EnqueueChild(j) ==
    /\ creator.at = "enqueue"
    /\ child[j] = "none"
    /\ \A i \in Jobs : child[i] = "none" => j <= i
    /\ Enqueue(creator.worker, j)
    /\ creator' = [creator EXCEPT !.at = "run", !.job = j]
    /\ UNCHANGED <<run, steps, child, parent, tail>>

\* INSERT OR IGNORE: the worker's runtime may have created the run already.
EnsureRun(j) == run' = [run EXCEPT ![j] = IF @ = "none" THEN "PENDING" ELSE @]

EnsureChildRun ==
    /\ creator.at = "run"
    /\ EnsureRun(creator.job)
    /\ creator' = [creator EXCEPT !.at = "link"]
    /\ UNCHANGED <<vars, steps, child, parent, tail>>

LinkChild ==
    /\ creator.at = "link"
    /\ child' = [child EXCEPT ![creator.job] = "PENDING"]
    /\ creator' = [creator EXCEPT !.at = IF \E j \in Jobs : child'[j] = "none"
                                         THEN "enqueue" ELSE "created"]
    /\ UNCHANGED <<vars, run, steps, parent, tail>>

\* The process that runs create_parent dies with the threads of its incarnation.
CrashProcess(w) ==
    /\ Crash(w)
    /\ creator' = IF creator.worker = w /\ creator.at # "created"
                  THEN [creator EXCEPT !.at = "dead"] ELSE creator
    /\ TailsFollow
    /\ UNCHANGED <<run, steps, child, parent>>

-----------------------------------------------------------------------------
(* AgenticResearchRuntime.run: none of its writes checks who owns the job *)

Stage(s, from, to) ==
    /\ slot[s].pc = "working"
    /\ tail[s].at \in from
    /\ tail' = [tail EXCEPT ![s].at = to]
    /\ UNCHANGED <<vars, child, parent, creator>>

SetRun(j, status) == run' = [run EXCEPT ![j] = status]

OpenRun(s) ==
    Stage(s, {"start"}, "open") /\ EnsureRun(slot[s].job) /\ UNCHANGED steps

\* begin_step of a planning or search step sets the run RUNNING (bound: one stands
\* for the six of them).
BeginStep(s) ==
    /\ Stage(s, {"open"}, "searching")
    /\ SetRun(slot[s].job, "RUNNING")
    /\ UNCHANGED steps

\* begin_step of PERSIST: a step an earlier attempt completed is not repeated.
BeginPersist(s) ==
    /\ slot[s].pc = "working"
    /\ IF "PERSIST" \in steps[slot[s].job]
       THEN Stage(s, {"open", "searching"}, "persisted") /\ UNCHANGED run
       ELSE Stage(s, {"open", "searching"}, "persisting") /\ SetRun(slot[s].job, "RUNNING")
    /\ UNCHANGED steps

\* The claims, the run's verdict and the step commit in one transaction.
PersistClaims(s, verdict) ==
    /\ Stage(s, {"persisting"}, "persisted")
    /\ SetRun(slot[s].job, verdict)
    /\ steps' = [steps EXCEPT ![slot[s].job] = @ \union {"PERSIST"}]

\* persist_claims rolled back, recorded the failure and raised.
PersistFails(s) ==
    /\ tail[s].at = "persisting"
    /\ Raise(s)
    /\ SetRun(slot[s].job, "FAILED")
    /\ TailsFollow
    /\ UNCHANGED <<steps, child, parent, creator>>

BeginReadBack(s) ==
    /\ slot[s].pc = "working"
    /\ IF "READ_BACK" \in steps[slot[s].job]
       THEN Stage(s, {"persisted"}, "ready") /\ UNCHANGED run
       ELSE Stage(s, {"persisted"}, "reading") /\ SetRun(slot[s].job, "RUNNING")
    /\ UNCHANGED steps

\* complete_step does not touch the run: its status stays RUNNING until the job closes.
CompleteReadBack(s) ==
    /\ Stage(s, {"reading"}, "ready")
    /\ steps' = [steps EXCEPT ![slot[s].job] = @ \union {"READ_BACK"}]
    /\ UNCHANGED run

\* The time budget ended with progress: the run waits for the next window.
CheckpointRun(s) ==
    /\ Stage(s, {"open", "searching"}, "checkpointed")
    /\ SetRun(slot[s].job, "RETRY_SCHEDULED")
    /\ UNCHANGED steps

RuntimeStep(s) ==
    \/ OpenRun(s) \/ BeginStep(s) \/ BeginPersist(s) \/ PersistFails(s)
    \/ BeginReadBack(s) \/ CompleteReadBack(s) \/ CheckpointRun(s)
    \/ \E v \in Verdicts : PersistClaims(s, v)

-----------------------------------------------------------------------------
(* The coordinator *)

Linked == {j \in Jobs : child[j] # "none"}

\* A job that succeeded counts as failed unless its run says the same.
VerifiedStatus(j) ==
    IF job[j].status \in {"SUCCEEDED", "PARTIAL"} /\ run[j] # job[j].status
    THEN "FAILED" ELSE job[j].status

\* Mutant of ParentStatus: one success is enough.
ParentStatusLenient ==
    IF \E j \in Linked : VerifiedStatus(j) \notin Terminal THEN "RUNNING"
    ELSE IF \E j \in Linked : VerifiedStatus(j) = "SUCCEEDED" THEN "SUCCEEDED"
    ELSE "FAILED"

ParentStatus ==
    LET With(status) == {j \in Linked : VerifiedStatus(j) = status}
    IN  CASE \E j \in Linked : VerifiedStatus(j) \notin Terminal -> "RUNNING"
          [] Linked = {}                                         -> "SUCCEEDED"
          [] Linked # {} /\ With("NO_DATA") = Linked             -> "NO_DATA"
          [] Linked # {} /\ \A j \in Linked : VerifiedStatus(j) \notin Acceptable -> "FAILED"
          [] OTHER -> IF With("SUCCEEDED") \union With("NO_DATA") = Linked
                      THEN "SUCCEEDED" ELSE "PARTIAL"

After(s, at) == tail' = [tail EXCEPT ![s].at = at]

\* Only a job closed by its result goes on to record its last steps.
Rest(s) == IF tail[s].path = "result" THEN "record" ELSE "done"

\* reconcile_parent recomputes the child rows that exist and the parent.
ReconcileParent(s) ==
    /\ tail[s].at = "reconcile"
    /\ child' = [j \in Jobs |-> IF j \in Linked THEN VerifiedStatus(j) ELSE "none"]
    /\ parent' = [parent EXCEPT
         !.status = ParentStatus,
         !.counted = Cardinality({j \in Linked : VerifiedStatus(j) \in Terminal})]
    /\ tail' = [tail EXCEPT ![s].saw = ParentStatus,
                            ![s].at = IF ParentStatus \in Acceptable
                                      THEN "claim" ELSE Rest(s)]
    /\ UNCHANGED <<vars, run, steps, creator>>

\* Mutant of ClaimMaterialization: the claim ignores snapshot_id.
ClaimAnyway(s) ==
    /\ tail[s].at = "claim"
    /\ IF parent.status \in Acceptable
       THEN /\ parent' = [parent EXCEPT !.snapshot = "MATERIALIZING"]
            /\ After(s, "materialise")
       ELSE /\ UNCHANGED parent
            /\ After(s, Rest(s))
    /\ UNCHANGED <<vars, run, steps, child, creator>>

\* Mutant of ClaimMaterialization: only a running materialisation is respected.
ClaimAgain(s) ==
    /\ tail[s].at = "claim"
    /\ IF parent.snapshot # "MATERIALIZING" /\ parent.status \in Acceptable
       THEN /\ parent' = [parent EXCEPT !.snapshot = "MATERIALIZING"]
            /\ After(s, "materialise")
       ELSE /\ UNCHANGED parent
            /\ After(s, Rest(s))
    /\ UNCHANGED <<vars, run, steps, child, creator>>

ClaimMaterialization(s) ==
    /\ tail[s].at = "claim"
    /\ IF parent.snapshot = "null" /\ parent.status \in Acceptable
       THEN /\ parent' = [parent EXCEPT !.snapshot = "MATERIALIZING"]
            /\ After(s, "materialise")
       ELSE /\ UNCHANGED parent
            /\ After(s, Rest(s))
    /\ UNCHANGED <<vars, run, steps, child, creator>>

FinishMaterialization(stored) ==
    parent' = [parent EXCEPT !.snapshot =
                 IF @ # "MATERIALIZING" THEN @ ELSE IF stored THEN "stored" ELSE "null"]

\* A result that left the parent with NO_DATA claims but stores no snapshot.
Materialise(s) ==
    /\ tail[s].at = "materialise"
    /\ FinishMaterialization(tail[s].saw # "NO_DATA" \/ tail[s].path # "result")
    /\ After(s, Rest(s))
    /\ UNCHANGED <<vars, run, steps, child, creator>>

\* An exception in the tail.  The materialiser gives its claim back, unless the
\* write that does so is what failed.  A thread in the try block then handles a
\* closed job, which it leaves alone unless that raises too; the handler's own
\* exception ends run().
TailFails(s) ==
    /\ slot[s].pc = "closing"
    /\ tail[s].at # "done"
    /\ \/ tail[s].at = "materialise" /\ FinishMaterialization(FALSE)
       \/ UNCHANGED parent
    /\ \/ tail[s].path # "handler" /\ EndJob(s)
       \/ TailRaises(s)
    /\ TailsFollow
    /\ UNCHANGED <<run, steps, child, creator>>

\* record_materialization, then record_complete, begin a step of the closed run.
RecordStep(s, from, to) ==
    /\ tail[s].at = from
    /\ SetRun(slot[s].job, "RUNNING")
    /\ After(s, to)
    /\ UNCHANGED <<vars, steps, child, parent, creator>>

RecordMaterialization(s) == RecordStep(s, "record", "recorded")
RecordComplete(s) == RecordStep(s, "recorded", "finish")

FinishRun(s) ==
    /\ tail[s].at = "finish"
    /\ SetRun(slot[s].job, job[slot[s].job].status)
    /\ After(s, "done")
    /\ UNCHANGED <<vars, steps, child, parent, creator>>

TailStep(s) ==
    \/ ReconcileParent(s) \/ ClaimMaterialization(s) \/ Materialise(s)
    \/ RecordMaterialization(s) \/ RecordComplete(s) \/ FinishRun(s)

\* Mutant of Reconciled: only a run that had started is closed.
ReconciledStarted(j) ==
    IF job[j].status \in Terminal /\ run[j] = "RUNNING" THEN job[j].status
    ELSE run[j]

\* _reconcile_research_run_lifecycle, part of every migrate_database call: at
\* startup, and whenever a request constructs one of the repositories.  A failed
\* job that was repaired takes its run along.
Reconciled(j) ==
    LET relabelled == job'[j].status # job[j].status
        closed     == job[j].status \in Terminal
        overstated == /\ job[j].status \in Terminal \ Acceptable
                      /\ run[j] \in {"SUCCEEDED", "PARTIAL"}
        requeued   == job[j].status = "RETRY_SCHEDULED" /\ run[j] = "RUNNING"
    IN  IF relabelled \/ (closed /\ run[j] \in Active) \/ overstated \/ requeued
        THEN job'[j].status ELSE run[j]

ReconcileRuns ==
    /\ RepairProjections
    /\ \A j \in Jobs : job'[j] # job[j]
          => run[j] # "none" /\ {"PERSIST", "READ_BACK"} \subseteq steps[j]
    /\ run' = [j \in Jobs |-> Reconciled(j)]
    /\ <<job', run'>> # <<job, run>>
    /\ UNCHANGED <<steps, child, parent, creator, tail>>

-----------------------------------------------------------------------------

ThreadStep(s) == ClosingStep(s) \/ RetryingStep(s) \/ RuntimeStep(s) \/ TailStep(s)

CreatorStep ==
    \/ \E j \in Jobs : EnqueueChild(j)
    \/ EnsureChildRun
    \/ LinkChild

ParentNext ==
    \/ GuardedStep
    \/ \E s \in Slots : ThreadStep(s) \/ TailFails(s)
    \/ \E w \in Workers : CreateParent(w) \/ CrashProcess(w)
    \/ CreatorStep
    \/ ReconcileRuns

ParentSpec == ParentInit /\ [][ParentNext]_allVars

\* Every request and every scheduler tick constructs a repository.
ParentFairSpec == ParentSpec /\ WF_allVars(ReconcileRuns)

-----------------------------------------------------------------------------
(* Properties *)

ParentTypeOK ==
    /\ run \in [Jobs -> Active \union Terminal \union {"none"}]
    /\ steps \in [Jobs -> SUBSET {"PERSIST", "READ_BACK"}]
    /\ child \in [Jobs -> Active \union Terminal \union {"none"}]
    /\ parent \in [status   : Acceptable \union {"none", "PENDING", "RUNNING", "FAILED"},
                   snapshot : {"null", "MATERIALIZING", "stored"},
                   counted  : 0 .. Cardinality(Jobs)]
    /\ creator \in [at     : {"idle", "enqueue", "run", "link", "created", "dead"},
                    worker : Workers \union {None},
                    job    : Jobs \union {None}]
    /\ tail \in [Slots -> [at   : Stages,
                           path : Paths,
                           saw  : Acceptable \union {"none", "RUNNING", "FAILED"}]]

\* The parent's context is materialised by one thread at a time: whoever is
\* materialising holds the claim, and nobody else does.
OneMaterialiser ==
    \A s \in Slots : tail[s].at = "materialise" =>
        /\ parent.snapshot = "MATERIALIZING"
        /\ \A t \in Slots : tail[t].at = "materialise" => t = s

\* A snapshot that was stored for the parent is never replaced or given back.
StoredOnce == [][parent.snapshot = "stored" => parent'.snapshot = "stored"]_allVars

\* A parent that counted every topic and says SUCCEEDED has no child that failed:
\* each of its jobs closed with data or with an honest NO_DATA.
SucceededIsEarned ==
    parent.status = "SUCCEEDED" /\ parent.counted = Cardinality(Jobs)
        => \A j \in Jobs : job[j].status \in {"SUCCEEDED", "NO_DATA"}

\* Documented (persistent-ai-and-temporal-architecture.md:195,202): job and run
\* are synchronised transactionally; a closed job has a run of the same status.
RunFollowsJob ==
    \A j \in Jobs : job[j].status \in {"SUCCEEDED", "PARTIAL", "NO_DATA"}
        => run[j] = job[j].status

\* Tested (test_parallel_research_contract_closure.py:529): a parent that reached
\* a final status has counted all the children of its manifest.
FinalCountsAll ==
    parent.status \in Acceptable \union {"FAILED"} => parent.counted = Cardinality(Jobs)

\* Documented (persistent-ai-and-temporal-architecture.md:206): the run of a closed
\* job is closed, in the end for good, although the runtime of a thread that lost
\* the job, the tail of the one that closed it and create_parent still write it.
ClosedJobsCloseRuns ==
    \A j \in Jobs :
        <>[](job[j].status \in Terminal => run[j] \in Terminal \union {"none"})
=============================================================================
