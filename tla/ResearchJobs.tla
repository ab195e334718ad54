----------------------------- MODULE ResearchJobs -----------------------------
(***************************************************************************)
(* The persistent AI research job queue: the table ai_research_jobs, its   *)
(* attempt rows, and the slots of the worker processes that lease jobs.    *)
(*                                                                         *)
(* Every repository method that writes opens BEGIN IMMEDIATE, so one SQLite *)
(* transaction is one step.  retry_or_fail reads the job in one transaction *)
(* and writes in another; it is two steps here, as in the code.            *)
(*                                                                         *)
(* Time is abstracted to what the queries compare: a lease is live or      *)
(* expired, a retry is due or not.  The clock may make a lease expire at    *)
(* any moment, because a heartbeat thread dies on its first SQLite error.   *)
(***************************************************************************)
EXTENDS Naturals, FiniteSets

CONSTANTS
    Jobs,        \* requests that may be enqueued, numbered in dispatch order
    Workers,     \* incarnations of the worker process, one uuid each
    Slots,       \* the research_parallelism threads of all incarnations
    WorkerOf,    \* the incarnation whose worker_id a slot presents
    Scope,       \* scope_key of a request
    Allowed,     \* requests that an incarnation's settings authorise and enable
    Capable,     \* requests whose job type its capability report lets it take
    Verdicts,    \* terminal statuses that a finished execution can yield
    FailKinds,   \* terminal statuses that a failed execution can yield
    MaxAttempts, \* ai_job_max_attempts
    AttemptCap,  \* bound: the environment leaves this attempt undisturbed
    Misprojected,\* jobs whose failure says that a result lacked its event_key
    None

ASSUME JobsAssumption == Jobs \subseteq Nat
ASSUME WorkerAssumption ==
    /\ WorkerOf \in [Slots -> Workers]
    /\ None \notin Workers
ASSUME SettingsAssumption ==
    /\ Allowed \in [Workers -> SUBSET Jobs]
    /\ Capable \in [Workers -> SUBSET Jobs]
ASSUME StatusAssumption ==
    /\ Verdicts \subseteq {"SUCCEEDED", "PARTIAL", "NO_DATA", "REJECTED"}
    /\ FailKinds \subseteq {"FAILED", "TIMED_OUT", "LOOP_DETECTED"}
    /\ Misprojected \subseteq Jobs
ASSUME AttemptsAssumption ==
    /\ MaxAttempts \in Nat \ {0}
    /\ AttemptCap \in Nat
    /\ MaxAttempts <= AttemptCap

VARIABLES
    job,      \* the rows of ai_research_jobs
    tries,    \* the rows of ai_research_job_attempts: status by attempt_number
    slot,     \* where each thread is inside process_once
    stopped   \* incarnations whose run() loop has ended

vars == <<job, tries, slot, stopped>>

-----------------------------------------------------------------------------
(* Statuses and rows *)

Waiting  == {"PENDING", "RETRY_SCHEDULED"}
Active   == Waiting \union {"RUNNING"}
Terminal == {"SUCCEEDED", "PARTIAL", "NO_DATA", "REJECTED",
             "FAILED", "TIMED_OUT", "LOOP_DETECTED"}

JobRow == [status   : Active \union Terminal \union {"ABSENT"},
           worker   : Workers \union {None},
           attempts : 0 .. AttemptCap,
           lease    : {"null", "live", "expired"},
           due      : BOOLEAN,    \* next_retry_at is NULL or has passed
           continues: BOOLEAN]    \* last_retry_reason = 'technical_continuation'

AttemptStatus == {"none", "RUNNING", "ABANDONED", "CHECKPOINTED"} \union Terminal

\* Positions of a thread.  "acquired" is process_once before its try block,
\* "handling" the except block, and "re..." what that block calls: the exceptions
\* of these nobody catches, and they leave the thread "raised".
Handling == {"handling", "rehandling", "reretrying", "refailing"}
Busy == {"acquired", "working", "retrying", "failing", "closing"} \union Handling
SlotState == [pc      : {"off", "idle", "armed", "picking", "raised", "dead"} \union Busy,
              job     : Jobs \union {None},
              attempt : 0 .. AttemptCap,  \* the attempt it was handed
              read    : 0 .. AttemptCap,  \* attempts as retry_or_fail read it
              why     : FailKinds \union {None},
              beat    : BOOLEAN]          \* its heartbeat thread still runs

Absent == [status |-> "ABSENT", worker |-> None, attempts |-> 0,
           lease |-> "null", due |-> TRUE, continues |-> FALSE]

At(pc) == [pc |-> pc, job |-> None, attempt |-> 0, read |-> 0, why |-> None,
           beat |-> FALSE]

\* A thread that was handed job j in its attempt n.
Handed(j, n) == [pc |-> "acquired", job |-> j, attempt |-> n, read |-> 0,
                 why |-> None, beat |-> FALSE]

\* A thread that an exception left, with the job and attempt it had.
Gone(j, n) == [pc |-> "raised", job |-> j, attempt |-> n, read |-> 0,
               why |-> None, beat |-> FALSE]

SlotsOf(w) == {s \in Slots : WorkerOf[s] = w}

Started(w) == \A s \in SlotsOf(w) : slot[s].pc \notin {"off", "dead"}

\* Mutant of Owns: ownership is not fenced by worker_id.
OwnsUnfenced(s) == job[slot[s].job].status = "RUNNING"

\* UPDATE ... WHERE job_id=? AND status='RUNNING' AND worker_id=?
Owns(s) == LET j == slot[s].job
           IN  job[j].status = "RUNNING" /\ job[j].worker = WorkerOf[s]

\* Close the row of one attempt; the other attempts of the job keep theirs.
SetTry(j, n, status) == tries' = [tries EXCEPT ![j][n] = status]

Goto(s, state) == slot' = [slot EXCEPT ![s] = state]

Init ==
    /\ job = [j \in Jobs |-> Absent]
    /\ tries = [j \in Jobs |-> [n \in 1 .. AttemptCap |-> "none"]]
    /\ slot = [s \in Slots |-> At("off")]
    /\ stopped = {}

-----------------------------------------------------------------------------
(* Producers *)

\* Mutant of Enqueue: a job that waits for a retry does not block its scope.
EnqueueIgnoringRetries(w, j) ==
    /\ Started(w)
    /\ job[j].status = "ABSENT"
    /\ j \in Allowed[w]
    /\ \A i \in Jobs : Scope[i] = Scope[j] => job[i].status \notin {"PENDING", "RUNNING"}
    /\ job' = [job EXCEPT ![j].status = "PENDING"]
    /\ UNCHANGED <<tries, slot, stopped>>

\* enqueue: an unauthorised or disabled request is refused without a row, an
\* active job of the same scope is returned instead, otherwise a row appears.
Enqueue(w, j) ==
    /\ Started(w)
    /\ job[j].status = "ABSENT"
    /\ j \in Allowed[w]
    /\ \A i \in Jobs : Scope[i] = Scope[j] => job[i].status \notin Active
    /\ job' = [job EXCEPT ![j].status = "PENDING"]
    /\ UNCHANGED <<tries, slot, stopped>>

-----------------------------------------------------------------------------
(* Recovery and rejection *)

RejectedRow(row) ==
    [row EXCEPT !.status = "REJECTED", !.worker = None, !.lease = "null",
                !.due = TRUE, !.continues = FALSE]

\* Every attempt of the job that is still open is closed as REJECTED.
RejectedTries(j) ==
    [n \in 1 .. AttemptCap |->
        IF tries[j][n] = "RUNNING" THEN "REJECTED" ELSE tries[j][n]]

Lapsed(j) == job[j].status = "RUNNING" /\ job[j].lease = "expired"

\* Mutant of RecoveredRow: off by one on max_attempts.
RecoveredRowLate(row) ==
    [row EXCEPT !.status = IF row.attempts > MaxAttempts /\ ~row.continues
                           THEN "FAILED" ELSE "RETRY_SCHEDULED",
                !.worker = None, !.lease = "null", !.due = TRUE]

\* A continuation is requeued however many attempts it has used.
RecoveredRow(row) ==
    [row EXCEPT !.status = IF row.attempts >= MaxAttempts /\ ~row.continues
                           THEN "FAILED" ELSE "RETRY_SCHEDULED",
                !.worker = None, !.lease = "null", !.due = TRUE]

\* Mutant of RecoveredTries: the abandoned attempt stays open.
RecoveredTriesOpen(j) == tries[j]

RecoveredTries(j) ==
    [n \in 1 .. AttemptCap |->
        IF n = job[j].attempts /\ tries[j][n] = "RUNNING"
        THEN "ABANDONED" ELSE tries[j][n]]

\* recover_abandoned, run with the settings of incarnation w.
RecoverAbandoned(w) ==
    /\ job' = [j \in Jobs |->
                 IF ~Lapsed(j) THEN job[j]
                 ELSE IF j \in Allowed[w] THEN RecoveredRow(job[j])
                 ELSE RejectedRow(job[j])]
    /\ tries' = [j \in Jobs |->
                 IF ~Lapsed(j) THEN tries[j]
                 ELSE IF j \in Allowed[w] THEN RecoveredTries(j)
                 ELSE RejectedTries(j)]

-----------------------------------------------------------------------------
(* The run() loop of an incarnation *)

\* A process starts: run() recovers abandoned jobs, then begins a round.
StartWorker(w) ==
    /\ \A s \in SlotsOf(w) : slot[s].pc = "off"
    /\ RecoverAbandoned(w)
    /\ slot' = [s \in Slots |-> IF WorkerOf[s] = w THEN At("armed") ELSE slot[s]]
    /\ UNCHANGED stopped

\* Mutant of NewRound: a round begins as soon as one thread has returned.
NewRoundWithoutBarrier(w) ==
    /\ w \notin stopped
    /\ \E s \in SlotsOf(w) : slot[s].pc = "idle"
    /\ slot' = [s \in Slots |-> IF WorkerOf[s] = w THEN At("armed") ELSE slot[s]]
    /\ UNCHANGED <<job, tries, stopped>>

\* asyncio.gather is a barrier: a round begins when every thread has returned.
NewRound(w) ==
    /\ w \notin stopped
    /\ \A s \in SlotsOf(w) : slot[s].pc = "idle"
    /\ slot' = [s \in Slots |-> IF WorkerOf[s] = w THEN At("armed") ELSE slot[s]]
    /\ UNCHANGED <<job, tries, stopped>>

\* Mutant of RecoverFirst: abandoned jobs are only recovered when run() starts.
RecoverFirstSkipped(s) ==
    /\ slot[s].pc = "armed"
    /\ Goto(s, At("picking"))
    /\ UNCHANGED <<job, tries, stopped>>

\* The transaction of recover_abandoned that acquire_next runs first.
RecoverFirst(s) ==
    /\ slot[s].pc = "armed"
    /\ RecoverAbandoned(WorkerOf[s])
    /\ Goto(s, At("picking"))
    /\ UNCHANGED stopped

Refused(w) == {j \in Jobs : job[j].status \in Waiting /\ j \notin Allowed[w]}

Eligible(w) ==
    {j \in Allowed[w] \intersect Capable[w] :
        /\ \/ job[j].status = "PENDING"
           \/ job[j].status = "RETRY_SCHEDULED" /\ job[j].due
        /\ job[j].attempts < AttemptCap}

LeasedRow(row, w) ==
    [status |-> "RUNNING", worker |-> w, attempts |-> row.attempts + 1,
     lease |-> "live", due |-> TRUE, continues |-> row.continues]

\* The waiting jobs these settings refuse are closed in the same transaction,
\* and job j, if one was selected, is leased and gets a new attempt row.
Dispatch(s, selected) ==
    LET w == WorkerOf[s]
    IN  /\ job' = [i \in Jobs |->
                     IF i \in Refused(w) THEN RejectedRow(job[i])
                     ELSE IF i \in selected
                     THEN LeasedRow(job[i], w)
                     ELSE job[i]]
        /\ tries' = [i \in Jobs |->
                     IF i \in Refused(w) THEN RejectedTries(i)
                     ELSE IF i \in selected
                     THEN [tries[i] EXCEPT ![job[i].attempts + 1] = "RUNNING"]
                     ELSE tries[i]]

\* ORDER BY priority, created_at LIMIT 1.
AcquireNext(s) ==
    LET E == Eligible(WorkerOf[s])
    IN  /\ slot[s].pc = "picking"
        /\ \/ \E j \in E :
                 /\ \A i \in E : j <= i
                 /\ Dispatch(s, {j})
                 /\ Goto(s, Handed(j, job[j].attempts + 1))
           \/ /\ E = {}
              /\ Dispatch(s, {})
              /\ Goto(s, At("idle"))
        /\ UNCHANGED stopped

-----------------------------------------------------------------------------
(* The heartbeat thread of a busy slot *)

Heartbeat(s) ==
    /\ slot[s].pc \in Busy
    /\ slot[s].beat
    /\ IF Owns(s)
       THEN /\ job' = [job EXCEPT ![slot[s].job].lease = "live"]
            /\ UNCHANGED slot
       ELSE /\ slot' = [slot EXCEPT ![s].beat = FALSE]
            /\ UNCHANGED job
    /\ UNCHANGED <<tries, stopped>>

-----------------------------------------------------------------------------
(* How process_once ends *)

\* The context is built, the workspace made and the heartbeat started: the try
\* block begins.
BeginJob(s) ==
    /\ slot[s].pc = "acquired"
    /\ Goto(s, [slot[s] EXCEPT !.pc = "working", !.beat = TRUE])
    /\ UNCHANGED <<job, tries, stopped>>

\* An exception that leaves process_once ends gather, and run() with it, whether
\* the thread still owned its job or not.  Its finally stops the heartbeat.
Escape(s) ==
    /\ Goto(s, Gone(slot[s].job, slot[s].attempt))
    /\ stopped' = stopped \union {WorkerOf[s]}

\* An exception inside the try block is handled, one in the handler escapes.
Raised(s) ==
    IF slot[s].pc \in Handling THEN Escape(s)
    ELSE /\ Goto(s, [slot[s] EXCEPT !.pc = "handling", !.read = 0, !.why = None])
         /\ UNCHANGED stopped

\* checkpoint and retry_or_fail read the job back after their commit, and that
\* read may raise; otherwise process_once returns.
Return(s) ==
    \/ Goto(s, At("idle")) /\ UNCHANGED stopped
    \/ Raised(s)

\* complete(): the job is closed if the caller still owns it, else it raises.  The
\* heartbeat of a closed job has nothing left to renew.
CloseJob(j, status) ==
    /\ job' = [job EXCEPT ![j].status = status, ![j].lease = "null"]
    /\ SetTry(j, job[j].attempts, status)

Complete(s, verdict) ==
    /\ slot[s].pc = "working"
    /\ IF Owns(s)
       THEN /\ CloseJob(slot[s].job, verdict)
            /\ Goto(s, [slot[s] EXCEPT !.pc = "closing", !.beat = FALSE])
            /\ UNCHANGED stopped
       ELSE /\ Raised(s)
            /\ UNCHANGED <<job, tries>>

CheckpointedRow(row) ==
    [row EXCEPT !.status = "RETRY_SCHEDULED", !.worker = None, !.lease = "null",
                !.due = TRUE, !.continues = TRUE]

\* checkpoint(): the window ended productively; the job continues later.
Checkpoint(s) ==
    LET j == slot[s].job
    IN  /\ slot[s].pc = "working"
        /\ job[j].attempts < AttemptCap
        /\ IF Owns(s)
           THEN /\ job' = [job EXCEPT ![j] = CheckpointedRow(job[j])]
                /\ SetTry(j, job[j].attempts, "CHECKPOINTED")
                /\ Return(s)
           ELSE /\ Raised(s)
                /\ UNCHANGED <<job, tries>>

\* What retry_or_fail decides from its unlocked read of the job.  A detected
\* loop is never raised as retryable.
Decide(s, why, retryable, retrying, failing) ==
    LET n == job[slot[s].job].attempts
    IN  /\ IF retryable /\ why # "LOOP_DETECTED" /\ n < MaxAttempts
           THEN Goto(s, [slot[s] EXCEPT !.pc = retrying, !.read = n, !.why = why])
           ELSE Goto(s, [slot[s] EXCEPT !.pc = failing, !.why = why])
        /\ UNCHANGED stopped

\* retry_or_fail called for a TIMED_OUT or FAILED result.
RetryOrFail(s, why, retryable) ==
    /\ slot[s].pc = "working"
    /\ IF Owns(s) THEN Decide(s, why, retryable, "retrying", "failing")
                  ELSE Raised(s)
    /\ UNCHANGED <<job, tries>>

\* The executor, the validation, the persistence or a transaction raised.
Raise(s) ==
    /\ slot[s].pc \in {"working", "retrying", "failing"}
    /\ Raised(s)
    /\ UNCHANGED <<job, tries>>

\* The except block reads the job and gives up quietly if it lost it.
Handle(s) ==
    /\ slot[s].pc = "handling"
    /\ Goto(s, IF Owns(s) THEN [slot[s] EXCEPT !.pc = "rehandling"] ELSE At("idle"))
    /\ UNCHANGED <<job, tries, stopped>>

HandlerRetryOrFail(s, why, retryable) ==
    /\ slot[s].pc = "rehandling"
    /\ IF Owns(s) THEN Decide(s, why, retryable, "reretrying", "refailing")
                  ELSE Raised(s)
    /\ UNCHANGED <<job, tries>>

RetriedRow(row) ==
    [row EXCEPT !.status = "RETRY_SCHEDULED", !.worker = None, !.lease = "null",
                !.due = FALSE, !.continues = FALSE]

\* Mutant of RetryWrite: the UPDATE is not guarded by status and worker_id.
RetryWriteUnguarded(s) ==
    LET j == slot[s].job
    IN  /\ slot[s].pc \in {"retrying", "reretrying"}
        /\ job' = [job EXCEPT ![j] = RetriedRow(job[j])]
        /\ SetTry(j, slot[s].read, slot[s].why)
        /\ Return(s)

\* The writing transaction of retry_or_fail: only the job row is guarded by
\* ownership; the attempt it read is closed whatever has happened since.
RetryWrite(s) ==
    LET j == slot[s].job
    IN  /\ slot[s].pc \in {"retrying", "reretrying"}
        /\ job' = IF Owns(s)
                  THEN [job EXCEPT ![j] = RetriedRow(job[j])]
                  ELSE job
        /\ SetTry(j, slot[s].read, slot[s].why)
        /\ Return(s)

\* retry_or_fail on a final failure calls complete(), which checks again.
FailWrite(s) ==
    /\ slot[s].pc \in {"failing", "refailing"}
    /\ IF Owns(s)
       THEN /\ CloseJob(slot[s].job, slot[s].why)
            /\ Goto(s, [slot[s] EXCEPT !.pc = "closing", !.beat = FALSE])
            /\ UNCHANGED stopped
       ELSE /\ Raised(s)
            /\ UNCHANGED <<job, tries>>

\* The tail after the job is closed: parent reconciliation, materialisation.  An
\* exception in it is handled, and the handler gives up a job that is closed.
EndJob(s) ==
    /\ slot[s].pc = "closing"
    /\ Goto(s, At("idle"))
    /\ UNCHANGED <<job, tries, stopped>>

\* The tail of the handler raises, or the handler of an exception in the tail.
TailRaises(s) ==
    /\ slot[s].pc = "closing"
    /\ Escape(s)
    /\ UNCHANGED <<job, tries>>

-----------------------------------------------------------------------------
(* Time and failures *)

RetryDue(j) ==
    /\ job[j].status = "RETRY_SCHEDULED"
    /\ ~job[j].due
    /\ job' = [job EXCEPT ![j].due = TRUE]
    /\ UNCHANGED <<tries, slot, stopped>>

LeaseExpires(j) ==
    /\ job[j].lease = "live"
    /\ job[j].attempts < AttemptCap
    /\ job' = [job EXCEPT ![j].lease = "expired"]
    /\ UNCHANGED <<tries, slot, stopped>>

\* Bound: an incarnation is left alone in the last attempt a job may have.
Disturbable(w) == \A s \in SlotsOf(w) : slot[s].attempt < AttemptCap

\* The process dies between two transactions.
Crash(w) ==
    /\ Started(w)
    /\ Disturbable(w)
    /\ slot' = [s \in Slots |-> IF WorkerOf[s] = w THEN At("dead") ELSE slot[s]]
    /\ UNCHANGED <<job, tries, stopped>>

\* stop(): no further round begins.
Stop(w) ==
    /\ Started(w)
    /\ Disturbable(w)
    /\ w \notin stopped
    /\ stopped' = stopped \union {w}
    /\ UNCHANGED <<job, tries, slot>>

\* An exception outside the try block: in acquire_next, before or after its
\* commit, in what is prepared for the job, or in the except block itself.  The
\* job it was handed stays RUNNING with a lease that nobody renews.
ProcessRaises(s) ==
    /\ slot[s].pc \in {"armed", "picking", "acquired"} \union Handling
    /\ Disturbable(WorkerOf[s])
    /\ Escape(s)
    /\ UNCHANGED <<job, tries>>

\* _repair_event_projection_failure, part of every migrate_database call: a job
\* that failed after its claims were persisted and read back, only because they
\* lacked an event_key, is relabelled; the attempt row keeps the failure.
RepairedRow(j, status) ==
    IF j \in Misprojected /\ job[j].status = "FAILED"
    THEN [job[j] EXCEPT !.status = status] ELSE job[j]

RepairProjections ==
    \E status \in [Misprojected -> {"FAILED", "SUCCEEDED", "PARTIAL"}] :
        /\ job' = [j \in Jobs |-> RepairedRow(j, status[j])]
        /\ UNCHANGED <<tries, slot, stopped>>

-----------------------------------------------------------------------------

Execution(s) ==
    \/ BeginJob(s)
    \/ \E v \in Verdicts : Complete(s, v)
    \/ Checkpoint(s)
    \/ \E why \in FailKinds, retryable \in BOOLEAN : RetryOrFail(s, why, retryable)
    \/ Raise(s)
    \/ Handle(s)
    \/ \E why \in FailKinds, retryable \in BOOLEAN : HandlerRetryOrFail(s, why, retryable)
    \/ RetryWrite(s)
    \/ FailWrite(s)
    \/ EndJob(s)
    \/ TailRaises(s)

SlotStep(s) == RecoverFirst(s) \/ AcquireNext(s) \/ Execution(s)

Next ==
    \/ \E w \in Workers, j \in Jobs : Enqueue(w, j)
    \/ \E w \in Workers : StartWorker(w) \/ NewRound(w) \/ Crash(w) \/ Stop(w)
    \/ \E s \in Slots : SlotStep(s) \/ Heartbeat(s) \/ ProcessRaises(s)
    \/ \E j \in Jobs : RetryDue(j) \/ LeaseExpires(j)
    \/ RepairProjections

Spec == Init /\ [][Next]_vars

\* Threads run, rounds follow each other, delays pass, and a lease that no
\* live slot renews runs out.
Unattended(j) ==
    \A s \in Slots : ~(slot[s].job = j /\ slot[s].pc \in Busy)

Fairness ==
    /\ \A w \in Workers : WF_vars(StartWorker(w)) /\ WF_vars(NewRound(w))
    /\ \A s \in Slots : WF_vars(SlotStep(s))
    /\ \A j \in Jobs : /\ WF_vars(RetryDue(j))
                       /\ WF_vars(Unattended(j) /\ LeaseExpires(j))

FairSpec == Spec /\ Fairness

-----------------------------------------------------------------------------
(* Properties *)

TypeOK ==
    /\ job \in [Jobs -> JobRow]
    /\ tries \in [Jobs -> [1 .. AttemptCap -> AttemptStatus]]
    /\ slot \in [Slots -> SlotState]
    /\ stopped \in SUBSET Workers

\* enqueue promises that work of one scope is never duplicated: two active jobs
\* never share a scope_key, although a scope may be enqueued again once closed.
OneActivePerScope ==
    \A i, j \in Jobs :
        Scope[i] = Scope[j] /\ job[i].status \in Active /\ job[j].status \in Active
            => i = j

\* The migration calls a job that failed for want of an event_key a success.
Relabelled(j, status) ==
    /\ j \in Misprojected
    /\ job[j].status = "FAILED"
    /\ status \in {"SUCCEEDED", "PARTIAL"}

\* A terminal status is final: no late retry, recovery, checkpoint or rejection
\* reopens or relabels a closed job, and the migration relabels once, a failure it
\* may repair as a success.
TerminalIsFinal ==
    [][\A j \in Jobs : job[j].status \in Terminal =>
          job'[j].status = job[j].status \/ Relabelled(j, job'[j].status)]_vars

\* The ledger agrees with the job: a RUNNING job has exactly its latest attempt
\* open, and a job that is waiting or closed has none open.
LedgerAgrees ==
    \A j \in Jobs : \A n \in 1 .. AttemptCap :
        tries[j][n] = "RUNNING" <=> (job[j].status = "RUNNING" /\ n = job[j].attempts)

\* max_attempts is spent only once: a job that waits again after using them all
\* waits as a technical continuation, never as an ordinary retry.
ExhaustedOnlyContinues ==
    \A j \in Jobs :
        job[j].status \in Waiting /\ job[j].attempts >= MaxAttempts => job[j].continues

\* The ledger's last row carries the verdict of the job, or the failure that the
\* migration has since called a success.
VerdictRecorded(j, n) ==
    \/ tries[j][n] = job[j].status
    \/ /\ j \in Misprojected
       /\ tries[j][n] = "FAILED"
       /\ job[j].status \in {"SUCCEEDED", "PARTIAL"}

\* Fencing: the thread that closed a job closed the attempt it was handed, and
\* the ledger's last row carries the verdict of the job.
ClosedByLatest ==
    \A s \in Slots : slot[s].pc = "closing" =>
        /\ slot[s].attempt = job[slot[s].job].attempts
        /\ VerdictRecorded(slot[s].job, slot[s].attempt)

\* A RUNNING job is in the hands of a thread of its incarnation that works on its
\* current attempt, unless the process died or that very thread's process_once
\* raised: then run() has ended too, and no sibling or new round can forget a job.
OrphanedOnlyByExit ==
    \A j \in Jobs : job[j].status = "RUNNING" =>
        \/ \A s \in SlotsOf(job[j].worker) : slot[s].pc = "dead"
        \/ \E s \in SlotsOf(job[j].worker) :
              /\ slot[s].job = j
              /\ slot[s].attempt = job[j].attempts
              /\ \/ slot[s].pc \in Busy \ {"closing"}
                 \/ slot[s].pc = "raised" /\ job[j].worker \in stopped

Ended(w) == w \in stopped \/ \A s \in SlotsOf(w) : slot[s].pc = "dead"

\* Every accepted job is eventually closed, through crashes, lost leases, retries
\* and continuations, unless run() has ended in every incarnation there is.
EveryJobCloses ==
    \A j \in Jobs : job[j].status \in Active
        ~> (job[j].status \in Terminal \/ \A w \in Workers : Ended(w))

\* Documented (persistent-ai-and-temporal-architecture.md:201): after a transient
\* failure the job is RETRY_SCHEDULED and its current attempt is terminal.
RetryLeavesAttemptTerminal ==
    \A j \in Jobs : job[j].status = "RETRY_SCHEDULED"
        => tries[j][job[j].attempts] # "RUNNING"
=============================================================================
