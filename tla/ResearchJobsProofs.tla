-------------------------- MODULE ResearchJobsProofs --------------------------
(***************************************************************************)
(* Proofs about ResearchJobs, for every set of requests, incarnations and  *)
(* threads, every settings assignment and every MaxAttempts; and, from the *)
(* second half on, about ParentResearch, which composes the queue with the *)
(* runs and the parent: the composition takes the steps of the queue, so   *)
(* the invariants of the first half carry over to it.                      *)
(***************************************************************************)
EXTENDS ParentResearch, FiniteSetTheorems, TLAPS

\* Where a thread is about to write what retry_or_fail has decided.
Deciding == {"retrying", "reretrying", "failing", "refailing"}

\* What TypeOK needs to be inductive: a busy thread holds a job it was handed in
\* a numbered attempt, and one about to write a failure knows its kind.
ThreadCoherent ==
    \A s \in Slots :
        /\ slot[s].pc \in Busy => slot[s].job \in Jobs /\ slot[s].attempt > 0
        /\ slot[s].pc \in Deciding => slot[s].why \in FailKinds

TypeInv == TypeOK /\ ThreadCoherent

USE JobsAssumption, WorkerAssumption, SettingsAssumption, StatusAssumption,
    AttemptsAssumption

\* Assigning one status to one attempt row keeps the ledger's type.
LEMMA SetTryType ==
    ASSUME TypeOK, NEW j \in Jobs, NEW n, NEW status \in AttemptStatus,
           SetTry(j, n, status)
    PROVE  tries' \in [Jobs -> [1 .. AttemptCap -> AttemptStatus]]
  BY DEF TypeOK, SetTry

\* Sending a thread to a state that is coherent keeps every thread coherent.
LEMMA GotoCoherent ==
    ASSUME TypeInv, NEW s \in Slots, NEW state \in SlotState, Goto(s, state),
           state.pc \in Busy => state.job \in Jobs /\ state.attempt > 0,
           state.pc \in Deciding => state.why \in FailKinds
    PROVE  slot' \in [Slots -> SlotState] /\ ThreadCoherent'
  BY DEF TypeInv, TypeOK, Goto, ThreadCoherent

\* The states of a thread between two jobs are coherent.
LEMMA AtType ==
    ASSUME NEW pc \in {"off", "idle", "armed", "picking", "raised", "dead"}
    PROVE  At(pc) \in SlotState /\ At(pc).pc = pc /\ pc \notin Busy
  BY DEF At, SlotState, Busy, Handling

\* So is the state of a thread that was just handed a job.
LEMMA HandedType ==
    ASSUME NEW j \in Jobs, NEW n \in 1 .. AttemptCap
    PROVE  /\ Handed(j, n) \in SlotState
           /\ Handed(j, n).pc = "acquired" /\ Handed(j, n).job = j
           /\ Handed(j, n).attempt > 0
  BY DEF Handed, SlotState, Busy

\* A thread that raised keeps the job and the attempt it leaves behind.
LEMMA EscapeType ==
    ASSUME TypeInv, NEW s \in Slots, Escape(s)
    PROVE  /\ slot' \in [Slots -> SlotState] /\ ThreadCoherent'
           /\ stopped' \in SUBSET Workers
  <1> DEFINE gone == Gone(slot[s].job, slot[s].attempt)
  <1>1. slot[s].job \in Jobs \union {None} /\ slot[s].attempt \in 0 .. AttemptCap
    BY DEF TypeInv, TypeOK, SlotState
  <1>2. gone \in SlotState /\ gone.pc = "raised"
    BY <1>1 DEF Gone, SlotState
  <1>3. gone.pc \notin Busy /\ gone.pc \notin Deciding
    BY <1>2 DEF Busy, Handling, Deciding
  <1>4. Goto(s, gone) /\ stopped' = stopped \union {WorkerOf[s]}
    BY DEF Escape
  <1> HIDE DEF gone
  <1>5. slot' \in [Slots -> SlotState] /\ ThreadCoherent'
    BY <1>2, <1>3, <1>4, GotoCoherent
  <1> QED
    BY <1>4, <1>5 DEF TypeInv, TypeOK

\* An exception leaves every thread coherent, handled or not.
LEMMA RaisedType ==
    ASSUME TypeInv, NEW s \in Slots, slot[s].pc \in Busy, Raised(s)
    PROVE  /\ slot' \in [Slots -> SlotState] /\ ThreadCoherent'
           /\ stopped' \in SUBSET Workers
  <1>1. CASE slot[s].pc \in Handling
    BY <1>1, EscapeType DEF Raised
  <1>2. CASE slot[s].pc \notin Handling
    <2> DEFINE caught == [slot[s] EXCEPT !.pc = "handling", !.read = 0, !.why = None]
    <2>1. slot[s] \in SlotState /\ slot[s].job \in Jobs /\ slot[s].attempt > 0
      BY DEF TypeInv, TypeOK, ThreadCoherent
    <2>2. /\ caught \in SlotState /\ caught.pc = "handling"
          /\ caught.job = slot[s].job /\ caught.attempt = slot[s].attempt
      <3>1. "handling" \in Busy /\ 0 \in 0 .. AttemptCap
        BY DEF Busy, Handling
      <3>2. \A state \in SlotState :
              LET c == [state EXCEPT !.pc = "handling", !.read = 0, !.why = None]
              IN  /\ c \in SlotState /\ c.pc = "handling"
                  /\ c.job = state.job /\ c.attempt = state.attempt
        BY <3>1 DEF SlotState
      <3> QED
        BY <2>1, <3>2, Zenon
    <2>3. caught.pc \notin Deciding
      BY <2>2 DEF Deciding
    <2>4. Goto(s, caught) /\ UNCHANGED stopped
      BY <1>2 DEF Raised
    <2> HIDE DEF caught
    <2>5. slot' \in [Slots -> SlotState] /\ ThreadCoherent'
      BY <2>1, <2>2, <2>3, <2>4, GotoCoherent
    <2> QED
      BY <2>4, <2>5 DEF TypeInv, TypeOK
  <1> QED
    BY <1>1, <1>2

\* So does the return from process_once, whether its last read raises or not.
LEMMA ReturnType ==
    ASSUME TypeInv, NEW s \in Slots, slot[s].pc \in Busy, Return(s)
    PROVE  /\ slot' \in [Slots -> SlotState] /\ ThreadCoherent'
           /\ stopped' \in SUBSET Workers
  <1>1. CASE Goto(s, At("idle")) /\ UNCHANGED stopped
    <2>1. slot' \in [Slots -> SlotState] /\ ThreadCoherent'
      BY <1>1, AtType, GotoCoherent DEF Deciding
    <2> QED
      BY <1>1, <2>1 DEF TypeInv, TypeOK
  <1>2. CASE Raised(s)
    BY <1>2, RaisedType
  <1> QED
    BY <1>1, <1>2 DEF Return

\* What recover_abandoned leaves behind is well typed, for requeued, failed and
\* rejected jobs alike.
LEMMA RecoverType ==
    ASSUME TypeOK, NEW w \in Workers, RecoverAbandoned(w)
    PROVE  /\ job' \in [Jobs -> JobRow]
           /\ tries' \in [Jobs -> [1 .. AttemptCap -> AttemptStatus]]
  <1>1. \A row \in JobRow : RecoveredRow(row) \in JobRow /\ RejectedRow(row) \in JobRow
    <2> SUFFICES ASSUME NEW row \in JobRow
                 PROVE  RecoveredRow(row) \in JobRow /\ RejectedRow(row) \in JobRow
      OBVIOUS
    <2>1. {"REJECTED", "FAILED", "RETRY_SCHEDULED"} \subseteq Active \union Terminal \union {"ABSENT"}
      BY DEF Active, Waiting, Terminal
    <2>2. RecoveredRow(row) \in JobRow
      BY <2>1 DEF JobRow, RecoveredRow
    <2>3. RejectedRow(row) \in JobRow
      BY <2>1 DEF JobRow, RejectedRow
    <2> QED
      BY <2>2, <2>3
  <1>2. \A j \in Jobs : /\ RecoveredTries(j) \in [1 .. AttemptCap -> AttemptStatus]
                        /\ RejectedTries(j) \in [1 .. AttemptCap -> AttemptStatus]
    BY DEF TypeOK, RecoveredTries, RejectedTries, AttemptStatus, Terminal
  <1> QED
    BY <1>1, <1>2 DEF TypeOK, RecoverAbandoned

\* A leased row is well typed as long as the attempt it starts is within the cap.
LEMMA LeasedRowType ==
    ASSUME NEW row \in JobRow, NEW w \in Workers, row.attempts + 1 \in 1 .. AttemptCap
    PROVE  LeasedRow(row, w) \in JobRow
  <1>2. row.attempts + 1 \in 0 .. AttemptCap /\ row.continues \in BOOLEAN
    BY DEF JobRow
  <1> QED
    BY <1>2 DEF LeasedRow, JobRow, Active

\* The dispatching transaction keeps the rows and the ledger well typed.
LEMMA DispatchType ==
    ASSUME TypeOK, NEW s \in Slots, NEW S \in SUBSET Eligible(WorkerOf[s]),
           Dispatch(s, S)
    PROVE  /\ job' \in [Jobs -> JobRow]
           /\ tries' \in [Jobs -> [1 .. AttemptCap -> AttemptStatus]]
  <1>1. \A row \in JobRow : RejectedRow(row) \in JobRow
    BY DEF JobRow, RejectedRow, Active, Waiting, Terminal
  <1>2. \A j \in Jobs : RejectedTries(j) \in [1 .. AttemptCap -> AttemptStatus]
    BY DEF TypeOK, RejectedTries, AttemptStatus, Terminal
  <1>2a. S \subseteq Jobs /\ WorkerOf[s] \in Workers
    BY DEF Eligible
  <1>3. \A j \in S : job[j].attempts + 1 \in 1 .. AttemptCap
    BY <1>2a DEF TypeOK, JobRow, Eligible
  <1>3a. \A j \in S : LeasedRow(job[j], WorkerOf[s]) \in JobRow
    BY <1>2a, <1>3, LeasedRowType DEF TypeOK
  <1>4. job' \in [Jobs -> JobRow]
    BY <1>1, <1>3a DEF TypeOK, Dispatch
  <1>5. tries' \in [Jobs -> [1 .. AttemptCap -> AttemptStatus]]
    BY <1>2, <1>2a, <1>3 DEF TypeOK, Dispatch, AttemptStatus
  <1> QED
    BY <1>4, <1>5

\* The empty queue satisfies the invariant.
LEMMA InitType == Init => TypeInv
  BY DEF Init, TypeInv, TypeOK, ThreadCoherent, Absent, At, JobRow, SlotState,
         AttemptStatus, Active, Waiting, Terminal, Busy, Handling, Deciding

-----------------------------------------------------------------------------
(* Every step preserves TypeInv; one lemma per group of actions *)

\* The steps of the run() loop, from starting a worker to leasing a job, preserve it.
LEMMA LoopType ==
    ASSUME TypeInv
    PROVE  /\ \A w \in Workers, j \in Jobs : Enqueue(w, j) => TypeInv'
           /\ \A w \in Workers :
                StartWorker(w) \/ NewRound(w) \/ Crash(w) \/ Stop(w) => TypeInv'
           /\ \A s \in Slots :
                RecoverFirst(s) \/ AcquireNext(s) \/ ProcessRaises(s) => TypeInv'
  <1> USE DEF TypeInv
  <1>1. ASSUME NEW w \in Workers, NEW j \in Jobs, Enqueue(w, j)
        PROVE  TypeInv'
    <2>1. \A row \in JobRow : [row EXCEPT !.status = "PENDING"] \in JobRow
      BY DEF JobRow, Active, Waiting
    <2>2. job' \in [Jobs -> JobRow]
      BY <1>1, <2>1 DEF Enqueue, TypeOK
    <2> QED
      BY <1>1, <2>2 DEF Enqueue, TypeOK, ThreadCoherent
  <1>2. ASSUME NEW w \in Workers, StartWorker(w)
        PROVE  TypeInv'
    <2>1. /\ job' \in [Jobs -> JobRow]
          /\ tries' \in [Jobs -> [1 .. AttemptCap -> AttemptStatus]]
      BY <1>2, RecoverType DEF StartWorker
    <2>2. slot' \in [Slots -> SlotState] /\ ThreadCoherent'
      BY <1>2, AtType DEF StartWorker, TypeOK, ThreadCoherent, Busy, Handling, Deciding
    <2> QED
      BY <1>2, <2>1, <2>2 DEF StartWorker, TypeOK
  <1>3. ASSUME NEW w \in Workers, NewRound(w) \/ Crash(w)
        PROVE  TypeInv'
    <2>1. slot' \in [Slots -> SlotState] /\ ThreadCoherent'
      BY <1>3, AtType DEF NewRound, Crash, TypeOK, ThreadCoherent, Busy, Handling, Deciding
    <2> QED
      BY <1>3, <2>1 DEF NewRound, Crash, TypeOK
  <1>4. ASSUME NEW w \in Workers, Stop(w)
        PROVE  TypeInv'
    BY <1>4 DEF Stop, TypeOK, ThreadCoherent
  <1>5. ASSUME NEW s \in Slots, RecoverFirst(s)
        PROVE  TypeInv'
    <2>1. /\ job' \in [Jobs -> JobRow]
          /\ tries' \in [Jobs -> [1 .. AttemptCap -> AttemptStatus]]
      BY <1>5, RecoverType DEF RecoverFirst
    <2>2. slot' \in [Slots -> SlotState] /\ ThreadCoherent'
      BY <1>5, AtType, GotoCoherent DEF RecoverFirst, Deciding
    <2> QED
      BY <1>5, <2>1, <2>2 DEF RecoverFirst, TypeOK
  <1>6. ASSUME NEW s \in Slots, AcquireNext(s)
        PROVE  TypeInv'
    <2> DEFINE E == Eligible(WorkerOf[s])
    <2>1. CASE \E j \in E : /\ Dispatch(s, {j})
                            /\ Goto(s, Handed(j, job[j].attempts + 1))
      <3>1. PICK j \in E : /\ Dispatch(s, {j})
                           /\ Goto(s, Handed(j, job[j].attempts + 1))
        BY <2>1
      <3>2. j \in Jobs /\ job[j].attempts + 1 \in 1 .. AttemptCap
        BY DEF Eligible, TypeOK, JobRow
      <3>3. /\ job' \in [Jobs -> JobRow]
            /\ tries' \in [Jobs -> [1 .. AttemptCap -> AttemptStatus]]
        BY <3>1, DispatchType
      <3>4. slot' \in [Slots -> SlotState] /\ ThreadCoherent'
        BY <3>1, <3>2, HandedType, GotoCoherent DEF Deciding
      <3> QED
        BY <1>6, <3>3, <3>4 DEF AcquireNext, TypeOK
    <2>2. CASE Dispatch(s, {}) /\ Goto(s, At("idle"))
      <3>1. /\ job' \in [Jobs -> JobRow]
            /\ tries' \in [Jobs -> [1 .. AttemptCap -> AttemptStatus]]
        BY <2>2, DispatchType
      <3>2. slot' \in [Slots -> SlotState] /\ ThreadCoherent'
        BY <2>2, AtType, GotoCoherent DEF Deciding
      <3> QED
        BY <1>6, <3>1, <3>2 DEF AcquireNext, TypeOK
    <2> QED
      BY <1>6, <2>1, <2>2 DEF AcquireNext
  <1>7. ASSUME NEW s \in Slots, ProcessRaises(s)
        PROVE  TypeInv'
    BY <1>7, EscapeType DEF ProcessRaises, TypeOK
  <1> QED
    BY <1>1, <1>2, <1>3, <1>4, <1>5, <1>6, <1>7

\* A busy thread that moves on inside process_once keeps the job it was handed.
LEMMA MovedType ==
    ASSUME NEW state \in SlotState, NEW pc \in Busy
    PROVE  LET moved == [state EXCEPT !.pc = pc]
           IN  /\ moved \in SlotState
               /\ moved.pc = pc /\ moved.job = state.job
               /\ moved.attempt = state.attempt /\ moved.why = state.why
  BY DEF SlotState

\* So a thread that only moves on preserves the invariant.
LEMMA MoveCoherent ==
    ASSUME TypeInv, NEW s \in Slots, slot[s].pc \in Busy,
           NEW pc \in {"working", "rehandling", "closing"}, NEW beat \in BOOLEAN,
           Goto(s, [slot[s] EXCEPT !.pc = pc, !.beat = beat])
    PROVE  slot' \in [Slots -> SlotState] /\ ThreadCoherent'
  <1>1. /\ slot[s] \in SlotState
        /\ slot[s].job \in Jobs /\ slot[s].attempt > 0
        /\ pc \in Busy /\ pc \notin Deciding
    BY DEF TypeInv, TypeOK, ThreadCoherent, Busy, Handling, Deciding
  <1> DEFINE moved == [slot[s] EXCEPT !.pc = pc, !.beat = beat]
  <1>2. /\ moved \in SlotState /\ moved.pc = pc
        /\ moved.job = slot[s].job /\ moved.attempt = slot[s].attempt
    BY <1>1 DEF SlotState
  <1>3. Goto(s, moved)
    OBVIOUS
  <1> HIDE DEF moved
  <1> QED
    BY <1>1, <1>2, <1>3, GotoCoherent

\* Both outcomes of the decision in retry_or_fail preserve the invariant.
LEMMA DecideCoherent ==
    ASSUME TypeInv, NEW s \in Slots, slot[s].pc \in Busy, NEW why \in FailKinds,
           NEW retryable \in BOOLEAN, NEW retrying \in {"retrying", "reretrying"},
           NEW failing \in {"failing", "refailing"},
           Decide(s, why, retryable, retrying, failing)
    PROVE  /\ slot' \in [Slots -> SlotState] /\ ThreadCoherent'
           /\ stopped' \in SUBSET Workers
  <1> DEFINE n == job[slot[s].job].attempts
  <1>1. /\ slot[s] \in SlotState
        /\ slot[s].job \in Jobs /\ slot[s].attempt > 0
        /\ n \in 0 .. AttemptCap
        /\ retrying \in Busy /\ failing \in Busy
    BY DEF TypeInv, TypeOK, ThreadCoherent, JobRow, Busy, Handling
  <1> HIDE DEF n
  <1>2. \A state \in SlotState :
          LET decided == [state EXCEPT !.pc = retrying, !.read = n, !.why = why]
          IN  /\ decided \in SlotState
              /\ decided.job = state.job /\ decided.attempt = state.attempt
              /\ decided.why = why
    BY <1>1 DEF SlotState
  <1>3. \A state \in SlotState :
          LET decided == [state EXCEPT !.pc = failing, !.why = why]
          IN  /\ decided \in SlotState
              /\ decided.job = state.job /\ decided.attempt = state.attempt
              /\ decided.why = why
    BY <1>1 DEF SlotState
  <1> DEFINE retried == [slot[s] EXCEPT !.pc = retrying, !.read = n, !.why = why]
             failed == [slot[s] EXCEPT !.pc = failing, !.why = why]
  <1>4. /\ retried \in SlotState
        /\ retried.job = slot[s].job /\ retried.attempt = slot[s].attempt
        /\ retried.why = why
    BY <1>1, <1>2, Zenon
  <1>5. /\ failed \in SlotState
        /\ failed.job = slot[s].job /\ failed.attempt = slot[s].attempt
        /\ failed.why = why
    BY <1>1, <1>3, Zenon
  <1>6. /\ Goto(s, retried) \/ Goto(s, failed)
        /\ stopped' \in SUBSET Workers
    BY DEF Decide, TypeInv, TypeOK, n
  <1> HIDE DEF retried, failed
  <1> QED
    BY <1>1, <1>4, <1>5, <1>6, GotoCoherent

\* complete() preserves the types of the rows and of the ledger.
LEMMA CloseType ==
    ASSUME TypeOK, NEW j \in Jobs, NEW status \in Terminal, CloseJob(j, status)
    PROVE  /\ job' \in [Jobs -> JobRow]
           /\ tries' \in [Jobs -> [1 .. AttemptCap -> AttemptStatus]]
  <1>1. \A row \in JobRow :
          [row EXCEPT !.status = status, !.lease = "null"] \in JobRow
    BY DEF JobRow
  <1>2. job' = [job EXCEPT ![j] = [job[j] EXCEPT !.status = status, !.lease = "null"]]
    BY DEF CloseJob, TypeOK
  <1>3. job' \in [Jobs -> JobRow]
    BY <1>1, <1>2 DEF TypeOK
  <1>4. tries' \in [Jobs -> [1 .. AttemptCap -> AttemptStatus]]
    BY SetTryType DEF CloseJob, AttemptStatus
  <1> QED
    BY <1>3, <1>4

\* Every step of a busy thread preserves the invariant.
LEMMA ExecutionType ==
    ASSUME TypeInv, NEW s \in Slots
    PROVE  Execution(s) => TypeInv'
  <1> USE DEF TypeInv
  <1>b. /\ {"acquired", "working", "retrying", "failing", "closing", "handling",
            "rehandling", "reretrying", "refailing"} \subseteq Busy
        /\ slot[s].pc \in Busy => slot[s].job \in Jobs
        /\ slot[s] \in SlotState
    BY DEF ThreadCoherent, TypeOK, Busy, Handling
  <1>r. ASSUME slot[s].pc \in Busy, Raised(s), UNCHANGED <<job, tries>>
        PROVE  TypeInv'
    BY <1>r, RaisedType DEF TypeOK
  <1>0. ASSUME BeginJob(s)
        PROVE  TypeInv'
    <2>1. slot' \in [Slots -> SlotState] /\ ThreadCoherent'
      BY <1>0, <1>b, MoveCoherent DEF BeginJob
    <2> QED
      BY <1>0, <2>1 DEF BeginJob, TypeOK
  <1>1. ASSUME NEW v \in Verdicts, Complete(s, v)
        PROVE  TypeInv'
    <2>1. CASE Owns(s)
      <3>1. CloseJob(slot[s].job, v) /\ v \in Terminal /\ slot[s].job \in Jobs
        BY <1>1, <2>1, <1>b DEF Complete, Terminal
      <3>2. /\ job' \in [Jobs -> JobRow]
            /\ tries' \in [Jobs -> [1 .. AttemptCap -> AttemptStatus]]
        BY <3>1, CloseType
      <3>3. slot' \in [Slots -> SlotState] /\ ThreadCoherent'
        BY <1>1, <2>1, <1>b, MoveCoherent DEF Complete
      <3> QED
        BY <1>1, <2>1, <3>2, <3>3 DEF Complete, TypeOK
    <2>2. CASE ~Owns(s)
      BY <1>1, <1>b, <1>r, <2>2 DEF Complete
    <2> QED
      BY <2>1, <2>2
  <1>2. ASSUME Checkpoint(s)
        PROVE  TypeInv'
    <2> DEFINE j == slot[s].job
    <2>1. CASE Owns(s)
      <3>1. /\ slot' \in [Slots -> SlotState] /\ ThreadCoherent'
            /\ stopped' \in SUBSET Workers
        BY <1>2, <1>b, <2>1, ReturnType DEF Checkpoint
      <3>2. j \in Jobs /\ SetTry(j, job[j].attempts, "CHECKPOINTED")
        BY <1>2, <2>1, <1>b DEF Checkpoint
      <3>3. tries' \in [Jobs -> [1 .. AttemptCap -> AttemptStatus]]
        BY <3>2, SetTryType DEF AttemptStatus
      <3>4. \A row \in JobRow : CheckpointedRow(row) \in JobRow
        BY DEF CheckpointedRow, JobRow, Active, Waiting
      <3>5. job' = [job EXCEPT ![j] = CheckpointedRow(job[j])]
        BY <1>2, <2>1 DEF Checkpoint
      <3>6. job' \in [Jobs -> JobRow]
        BY <3>2, <3>4, <3>5 DEF TypeOK
      <3> QED
        BY <3>1, <3>3, <3>6 DEF TypeOK
    <2>2. CASE ~Owns(s)
      BY <1>2, <1>b, <1>r, <2>2 DEF Checkpoint
    <2> QED
      BY <2>1, <2>2
  <1>3. ASSUME NEW why \in FailKinds, NEW retryable \in BOOLEAN,
               \/ RetryOrFail(s, why, retryable)
               \/ HandlerRetryOrFail(s, why, retryable)
        PROVE  TypeInv'
    <2>1. slot[s].pc \in Busy /\ UNCHANGED <<job, tries>>
      BY <1>3, <1>b DEF RetryOrFail, HandlerRetryOrFail
    <2>2. CASE Owns(s)
      <3>1. \/ Decide(s, why, retryable, "retrying", "failing")
            \/ Decide(s, why, retryable, "reretrying", "refailing")
        BY <1>3, <2>2 DEF RetryOrFail, HandlerRetryOrFail
      <3>2. /\ slot' \in [Slots -> SlotState] /\ ThreadCoherent'
            /\ stopped' \in SUBSET Workers
        BY <2>1, <3>1, DecideCoherent
      <3> QED
        BY <2>1, <3>2 DEF TypeOK
    <2>3. CASE ~Owns(s)
      BY <1>3, <1>r, <2>1, <2>3 DEF RetryOrFail, HandlerRetryOrFail
    <2> QED
      BY <2>2, <2>3
  <1>4. ASSUME Raise(s)
        PROVE  TypeInv'
    BY <1>4, <1>b, <1>r DEF Raise
  <1>5. ASSUME Handle(s)
        PROVE  TypeInv'
    <2>1. CASE Owns(s)
      <3>1. Goto(s, [slot[s] EXCEPT !.pc = "rehandling"])
        BY <1>5, <2>1 DEF Handle
      <3>2. \A state \in SlotState :
              [state EXCEPT !.pc = "rehandling"]
                = [state EXCEPT !.pc = "rehandling", !.beat = state.beat]
        BY DEF SlotState
      <3>3. slot[s].beat \in BOOLEAN /\ slot[s].pc \in Busy
        BY <1>5, <1>b DEF SlotState, Handle
      <3>4. slot' \in [Slots -> SlotState] /\ ThreadCoherent'
        BY <1>b, <3>1, <3>2, <3>3, MoveCoherent
      <3> QED
        BY <1>5, <3>4 DEF Handle, TypeOK
    <2>2. CASE ~Owns(s)
      <3>1. slot' \in [Slots -> SlotState] /\ ThreadCoherent'
        BY <1>5, <2>2, AtType, GotoCoherent DEF Handle, Deciding
      <3> QED
        BY <1>5, <3>1 DEF Handle, TypeOK
    <2> QED
      BY <2>1, <2>2
  <1>7. ASSUME RetryWrite(s)
        PROVE  TypeInv'
    <2> DEFINE j == slot[s].job
    <2>0. slot[s].pc \in Busy /\ slot[s].pc \in Deciding
      BY <1>7, <1>b DEF RetryWrite, Deciding
    <2>1. /\ slot' \in [Slots -> SlotState] /\ ThreadCoherent'
          /\ stopped' \in SUBSET Workers
      BY <1>7, <2>0, ReturnType DEF RetryWrite
    <2>2. j \in Jobs /\ slot[s].why \in AttemptStatus
      BY <2>0, <1>b DEF ThreadCoherent, AttemptStatus, Terminal
    <2>3. tries' \in [Jobs -> [1 .. AttemptCap -> AttemptStatus]]
      BY <1>7, <2>2, SetTryType DEF RetryWrite
    <2>4. \A row \in JobRow : RetriedRow(row) \in JobRow
      BY DEF RetriedRow, JobRow, Active, Waiting
    <2>5. CASE Owns(s)
      <3>1. job' \in [Jobs -> JobRow]
        BY <1>7, <2>2, <2>4, <2>5 DEF RetryWrite, TypeOK
      <3> QED
        BY <2>1, <2>3, <3>1 DEF TypeOK
    <2>6. CASE ~Owns(s)
      BY <1>7, <2>1, <2>3, <2>6 DEF RetryWrite, TypeOK
    <2> QED
      BY <2>5, <2>6
  <1>8. ASSUME FailWrite(s)
        PROVE  TypeInv'
    <2>0. slot[s].pc \in Busy /\ slot[s].pc \in Deciding
      BY <1>8, <1>b DEF FailWrite, Deciding
    <2>1. CASE Owns(s)
      <3>1. /\ CloseJob(slot[s].job, slot[s].why) /\ slot[s].why \in Terminal
            /\ slot[s].job \in Jobs
        BY <1>8, <2>0, <2>1, <1>b DEF FailWrite, ThreadCoherent, Terminal
      <3>2. /\ job' \in [Jobs -> JobRow]
            /\ tries' \in [Jobs -> [1 .. AttemptCap -> AttemptStatus]]
        BY <3>1, CloseType
      <3>3. slot' \in [Slots -> SlotState] /\ ThreadCoherent'
        BY <1>8, <2>0, <2>1, MoveCoherent DEF FailWrite
      <3> QED
        BY <1>8, <2>1, <3>2, <3>3 DEF FailWrite, TypeOK
    <2>2. CASE ~Owns(s)
      BY <1>8, <1>r, <2>0, <2>2 DEF FailWrite
    <2> QED
      BY <2>1, <2>2
  <1>9. ASSUME EndJob(s)
        PROVE  TypeInv'
    <2>1. slot' \in [Slots -> SlotState] /\ ThreadCoherent'
      BY <1>9, AtType, GotoCoherent DEF EndJob, Deciding
    <2> QED
      BY <1>9, <2>1 DEF EndJob, TypeOK
  <1>10. ASSUME TailRaises(s)
         PROVE  TypeInv'
    BY <1>10, EscapeType DEF TailRaises, TypeOK
  <1> QED
    BY <1>0, <1>1, <1>2, <1>3, <1>4, <1>5, <1>7, <1>8, <1>9, <1>10 DEF Execution

\* Producers, heartbeats, the clock and crashes preserve the invariant.
LEMMA EnvironmentType ==
    ASSUME TypeInv
    PROVE  /\ \A s \in Slots : Heartbeat(s) => TypeInv'
           /\ \A j \in Jobs : RetryDue(j) \/ LeaseExpires(j) => TypeInv'
           /\ RepairProjections => TypeInv'
  <1> USE DEF TypeInv
  <1>1. ASSUME NEW s \in Slots, Heartbeat(s)
        PROVE  TypeInv'
    <2>1. slot[s] \in SlotState /\ slot[s].job \in Jobs /\ slot[s].attempt > 0
      BY <1>1 DEF Heartbeat, TypeOK, ThreadCoherent
    <2>2. \A row \in JobRow : [row EXCEPT !.lease = "live"] \in JobRow
      BY DEF JobRow
    <2>3. \A state \in SlotState :
            /\ [state EXCEPT !.beat = FALSE] \in SlotState
            /\ [state EXCEPT !.beat = FALSE].pc = state.pc
            /\ [state EXCEPT !.beat = FALSE].job = state.job
            /\ [state EXCEPT !.beat = FALSE].attempt = state.attempt
            /\ [state EXCEPT !.beat = FALSE].why = state.why
      BY DEF SlotState
    <2>4. CASE Owns(s)
      <3>1. job' = [job EXCEPT ![slot[s].job] = [job[slot[s].job] EXCEPT !.lease = "live"]]
        BY <1>1, <2>1, <2>4 DEF Heartbeat, TypeOK
      <3>2. job' \in [Jobs -> JobRow]
        BY <2>1, <2>2, <3>1 DEF TypeOK
      <3> QED
        BY <1>1, <2>4, <3>2 DEF Heartbeat, TypeOK, ThreadCoherent
    <2>5. CASE ~Owns(s)
      <3>1. Goto(s, [slot[s] EXCEPT !.beat = FALSE])
        BY <1>1, <2>5 DEF Heartbeat, Goto, TypeOK
      <3>2. slot' \in [Slots -> SlotState] /\ ThreadCoherent'
        BY <2>1, <2>3, <3>1, GotoCoherent DEF ThreadCoherent
      <3> QED
        BY <1>1, <2>5, <3>2 DEF Heartbeat, TypeOK
    <2> QED
      BY <2>4, <2>5
  <1>2. ASSUME NEW j \in Jobs, RetryDue(j)
        PROVE  TypeInv'
    <2>1. \A row \in JobRow : [row EXCEPT !.due = TRUE] \in JobRow
      BY DEF JobRow
    <2> QED
      BY <1>2, <2>1 DEF RetryDue, TypeOK, ThreadCoherent
  <1>3. ASSUME NEW j \in Jobs, LeaseExpires(j)
        PROVE  TypeInv'
    <2>1. \A row \in JobRow : [row EXCEPT !.lease = "expired"] \in JobRow
      BY DEF JobRow
    <2> QED
      BY <1>3, <2>1 DEF LeaseExpires, TypeOK, ThreadCoherent
  <1>4. ASSUME RepairProjections
        PROVE  TypeInv'
    <2>1. PICK status \in [Misprojected -> {"FAILED", "SUCCEEDED", "PARTIAL"}] :
            job' = [j \in Jobs |-> RepairedRow(j, status[j])]
      BY <1>4 DEF RepairProjections
    <2>2. \A row \in JobRow, verdict \in {"FAILED", "SUCCEEDED", "PARTIAL"} :
            [row EXCEPT !.status = verdict] \in JobRow
      BY DEF JobRow, Terminal
    <2>3. \A j \in Jobs : RepairedRow(j, status[j]) \in JobRow
      BY <2>1, <2>2 DEF RepairedRow, TypeOK
    <2> QED
      BY <1>4, <2>1, <2>3 DEF RepairProjections, TypeOK, ThreadCoherent
  <1> QED
    BY <1>1, <1>2, <1>3, <1>4

\* Hence every step of the queue does.
LEMMA StepType == TypeInv /\ [Next]_vars => TypeInv'
  <1> SUFFICES ASSUME TypeInv, [Next]_vars PROVE TypeInv'
    OBVIOUS
  <1>1. CASE UNCHANGED vars
    BY <1>1 DEF vars, TypeInv, TypeOK, ThreadCoherent
  <1>2. CASE Next
    BY <1>2, LoopType, ExecutionType, EnvironmentType DEF Next, SlotStep
  <1> QED
    BY <1>1, <1>2

\* Every reachable row, attempt and thread state of the queue is well formed, and
\* a busy thread holds a job in a numbered attempt.
THEOREM TypeInvariance == Spec => []TypeInv
  <1> QED
    BY InitType, StepType, PTL DEF Spec

\* Type correctness of the job queue.
THEOREM TypeCorrect == Spec => []TypeOK
  <1>1. TypeInv => TypeOK
    BY DEF TypeInv
  <1> QED
    BY <1>1, TypeInvariance, PTL

-----------------------------------------------------------------------------
(* Which statuses a step may change *)

StatusKept ==
    \A j \in Jobs : \/ job'[j].status = job[j].status
                   \/ job[j].status \in Active
                   \/ Relabelled(j, job'[j].status)

\* Recovery, dispatch and the threads only ever change the status of active jobs,
\* and the migration that of a failure it may repair.
LEMMA StatusFlow ==
    ASSUME TypeInv, [Next]_vars
    PROVE  StatusKept \/ \E w \in Workers, j \in Jobs : Enqueue(w, j)
  <1> USE DEF TypeInv
  <1>r. \A w \in Workers : RecoverAbandoned(w) => StatusKept
    BY DEF RecoverAbandoned, Lapsed, StatusKept, TypeOK, Active, Waiting
  <1>d. ASSUME NEW s \in Slots, NEW S \in SUBSET Eligible(WorkerOf[s]), Dispatch(s, S)
        PROVE  StatusKept
    BY <1>d DEF Dispatch, Refused, Eligible, StatusKept, TypeOK, Active, Waiting
  <1>o. ASSUME NEW s \in Slots, slot[s].pc \in Busy, Owns(s)
        PROVE  slot[s].job \in Jobs /\ job[slot[s].job].status \in Active
    BY <1>o DEF Owns, ThreadCoherent, Active
  <1>c. ASSUME NEW s \in Slots, slot[s].pc \in Busy, Owns(s), NEW row,
               job' = [job EXCEPT ![slot[s].job] = row]
        PROVE  StatusKept
    BY <1>c, <1>o DEF StatusKept, TypeOK
  <1>k. ASSUME NEW s \in Slots, slot[s].pc \in Busy, Owns(s), NEW status,
               CloseJob(slot[s].job, status)
        PROVE  StatusKept
    <2>1. job' = [job EXCEPT ![slot[s].job] =
                    [job[slot[s].job] EXCEPT !.status = status, !.lease = "null"]]
      BY <1>k, <1>o DEF CloseJob, TypeOK
    <2> QED
      BY <1>k, <1>c, <2>1
  <1>u. UNCHANGED job => StatusKept
    BY DEF StatusKept
  <1>1. ASSUME NEW w \in Workers, StartWorker(w) \/ NewRound(w) \/ Crash(w) \/ Stop(w)
        PROVE  StatusKept
    BY <1>1, <1>r, <1>u DEF StartWorker, NewRound, Crash, Stop
  <1>2. ASSUME NEW s \in Slots, RecoverFirst(s) \/ AcquireNext(s) \/ ProcessRaises(s)
        PROVE  StatusKept
    <2>1. CASE RecoverFirst(s)
      BY <1>r, <2>1 DEF RecoverFirst
    <2>2. CASE AcquireNext(s)
      <3>1. \E S \in SUBSET Eligible(WorkerOf[s]) : Dispatch(s, S)
        BY <2>2 DEF AcquireNext
      <3> QED
        BY <3>1, <1>d
    <2>3. CASE ProcessRaises(s)
      BY <1>u, <2>3 DEF ProcessRaises
    <2> QED
      BY <1>2, <2>1, <2>2, <2>3
  <1>3. ASSUME NEW s \in Slots, Execution(s)
        PROVE  StatusKept
    <2>1. ASSUME NEW v \in Verdicts, Complete(s, v)
          PROVE  StatusKept
      BY <2>1, <1>k, <1>u DEF Complete, Busy
    <2>2. ASSUME Checkpoint(s)
          PROVE  StatusKept
      BY <2>2, <1>c, <1>u DEF Checkpoint, Busy
    <2>3. ASSUME RetryWrite(s)
          PROVE  StatusKept
      BY <2>3, <1>c, <1>u DEF RetryWrite, Busy, Handling
    <2>4. ASSUME FailWrite(s)
          PROVE  StatusKept
      BY <2>4, <1>k, <1>u DEF FailWrite, Busy, Handling
    <2> QED
      BY <1>3, <1>u, <2>1, <2>2, <2>3, <2>4
         DEF Execution, BeginJob, RetryOrFail, Raise, Handle, HandlerRetryOrFail, EndJob,
             TailRaises
  <1>4. ASSUME NEW s \in Slots, Heartbeat(s)
        PROVE  StatusKept
    <2>1. CASE Owns(s)
      <3>1. job' = [job EXCEPT ![slot[s].job] = [job[slot[s].job] EXCEPT !.lease = "live"]]
        BY <1>4, <1>o, <2>1 DEF Heartbeat, TypeOK
      <3> QED
        BY <1>4, <1>c, <2>1, <3>1 DEF Heartbeat
    <2>2. CASE ~Owns(s)
      BY <1>4, <1>u, <2>2 DEF Heartbeat
    <2> QED
      BY <2>1, <2>2
  <1>5. ASSUME NEW j \in Jobs, RetryDue(j) \/ LeaseExpires(j)
        PROVE  StatusKept
    <2>1. \A row \in JobRow : /\ [row EXCEPT !.due = TRUE].status = row.status
                             /\ [row EXCEPT !.lease = "expired"].status = row.status
      BY DEF JobRow
    <2>2. \/ job' = [job EXCEPT ![j] = [job[j] EXCEPT !.due = TRUE]]
          \/ job' = [job EXCEPT ![j] = [job[j] EXCEPT !.lease = "expired"]]
      BY <1>5 DEF RetryDue, LeaseExpires, TypeOK
    <2>3. \A row : job' = [job EXCEPT ![j] = row] /\ row.status = job[j].status
                      => StatusKept
      BY DEF StatusKept, TypeOK
    <2> QED
      BY <2>1, <2>2, <2>3 DEF TypeOK
  <1>6. CASE UNCHANGED vars
    BY <1>6, <1>u DEF vars
  <1>7. CASE RepairProjections
    <2>1. PICK status \in [Misprojected -> {"FAILED", "SUCCEEDED", "PARTIAL"}] :
            job' = [j \in Jobs |-> RepairedRow(j, status[j])]
      BY <1>7 DEF RepairProjections
    <2>2. \A row \in JobRow, verdict \in {"FAILED", "SUCCEEDED", "PARTIAL"} :
            [row EXCEPT !.status = verdict].status = verdict
      BY DEF JobRow
    <2> QED
      BY <2>1, <2>2 DEF RepairedRow, StatusKept, Relabelled, TypeOK
  <1> QED
    BY <1>1, <1>2, <1>3, <1>4, <1>5, <1>6, <1>7 DEF Next, SlotStep

\* Terminal statuses are final: nothing reopens or relabels a closed job.
THEOREM TerminalIsFinalThm == Spec => TerminalIsFinal
  <1>1. TypeInv /\ [Next]_vars =>
          \A j \in Jobs : job[j].status \in Terminal =>
             job'[j].status = job[j].status \/ Relabelled(j, job'[j].status)
    <2> SUFFICES ASSUME TypeInv, [Next]_vars, NEW j \in Jobs, job[j].status \in Terminal
                 PROVE  job'[j].status = job[j].status \/ Relabelled(j, job'[j].status)
      OBVIOUS
    <2>1. job[j].status \notin Active /\ job[j].status # "ABSENT"
      BY DEF Terminal, Active, Waiting
    <2>2. CASE StatusKept
      BY <2>1, <2>2 DEF StatusKept
    <2>3. CASE \E w \in Workers, i \in Jobs : Enqueue(w, i)
      BY <2>1, <2>3 DEF Enqueue, TypeInv, TypeOK
    <2> QED
      BY <2>2, <2>3, StatusFlow
  <1> QED
    BY <1>1, TypeInvariance, PTL DEF Spec, TerminalIsFinal

\* No two active jobs share a scope, whoever enqueues and whatever is retried.
THEOREM OneActivePerScopeThm == Spec => []OneActivePerScope
  <1>1. Init => OneActivePerScope
    BY DEF Init, OneActivePerScope, Absent, Active, Waiting
  <1>2. TypeInv /\ OneActivePerScope /\ [Next]_vars => OneActivePerScope'
    <2> SUFFICES ASSUME TypeInv, OneActivePerScope, [Next]_vars
                 PROVE  OneActivePerScope'
      OBVIOUS
    <2>1. CASE StatusKept
      BY <2>1 DEF StatusKept, OneActivePerScope, Relabelled, Active, Waiting
    <2>2. CASE \E w \in Workers, i \in Jobs : Enqueue(w, i)
      BY <2>2 DEF Enqueue, TypeInv, TypeOK, JobRow, OneActivePerScope
    <2> QED
      BY <2>1, <2>2, StatusFlow
  <1> QED
    BY <1>1, <1>2, TypeInvariance, PTL DEF Spec

-----------------------------------------------------------------------------
(* The shapes of the steps: what each does to rows, ledger and threads *)

\* The parts of a row that the ledger and the fencing depend on.
Kept(j) ==
    /\ job'[j].status = job[j].status
    /\ job'[j].worker = job[j].worker
    /\ job'[j].attempts = job[j].attempts
    /\ job'[j].continues = job[j].continues

\* Where a thread is about to write a retry.
Retrying == {"retrying", "reretrying"}

\* What a step may do to one thread: nothing that matters here ...
Same(s) ==
    /\ slot'[s].pc = slot[s].pc
    /\ slot'[s].job = slot[s].job
    /\ slot'[s].attempt = slot[s].attempt
    /\ slot'[s].read = slot[s].read

\* ... let it go, a thread that owned a job only by raising and ending run() ...
Leaves(s) ==
    /\ slot'[s].pc = "raised"
    /\ slot'[s].job = slot[s].job /\ slot'[s].attempt = slot[s].attempt
    /\ WorkerOf[s] \in stopped'

Parks(s) ==
    /\ slot'[s].pc \notin Busy
    /\ slot[s].pc \notin {"dead", "raised"}
    /\ slot[s].pc \in Busy \ {"closing"} /\ Owns(s) => Leaves(s)

\* ... or move it on inside process_once, to a retry only with what it read of a
\* job it owned.
Moves(s) ==
    /\ slot[s].pc \in Busy \ {"closing"}
    /\ slot'[s].pc \in Busy \ {"closing"}
    /\ slot'[s].job = slot[s].job
    /\ slot'[s].attempt = slot[s].attempt
    /\ slot'[s].pc \in Retrying =>
         /\ Owns(s)
         /\ slot'[s].read = job[slot[s].job].attempts
         /\ slot'[s].read < MaxAttempts

Quiet ==
    /\ tries' = tries
    /\ \A j \in Jobs : Kept(j)
    /\ \A s \in Slots : Same(s) \/ Parks(s) \/ Moves(s)

Recovers ==
    /\ \E w \in Workers : RecoverAbandoned(w)
    /\ \A s \in Slots : Same(s) \/ Parks(s)

Leases(s, j) ==
    /\ slot[s].pc = "picking"
    /\ Dispatch(s, {j})
    /\ Goto(s, Handed(j, job[j].attempts + 1))

Refuses(s) ==
    /\ Dispatch(s, {})
    /\ \A t \in Slots : Same(t) \/ Parks(t)

\* The read after its commit raised, and the handler has the thread.
Handled(s) ==
    /\ slot'[s].pc = "handling"
    /\ slot'[s].job = slot[s].job /\ slot'[s].attempt = slot[s].attempt

\* The owner of a job takes it out of RUNNING and closes its latest attempt.
Releases(s) ==
    LET j == slot[s].job
    IN  /\ slot[s].pc \in Busy /\ Owns(s)
        /\ \E row \in JobRow, status \in Terminal \union {"CHECKPOINTED"} :
              /\ job' = [job EXCEPT ![j] = row]
              /\ row.attempts = job[j].attempts
              /\ row.status \in Terminal \union {"RETRY_SCHEDULED"}
              /\ \/ row.status \in Terminal
                 \/ row.continues
                 \/ slot[s].pc \in Retrying
              /\ SetTry(j, IF slot[s].pc \in Retrying THEN slot[s].read
                           ELSE job[j].attempts, status)
              /\ \A t \in Slots \ {s} : Same(t)
              /\ \/ slot'[s].pc \notin Busy
                 \/ Handled(s)
                 \/ /\ slot'[s].pc = "closing"
                    /\ slot[s].pc \in {"working", "failing", "refailing"}
                    /\ slot'[s].job = j /\ slot'[s].attempt = slot[s].attempt
                    /\ row.status = status

\* The second transaction of retry_or_fail of a thread that lost its job.
Overtaken(s) == RetryWrite(s) /\ ~Owns(s)

\* The migration relabels a job, and nothing else of it.
Relabels(j) ==
    /\ Relabelled(j, job'[j].status)
    /\ job'[j].worker = job[j].worker
    /\ job'[j].attempts = job[j].attempts
    /\ job'[j].continues = job[j].continues
    /\ tries'[j] = tries[j]

Repairs ==
    /\ \A j \in Jobs : Relabels(j) \/ (Kept(j) /\ tries'[j] = tries[j])
    /\ tries' = tries /\ slot' = slot

\* The phases that the shapes tell apart.
LEMMA PhaseNames ==
    /\ \A pc \in {"off", "idle", "armed", "picking", "raised", "dead"} : pc \notin Busy
    /\ {"acquired", "working", "retrying", "failing", "closing", "handling",
        "rehandling", "reretrying", "refailing"} = Busy
    /\ Retrying = {"retrying", "reretrying"}
  BY DEF Busy, Handling, Retrying

\* What the typing says of a thread and of a row, without their record types.
LEMMA Typing ==
    ASSUME TypeInv
    PROVE  /\ \A j \in Jobs : job[j].attempts \in 0 .. AttemptCap
           /\ \A j \in Jobs : tries[j] \in [1 .. AttemptCap -> AttemptStatus]
           /\ \A s \in Slots : slot[s].attempt \in 0 .. AttemptCap
           /\ \A s \in Slots : slot[s].pc \in Busy =>
                                 slot[s].job \in Jobs /\ slot[s].attempt > 0
           /\ DOMAIN slot = Slots /\ DOMAIN job = Jobs /\ DOMAIN tries = Jobs
  BY DEF TypeInv, TypeOK, ThreadCoherent, JobRow, SlotState

\* Sending one thread somewhere leaves the others where they are.
LEMMA GotoOne ==
    ASSUME TypeInv, NEW s \in Slots, NEW state, Goto(s, state)
    PROVE  slot'[s] = state /\ \A t \in Slots \ {s} : slot'[t] = slot[t] /\ Same(t)
  BY Typing DEF Goto, Same

\* A thread that moves or is let go while rows and ledger stand is a quiet step.
LEMMA QuietMove ==
    ASSUME TypeInv, NEW s \in Slots, NEW state, Goto(s, state),
           UNCHANGED <<job, tries>>, Same(s) \/ Parks(s) \/ Moves(s)
    PROVE  Quiet
  BY GotoOne DEF Quiet, Kept

\* So is a step that only touches when a row may be picked.
LEMMA QuietRow ==
    ASSUME TypeInv, NEW j \in Jobs, NEW row,
           job' = [job EXCEPT ![j] = row], UNCHANGED <<tries, slot>>,
           row.status = job[j].status, row.worker = job[j].worker,
           row.attempts = job[j].attempts, row.continues = job[j].continues
    PROVE  Quiet
  BY Typing DEF Quiet, Kept, Same

\* A thread that escapes leaves its job, if it holds one, and ends run().
LEMMA EscapeShape ==
    ASSUME TypeInv, NEW s \in Slots, Escape(s)
    PROVE  /\ Leaves(s) /\ slot'[s].pc \notin Busy
           /\ \A t \in Slots \ {s} : slot'[t] = slot[t] /\ Same(t)
  <1> DEFINE gone == Gone(slot[s].job, slot[s].attempt)
  <1>1. gone.pc = "raised" /\ gone.job = slot[s].job /\ gone.attempt = slot[s].attempt
    BY DEF Gone
  <1>2. Goto(s, gone) /\ WorkerOf[s] \in stopped'
    BY DEF Escape
  <1> HIDE DEF gone
  <1> QED
    BY <1>1, <1>2, GotoOne, PhaseNames DEF Leaves

\* An exception either reaches the handler or lets the thread leave.
LEMMA RaisedShape ==
    ASSUME TypeInv, NEW s \in Slots, slot[s].pc \in Busy, Raised(s)
    PROVE  /\ Handled(s) \/ (Leaves(s) /\ slot'[s].pc \notin Busy)
           /\ \A t \in Slots \ {s} : slot'[t] = slot[t] /\ Same(t)
  <1>1. CASE slot[s].pc \in Handling
    BY <1>1, EscapeShape DEF Raised
  <1>2. CASE slot[s].pc \notin Handling
    <2> DEFINE caught == [slot[s] EXCEPT !.pc = "handling", !.read = 0, !.why = None]
    <2>1. caught.pc = "handling" /\ caught.job = slot[s].job
          /\ caught.attempt = slot[s].attempt
      BY DEF TypeInv, TypeOK, SlotState
    <2>2. Goto(s, caught)
      BY <1>2 DEF Raised
    <2> HIDE DEF caught
    <2> QED
      BY <2>1, <2>2, GotoOne DEF Handled
  <1> QED
    BY <1>1, <1>2

\* A return does one or the other, or lets the thread go.
LEMMA ReturnShape ==
    ASSUME TypeInv, NEW s \in Slots, slot[s].pc \in Busy, Return(s)
    PROVE  /\ Handled(s) \/ slot'[s].pc \notin Busy
           /\ \A t \in Slots \ {s} : slot'[t] = slot[t] /\ Same(t)
  BY RaisedShape, GotoOne, AtType DEF Return

\* An exception that changes no row is a quiet step.
LEMMA RaisedQuiet ==
    ASSUME TypeInv, NEW s \in Slots, slot[s].pc \in Busy \ {"closing"}, Raised(s),
           UNCHANGED <<job, tries>>
    PROVE  Quiet
  <1>1. Moves(s) \/ Parks(s)
    BY RaisedShape, PhaseNames DEF Moves, Parks, Handled
  <1> QED
    BY <1>1, RaisedShape DEF Quiet, Kept

\* So is an escape, whatever the thread held.
LEMMA EscapeQuiet ==
    ASSUME TypeInv, NEW s \in Slots, slot[s].pc \notin {"dead", "raised"}, Escape(s),
           UNCHANGED <<job, tries>>
    PROVE  Quiet
  BY EscapeShape DEF Quiet, Kept, Parks

\* Both outcomes of the decision in retry_or_fail are quiet steps.
LEMMA DecideQuiet ==
    ASSUME TypeInv, NEW s \in Slots, slot[s].pc \in {"working", "rehandling"},
           Owns(s), NEW why, NEW retryable,
           NEW again \in Retrying, NEW failing \in {"failing", "refailing"},
           Decide(s, why, retryable, again, failing), UNCHANGED <<job, tries>>
    PROVE  Quiet
  <1> DEFINE n == job[slot[s].job].attempts
             retried == [slot[s] EXCEPT !.pc = again, !.read = n, !.why = why]
             failed == [slot[s] EXCEPT !.pc = failing, !.why = why]
  <1>1. slot[s] \in SlotState /\ slot[s].pc \in Busy \ {"closing"}
    BY PhaseNames DEF TypeInv, TypeOK
  <1>2. /\ retried.pc = again /\ retried.job = slot[s].job
        /\ retried.attempt = slot[s].attempt /\ retried.read = n
    BY <1>1 DEF SlotState
  <1>3. /\ failed.pc = failing /\ failed.job = slot[s].job
        /\ failed.attempt = slot[s].attempt
    BY <1>1 DEF SlotState
  <1>4. \/ n < MaxAttempts /\ Goto(s, retried)
        \/ Goto(s, failed)
    BY DEF Decide
  <1> HIDE DEF retried, failed
  <1>5. CASE n < MaxAttempts /\ Goto(s, retried)
    <2>1. Moves(s)
      BY <1>1, <1>2, <1>5, GotoOne, PhaseNames DEF Moves
    <2> QED
      BY <1>5, <2>1, QuietMove
  <1>6. CASE Goto(s, failed)
    <2>1. Moves(s)
      BY <1>1, <1>3, <1>6, GotoOne, PhaseNames DEF Moves
    <2> QED
      BY <1>6, <2>1, QuietMove
  <1> QED
    BY <1>4, <1>5, <1>6

\* complete() by the owner releases the job under its verdict.
LEMMA CloseReleases ==
    ASSUME TypeInv, NEW s \in Slots, Owns(s), NEW status \in Terminal,
           slot[s].pc \in {"working", "failing", "refailing"},
           CloseJob(slot[s].job, status),
           Goto(s, [slot[s] EXCEPT !.pc = "closing", !.beat = FALSE])
    PROVE  Releases(s)
  <1> DEFINE j == slot[s].job
             row == [job[j] EXCEPT !.status = status, !.lease = "null"]
  <1>1. j \in Jobs /\ slot[s].pc \in Busy /\ slot[s].pc \notin Retrying
    BY Typing, PhaseNames
  <1>2. job[j] \in JobRow
    BY <1>1 DEF TypeInv, TypeOK
  <1>3. row \in JobRow /\ row.attempts = job[j].attempts /\ row.status = status
    BY <1>2 DEF JobRow
  <1>4. job' = [job EXCEPT ![j] = row] /\ SetTry(j, job[j].attempts, status)
    BY <1>1, Typing DEF CloseJob
  <1>5. /\ \A t \in Slots \ {s} : Same(t)
        /\ slot'[s].pc = "closing" /\ slot'[s].job = j
        /\ slot'[s].attempt = slot[s].attempt
    <2> DEFINE closing == [slot[s] EXCEPT !.pc = "closing", !.beat = FALSE]
    <2>1. /\ closing.pc = "closing" /\ closing.job = slot[s].job
          /\ closing.attempt = slot[s].attempt
      BY DEF TypeInv, TypeOK, SlotState
    <2> HIDE DEF closing
    <2>2. Goto(s, closing)
      BY DEF closing
    <2> QED
      BY <2>1, <2>2, GotoOne
  <1> HIDE DEF row, j
  <1>6. \E r \in JobRow, t \in Terminal \union {"CHECKPOINTED"} :
          /\ job' = [job EXCEPT ![j] = r]
          /\ r.attempts = job[j].attempts
          /\ r.status \in Terminal
          /\ SetTry(j, job[j].attempts, t)
          /\ r.status = t
    <2>1. row \in JobRow /\ row.status \in Terminal
          /\ status \in Terminal \union {"CHECKPOINTED"}
      BY <1>3
    <2> QED
      BY <1>3, <1>4, <2>1
  <1> USE DEF j
  <1> QED
    BY <1>1, <1>5, <1>6 DEF Releases


\* What a thread does with its job is a quiet step, a release or a late write.
LEMMA ExecutionShape ==
    ASSUME TypeInv, NEW s \in Slots, Execution(s)
    PROVE  Quiet \/ Releases(s) \/ Overtaken(s)
  <1>a. \A pc \in {"working", "rehandling"}, beat \in BOOLEAN :
          /\ slot[s].pc \in Busy \ {"closing"}
          /\ UNCHANGED <<job, tries>>
          /\ Goto(s, [slot[s] EXCEPT !.pc = pc, !.beat = beat])
          => Quiet
    <2> SUFFICES ASSUME NEW pc \in {"working", "rehandling"}, NEW beat \in BOOLEAN,
                        slot[s].pc \in Busy \ {"closing"},
                        UNCHANGED <<job, tries>>,
                        Goto(s, [slot[s] EXCEPT !.pc = pc, !.beat = beat])
                 PROVE  Quiet
      OBVIOUS
    <2> DEFINE moved == [slot[s] EXCEPT !.pc = pc, !.beat = beat]
    <2>1. moved.pc = pc /\ moved.job = slot[s].job /\ moved.attempt = slot[s].attempt
      BY DEF TypeInv, TypeOK, SlotState
    <2> HIDE DEF moved
    <2>2. Goto(s, moved)
      BY DEF moved
    <2>3. Moves(s)
      BY <2>1, <2>2, GotoOne, PhaseNames DEF Moves
    <2> QED
      BY <2>2, <2>3, QuietMove
  <1>c. ASSUME UNCHANGED <<job, tries>>, Goto(s, At("idle")),
               slot[s].pc \in Busy, ~Owns(s) \/ slot[s].pc = "closing"
        PROVE  Quiet
    <2>1. Parks(s)
      BY <1>c, AtType, GotoOne, PhaseNames DEF Parks
    <2> QED
      BY <1>c, <2>1, QuietMove
  <1>0. ASSUME BeginJob(s)
        PROVE  Quiet
    BY <1>0, <1>a, PhaseNames DEF BeginJob
  <1>1. ASSUME NEW v \in Verdicts, Complete(s, v)
        PROVE  Quiet \/ Releases(s)
    <2>1. CASE Owns(s)
      BY <1>1, <2>1, CloseReleases DEF Complete, Terminal
    <2>2. CASE ~Owns(s)
      BY <1>1, <2>2, RaisedQuiet, PhaseNames DEF Complete
    <2> QED
      BY <2>1, <2>2
  <1>2. ASSUME Checkpoint(s)
        PROVE  Quiet \/ Releases(s)
    <2>1. CASE Owns(s)
      <3> DEFINE j == slot[s].job
                 row == CheckpointedRow(job[j])
      <3>1. slot[s].pc \in Busy /\ slot[s].pc \notin Retrying /\ j \in Jobs
        BY <1>2, Typing, PhaseNames DEF Checkpoint
      <3>2. job[j] \in JobRow
        BY <3>1 DEF TypeInv, TypeOK
      <3>3. /\ row \in JobRow /\ row.attempts = job[j].attempts
            /\ row.status = "RETRY_SCHEDULED" /\ row.continues
        BY <3>2 DEF CheckpointedRow, JobRow, Active, Waiting
      <3>4. /\ job' = [job EXCEPT ![j] = row]
            /\ SetTry(j, job[j].attempts, "CHECKPOINTED")
        BY <1>2, <2>1 DEF Checkpoint
      <3>5. /\ Handled(s) \/ slot'[s].pc \notin Busy
            /\ \A t \in Slots \ {s} : Same(t)
        BY <1>2, <2>1, <3>1, ReturnShape DEF Checkpoint
      <3> HIDE DEF row
      <3> QED
        BY <2>1, <3>1, <3>3, <3>4, <3>5 DEF Releases
    <2>2. CASE ~Owns(s)
      BY <1>2, <2>2, RaisedQuiet, PhaseNames DEF Checkpoint
    <2> QED
      BY <2>1, <2>2
  <1>3. ASSUME NEW why \in FailKinds, NEW retryable \in BOOLEAN,
               \/ RetryOrFail(s, why, retryable)
               \/ HandlerRetryOrFail(s, why, retryable)
        PROVE  Quiet
    <2>1. CASE Owns(s)
      BY <1>3, <2>1, DecideQuiet, PhaseNames DEF RetryOrFail, HandlerRetryOrFail
    <2>2. CASE ~Owns(s)
      BY <1>3, <2>2, RaisedQuiet, PhaseNames DEF RetryOrFail, HandlerRetryOrFail
    <2> QED
      BY <2>1, <2>2
  <1>4. ASSUME Raise(s)
        PROVE  Quiet
    BY <1>4, RaisedQuiet, PhaseNames DEF Raise
  <1>5. ASSUME Handle(s)
        PROVE  Quiet
    <2>1. CASE Owns(s)
      <3>1. Goto(s, [slot[s] EXCEPT !.pc = "rehandling"])
        BY <1>5, <2>1 DEF Handle
      <3>2. \A state \in SlotState :
              [state EXCEPT !.pc = "rehandling"]
                = [state EXCEPT !.pc = "rehandling", !.beat = state.beat]
        BY DEF SlotState
      <3>3. slot[s] \in SlotState /\ slot[s].beat \in BOOLEAN
        BY DEF TypeInv, TypeOK, SlotState
      <3>4. Goto(s, [slot[s] EXCEPT !.pc = "rehandling", !.beat = slot[s].beat])
        BY <3>1, <3>2, <3>3
      <3> QED
        BY <1>5, <1>a, <3>3, <3>4, PhaseNames DEF Handle
    <2>2. CASE ~Owns(s)
      BY <1>5, <2>2, <1>c, PhaseNames DEF Handle
    <2> QED
      BY <2>1, <2>2
  <1>7. ASSUME RetryWrite(s)
        PROVE  Releases(s) \/ Overtaken(s)
    <2>1. CASE Owns(s)
      <3> DEFINE j == slot[s].job
                 row == RetriedRow(job[j])
      <3>1. slot[s].pc \in Busy /\ slot[s].pc \in Retrying /\ j \in Jobs
        BY <1>7, Typing, PhaseNames DEF RetryWrite
      <3>2. job[j] \in JobRow /\ slot[s].why \in Terminal
        BY <3>1, PhaseNames DEF TypeInv, TypeOK, ThreadCoherent, Terminal, Deciding
      <3>3. /\ row \in JobRow /\ row.attempts = job[j].attempts
            /\ row.status = "RETRY_SCHEDULED"
        BY <3>2 DEF RetriedRow, JobRow, Active, Waiting
      <3>4. /\ job' = [job EXCEPT ![j] = row]
            /\ SetTry(j, slot[s].read, slot[s].why)
        BY <1>7, <2>1 DEF RetryWrite
      <3>5. /\ Handled(s) \/ slot'[s].pc \notin Busy
            /\ \A t \in Slots \ {s} : Same(t)
        BY <1>7, <3>1, ReturnShape DEF RetryWrite
      <3> HIDE DEF row
      <3> QED
        BY <2>1, <3>1, <3>2, <3>3, <3>4, <3>5 DEF Releases
    <2>2. CASE ~Owns(s)
      BY <1>7, <2>2 DEF Overtaken
    <2> QED
      BY <2>1, <2>2
  <1>8. ASSUME FailWrite(s)
        PROVE  Quiet \/ Releases(s)
    <2>1. CASE Owns(s)
      <3>1. slot[s].why \in Terminal
        BY <1>8 DEF FailWrite, TypeInv, ThreadCoherent, Terminal, Deciding
      <3> QED
        BY <1>8, <2>1, <3>1, CloseReleases DEF FailWrite
    <2>2. CASE ~Owns(s)
      BY <1>8, <2>2, RaisedQuiet, PhaseNames DEF FailWrite
    <2> QED
      BY <2>1, <2>2
  <1>9. ASSUME EndJob(s)
        PROVE  Quiet
    BY <1>9, <1>c, PhaseNames DEF EndJob
  <1>10. ASSUME TailRaises(s)
         PROVE  Quiet
    BY <1>10, EscapeQuiet DEF TailRaises
  <1> QED
    BY <1>0, <1>1, <1>2, <1>3, <1>4, <1>5, <1>7, <1>8, <1>9, <1>10 DEF Execution


\* The shapes, with the appearance of a job and the death of an incarnation.
Shaped ==
    \/ Quiet \/ Recovers \/ Repairs
    \/ \E w \in Workers, j \in Jobs : Enqueue(w, j)
    \/ \E w \in Workers : Crash(w)
    \/ \E s \in Slots : \/ Refuses(s) \/ Releases(s) \/ Overtaken(s)
                        \/ \E j \in Eligible(WorkerOf[s]) : Leases(s, j)

\* Every step has one of the shapes.
LEMMA StepShape ==
    ASSUME TypeInv, [Next]_vars
    PROVE  Shaped
  <1>i. ASSUME NEW s \in Slots, slot'[s].pc \notin Busy,
               slot[s].pc \in {"off", "idle", "armed", "picking"}
        PROVE  Parks(s)
    BY <1>i, PhaseNames DEF Parks
  <1>g. ASSUME NEW s \in Slots, slot[s].pc \in {"armed", "picking"},
               NEW pc \in {"idle", "picking"}, Goto(s, At(pc))
        PROVE  \A t \in Slots : Same(t) \/ Parks(t)
    BY <1>g, <1>i, AtType, GotoOne
  <1>u. ASSUME UNCHANGED job, UNCHANGED tries, \A s \in Slots : Same(s) \/ Parks(s)
        PROVE  Quiet
    BY <1>u DEF Quiet, Kept
  <1>w. ASSUME NEW w \in Workers, NEW pc \in {"off", "idle"},
               \A s \in SlotsOf(w) : slot[s].pc = pc,
               slot' = [s \in Slots |-> IF WorkerOf[s] = w THEN At("armed") ELSE slot[s]]
        PROVE  \A s \in Slots : Same(s) \/ Parks(s)
    <2> SUFFICES ASSUME NEW s \in Slots PROVE Same(s) \/ Parks(s)
      OBVIOUS
    <2>1. CASE WorkerOf[s] = w
      BY <1>w, <1>i, <2>1, AtType DEF SlotsOf
    <2>2. CASE WorkerOf[s] # w
      BY <1>w, <2>2 DEF Same
    <2> QED
      BY <2>1, <2>2
  <1>1. ASSUME NEW w \in Workers, StartWorker(w)
        PROVE  Recovers
    BY <1>1, <1>w DEF StartWorker, Recovers
  <1>2. ASSUME NEW w \in Workers, NewRound(w)
        PROVE  Quiet
    BY <1>2, <1>w, <1>u DEF NewRound
  <1>3. ASSUME NEW w \in Workers, Stop(w)
        PROVE  Quiet
    BY <1>3, <1>u DEF Stop, Same
  <1>4. ASSUME NEW s \in Slots, RecoverFirst(s)
        PROVE  Recovers
    <2>1. WorkerOf[s] \in Workers
      OBVIOUS
    <2> QED
      BY <1>4, <1>g, <2>1 DEF RecoverFirst, Recovers
  <1>5. ASSUME NEW s \in Slots, AcquireNext(s)
        PROVE  Refuses(s) \/ \E j \in Eligible(WorkerOf[s]) : Leases(s, j)
    <2>1. CASE Dispatch(s, {}) /\ Goto(s, At("idle"))
      BY <1>5, <1>g, <2>1 DEF AcquireNext, Refuses
    <2> QED
      BY <1>5, <2>1 DEF AcquireNext, Leases
  <1>6. ASSUME NEW s \in Slots, ProcessRaises(s)
        PROVE  Quiet
    BY <1>6, EscapeQuiet DEF ProcessRaises, Handling
  <1>7. ASSUME NEW s \in Slots, Heartbeat(s)
        PROVE  Quiet
    <2>1. slot[s].job \in Jobs
      BY <1>7, Typing DEF Heartbeat
    <2>2. CASE Owns(s)
      <3> DEFINE row == [job[slot[s].job] EXCEPT !.lease = "live"]
      <3>1. /\ row.status = job[slot[s].job].status
            /\ row.worker = job[slot[s].job].worker
            /\ row.attempts = job[slot[s].job].attempts
            /\ row.continues = job[slot[s].job].continues
        BY <2>1 DEF TypeInv, TypeOK, JobRow
      <3>2. job' = [job EXCEPT ![slot[s].job] = row] /\ UNCHANGED <<tries, slot>>
        BY <1>7, <2>1, <2>2, Typing DEF Heartbeat
      <3> HIDE DEF row
      <3> QED
        BY <2>1, <3>1, <3>2, QuietRow
    <2>3. CASE ~Owns(s)
      <3> DEFINE state == [slot[s] EXCEPT !.beat = FALSE]
      <3>1. /\ state.pc = slot[s].pc /\ state.job = slot[s].job
            /\ state.attempt = slot[s].attempt /\ state.read = slot[s].read
        BY DEF TypeInv, TypeOK, SlotState
      <3>2. Goto(s, state) /\ UNCHANGED <<job, tries>>
        BY <1>7, <2>3, Typing DEF Heartbeat, Goto
      <3> HIDE DEF state
      <3>3. Same(s)
        BY <3>1, <3>2, GotoOne DEF Same
      <3> QED
        BY <3>2, <3>3, QuietMove
    <2> QED
      BY <2>2, <2>3
  <1>8. ASSUME NEW j \in Jobs, RetryDue(j) \/ LeaseExpires(j)
        PROVE  Quiet
    <2> DEFINE due == [job[j] EXCEPT !.due = TRUE]
               expired == [job[j] EXCEPT !.lease = "expired"]
    <2>1. \A row \in {due, expired} :
            /\ row.status = job[j].status /\ row.worker = job[j].worker
            /\ row.attempts = job[j].attempts /\ row.continues = job[j].continues
      BY DEF TypeInv, TypeOK, JobRow
    <2>2. /\ job' = [job EXCEPT ![j] = due] \/ job' = [job EXCEPT ![j] = expired]
          /\ UNCHANGED <<tries, slot>>
      BY <1>8, Typing DEF RetryDue, LeaseExpires
    <2> HIDE DEF due, expired
    <2> QED
      BY <2>1, <2>2, QuietRow
  <1>9. CASE UNCHANGED vars
    BY <1>9, <1>u DEF vars, Same, Shaped
  <1>10. ASSUME NEW s \in Slots, SlotStep(s) \/ Heartbeat(s) \/ ProcessRaises(s)
         PROVE  \/ Quiet \/ Recovers \/ Refuses(s) \/ Releases(s) \/ Overtaken(s)
                \/ \E j \in Eligible(WorkerOf[s]) : Leases(s, j)
    BY <1>4, <1>5, <1>6, <1>7, <1>10, ExecutionShape DEF SlotStep
  <1>11. ASSUME RepairProjections
         PROVE  Repairs
    <2>1. PICK status \in [Misprojected -> {"FAILED", "SUCCEEDED", "PARTIAL"}] :
            job' = [j \in Jobs |-> RepairedRow(j, status[j])]
      BY <1>11 DEF RepairProjections
    <2>2. \A row \in JobRow, verdict \in {"FAILED", "SUCCEEDED", "PARTIAL"} :
            LET labelled == [row EXCEPT !.status = verdict]
            IN  /\ labelled.status = verdict /\ labelled.worker = row.worker
                /\ labelled.attempts = row.attempts /\ labelled.continues = row.continues
      BY DEF JobRow
    <2>3. ASSUME NEW j \in Jobs
          PROVE  Relabels(j) \/ (Kept(j) /\ tries'[j] = tries[j])
      <3>1. job[j] \in JobRow /\ job'[j] = RepairedRow(j, status[j]) /\ tries' = tries
        BY <1>11, <2>1 DEF TypeInv, TypeOK, RepairProjections
      <3>2. CASE j \in Misprojected /\ job[j].status = "FAILED"
        BY <2>1, <2>2, <3>1, <3>2 DEF RepairedRow, Relabels, Relabelled, Kept
      <3>3. CASE ~(j \in Misprojected /\ job[j].status = "FAILED")
        BY <3>1, <3>3 DEF RepairedRow, Kept
      <3> QED
        BY <3>2, <3>3
    <2> QED
      BY <1>11, <2>3 DEF RepairProjections, Repairs
  <1> QED
    BY <1>1, <1>2, <1>3, <1>8, <1>9, <1>10, <1>11 DEF Next, Shaped

\* run() never begins again once it has ended.
LEMMA StoppedGrows ==
    ASSUME TypeInv, [Next]_vars
    PROVE  stopped \subseteq stopped'
  BY DEF Next, vars, Enqueue, StartWorker, NewRound, Crash, Stop, SlotStep, RecoverFirst,
         AcquireNext, Execution, BeginJob, Complete, Checkpoint, RetryOrFail, Decide,
         Raise, Raised, Return, Escape, Handle, HandlerRetryOrFail, RetryWrite, FailWrite,
         EndJob, TailRaises, Heartbeat, ProcessRaises, RetryDue, LeaseExpires,
         RepairProjections

-----------------------------------------------------------------------------
(* Only an exit orphans a job *)

\* The thread that answers for RUNNING job j: at work on its current attempt, or
\* the one whose exception ended run().
Holds(s, j) ==
    /\ slot[s].job = j
    /\ slot[s].attempt = job[j].attempts
    /\ \/ slot[s].pc \in Busy \ {"closing"}
       \/ slot[s].pc = "raised" /\ job[j].worker \in stopped

\* What OrphanedOnlyByExit says of one RUNNING job.
Accounted(j) ==
    \/ \A s \in Slots : WorkerOf[s] = job[j].worker => slot[s].pc = "dead"
    \/ \E s \in Slots : WorkerOf[s] = job[j].worker /\ Holds(s, j)

LEMMA AccountedFor ==
    OrphanedOnlyByExit <=> \A j \in Jobs : job[j].status = "RUNNING" => Accounted(j)
  BY DEF OrphanedOnlyByExit, Accounted, Holds, SlotsOf

\* A thread that is alive and does not hold job j as its owner.
Free(s, j) ==
    /\ slot[s].pc \notin {"dead", "raised"}
    /\ ~(slot[s].job = j /\ slot[s].pc \in Busy \ {"closing"} /\ Owns(s))

\* A job keeps its holder, or its dead incarnation, through every step in which
\* its holder only stays, moves on, or raises.
LEMMA HolderStays ==
    ASSUME TypeInv, stopped \subseteq stopped', NEW j \in Jobs,
           job[j].status = "RUNNING" => Accounted(j),
           job'[j].status = "RUNNING" =>
             /\ job[j].status = "RUNNING"
             /\ job'[j].worker = job[j].worker /\ job'[j].attempts = job[j].attempts,
           \A s \in Slots : Same(s) \/ Moves(s) \/ Parks(s) \/ Free(s, j),
           job'[j].status = "RUNNING"
    PROVE  Accounted(j)'
  <1> DEFINE w == job[j].worker
  <1>1. CASE \A s \in Slots : WorkerOf[s] = w => slot[s].pc = "dead"
    <2>1. \A s \in Slots : WorkerOf[s] = w => slot'[s].pc = "dead"
      BY <1>1, PhaseNames DEF Same, Moves, Parks, Free
    <2> QED
      BY <2>1 DEF Accounted
  <1>2. CASE \E s \in Slots : WorkerOf[s] = w /\ Holds(s, j)
    <2>1. PICK s \in Slots : WorkerOf[s] = w /\ Holds(s, j)
      BY <1>2
    <2>2. slot[s].pc \in Busy => Owns(s)
      BY <2>1 DEF Owns, Holds
    <2>3. Same(s) \/ Moves(s) \/ Leaves(s)
      BY <2>1, <2>2, PhaseNames DEF Free, Parks, Holds
    <2>4. Holds(s, j)'
      BY <2>1, <2>3, PhaseNames DEF Holds, Same, Moves, Leaves
    <2> QED
      BY <2>1, <2>4 DEF Accounted
  <1> QED
    BY <1>1, <1>2 DEF Accounted


\* The rows that recovery and rejection write.
LEMMA ClosedRows ==
    ASSUME NEW row \in JobRow
    PROVE  /\ RejectedRow(row).status = "REJECTED"
           /\ RejectedRow(row).attempts = row.attempts
           /\ RecoveredRow(row).status \in {"FAILED", "RETRY_SCHEDULED"}
           /\ RecoveredRow(row).attempts = row.attempts
           /\ \/ RecoveredRow(row).status = "FAILED"
              \/ row.attempts < MaxAttempts
              \/ RecoveredRow(row).continues
  <1>1. row.attempts \in Nat /\ row.continues \in BOOLEAN
    BY DEF JobRow
  <1>2. RejectedRow(row).status = "REJECTED" /\ RejectedRow(row).attempts = row.attempts
    BY DEF RejectedRow, JobRow
  <1>3. /\ RecoveredRow(row).status = IF row.attempts >= MaxAttempts /\ ~row.continues
                                      THEN "FAILED" ELSE "RETRY_SCHEDULED"
        /\ RecoveredRow(row).attempts = row.attempts
        /\ RecoveredRow(row).continues = row.continues
    BY DEF RecoveredRow, JobRow
  <1> QED
    BY <1>1, <1>2, <1>3

\* Recovery and refusal leave a job RUNNING only by not touching it.
LEMMA RunningUntouched ==
    ASSUME TypeInv, NEW j \in Jobs, job'[j].status = "RUNNING"
    PROVE  /\ \A w \in Workers : RecoverAbandoned(w) => job'[j] = job[j]
           /\ \A s \in Slots : Releases(s) => j # slot[s].job /\ job'[j] = job[j]
           /\ \A s \in Slots : \A S : Dispatch(s, S) /\ j \notin S => job'[j] = job[j]
  <1>0. job[j] \in JobRow
    BY DEF TypeInv, TypeOK
  <1>r. RejectedRow(job[j]).status # "RUNNING" /\ RecoveredRow(job[j]).status # "RUNNING"
    BY <1>0, ClosedRows
  <1>1. ASSUME NEW w \in Workers, RecoverAbandoned(w)
        PROVE  job'[j] = job[j]
    BY <1>1, <1>r DEF RecoverAbandoned
  <1>2. ASSUME NEW s \in Slots, Releases(s)
        PROVE  j # slot[s].job /\ job'[j] = job[j]
    <2>1. PICK row : /\ job' = [job EXCEPT ![slot[s].job] = row]
                     /\ row.status \in Terminal \union {"RETRY_SCHEDULED"}
      BY <1>2 DEF Releases
    <2> QED
      BY <2>1, Typing DEF Terminal
  <1>3. ASSUME NEW s \in Slots, NEW S, Dispatch(s, S), j \notin S
        PROVE  job'[j] = job[j]
    BY <1>3, <1>r DEF Dispatch
  <1> QED
    BY <1>1, <1>2, <1>3

\* What a lease does to the job it takes and to the thread it hands it to.
LEMMA LeaseEffect ==
    ASSUME TypeInv, NEW s \in Slots, NEW j \in Eligible(WorkerOf[s]), Leases(s, j)
    PROVE  /\ j \in Jobs /\ job[j].status \in Waiting
           /\ job[j].attempts + 1 \in 1 .. AttemptCap
           /\ job'[j] = LeasedRow(job[j], WorkerOf[s])
           /\ tries'[j] = [tries[j] EXCEPT ![job[j].attempts + 1] = "RUNNING"]
           /\ slot[s].pc = "picking"
           /\ slot'[s] = Handed(j, job[j].attempts + 1)
           /\ \A t \in Slots \ {s} : slot'[t] = slot[t] /\ Same(t)
  <1>1. j \in Jobs /\ j \in Allowed[WorkerOf[s]] /\ job[j].status \in Waiting
        /\ job[j].attempts < AttemptCap
    BY DEF Eligible, Waiting
  <1>2. job[j].attempts + 1 \in 1 .. AttemptCap
    <2>1. job[j].attempts \in 0 .. AttemptCap
      BY <1>1, Typing
    <2> QED
      BY <1>1, <2>1
  <1>3. j \notin Refused(WorkerOf[s])
    BY <1>1 DEF Refused
  <1>4. /\ job'[j] = LeasedRow(job[j], WorkerOf[s])
        /\ tries'[j] = [tries[j] EXCEPT ![job[j].attempts + 1] = "RUNNING"]
    <2>1. Dispatch(s, {j})
      BY DEF Leases
    <2>2. job'[j] = LeasedRow(job[j], WorkerOf[s])
      BY <1>1, <1>3, <2>1 DEF Dispatch
    <2>3. tries'[j] = [tries[j] EXCEPT ![job[j].attempts + 1] = "RUNNING"]
      BY <1>1, <1>3, <2>1 DEF Dispatch
    <2> QED
      BY <2>2, <2>3
  <1> QED
    BY <1>1, <1>2, <1>4, GotoOne DEF Leases

\* One step, for one job.
LEMMA OrphanStep ==
    ASSUME TypeInv, stopped \subseteq stopped', Shaped, NEW j \in Jobs,
           job[j].status = "RUNNING" => Accounted(j),
           job'[j].status = "RUNNING"
    PROVE  Accounted(j)'
  <1>1. CASE Quiet
    BY <1>1, HolderStays DEF Quiet, Kept
  <1>2. CASE Recovers
    <2>1. job'[j] = job[j]
      BY <1>2, RunningUntouched DEF Recovers
    <2> QED
      BY <1>2, <2>1, HolderStays DEF Recovers
  <1>3. CASE \E w \in Workers, i \in Jobs : Enqueue(w, i)
    <2>1. job'[j] = job[j] /\ slot' = slot
      BY <1>3, Typing DEF Enqueue, TypeInv, TypeOK, JobRow
    <2> QED
      BY <2>1, HolderStays DEF Same
  <1>4. ASSUME NEW v \in Workers, Crash(v)
        PROVE  Accounted(j)'
    <2>1. job'[j] = job[j] /\ stopped' = stopped
      BY <1>4 DEF Crash
    <2>2. CASE job[j].worker = v
      <3>1. \A s \in Slots : WorkerOf[s] = v => slot'[s].pc = "dead"
        BY <1>4, AtType DEF Crash
      <3> QED
        BY <2>1, <2>2, <3>1 DEF Accounted
    <2>3. CASE job[j].worker # v
      <3>1. \A s \in Slots : WorkerOf[s] = job[j].worker => slot'[s] = slot[s]
        BY <1>4, <2>3 DEF Crash
      <3> QED
        BY <2>1, <3>1 DEF Accounted, Holds
    <2> QED
      BY <2>2, <2>3
  <1>5. ASSUME NEW s \in Slots, Refuses(s)
        PROVE  Accounted(j)'
    <2>1. job'[j] = job[j]
      BY <1>5, RunningUntouched DEF Refuses
    <2> QED
      BY <1>5, <2>1, HolderStays DEF Refuses
  <1>6. ASSUME NEW s \in Slots, Releases(s)
        PROVE  Accounted(j)'
    <2>1. j # slot[s].job /\ job'[j] = job[j]
      BY <1>6, RunningUntouched
    <2>2. \A t \in Slots : Same(t) \/ Free(t, j)
      BY <1>6, <2>1, PhaseNames DEF Releases, Free
    <2> QED
      BY <2>1, <2>2, HolderStays
  <1>7. ASSUME NEW s \in Slots, Overtaken(s)
        PROVE  Accounted(j)'
    <2>1. job' = job /\ slot[s].pc \in Busy /\ Return(s)
      BY <1>7, PhaseNames DEF Overtaken, RetryWrite
    <2>2. \A t \in Slots : Same(t) \/ Free(t, j)
      BY <1>7, <2>1, ReturnShape, PhaseNames DEF Overtaken, Free
    <2> QED
      BY <2>1, <2>2, HolderStays
  <1>8. ASSUME NEW s \in Slots, NEW i \in Eligible(WorkerOf[s]), Leases(s, i)
        PROVE  Accounted(j)'
    <2>1. CASE i = j
      <3>0. job'[j] = LeasedRow(job[j], WorkerOf[s])
            /\ slot'[s] = Handed(j, job[j].attempts + 1)
        BY <1>8, <2>1, LeaseEffect
      <3>1. /\ job'[j].worker = WorkerOf[s]
            /\ job'[j].attempts = job[j].attempts + 1
        BY <3>0 DEF LeasedRow
      <3>2. /\ slot'[s].job = j /\ slot'[s].pc = "acquired"
            /\ slot'[s].attempt = job[j].attempts + 1
        BY <3>0 DEF Handed
      <3> QED
        BY <3>1, <3>2, PhaseNames DEF Accounted, Holds
    <2>2. CASE i # j
      <3>1. job'[j] = job[j]
        BY <1>8, <2>2, RunningUntouched DEF Leases
      <3>2. \A t \in Slots : Same(t) \/ Free(t, j)
        BY <1>8, LeaseEffect, PhaseNames DEF Free
      <3> QED
        BY <3>1, <3>2, HolderStays
    <2> QED
      BY <2>1, <2>2
  <1>9. CASE Repairs
    <2>1. /\ job[j].status = "RUNNING"
          /\ job'[j].worker = job[j].worker /\ job'[j].attempts = job[j].attempts
          /\ \A t \in Slots : Same(t)
      BY <1>9 DEF Repairs, Relabels, Relabelled, Kept, Same
    <2> QED
      BY <2>1, HolderStays
  <1> QED
    BY <1>1, <1>2, <1>3, <1>4, <1>5, <1>6, <1>7, <1>8, <1>9 DEF Shaped

\* Only an exit orphans a job, whatever the number of threads of an incarnation: a
\* RUNNING job is in the hands of a thread on its current attempt, or its whole
\* incarnation is dead, or run() has ended because that thread raised.
THEOREM OrphanedOnlyByExitThm == Spec => []OrphanedOnlyByExit
  <1>1. Init => OrphanedOnlyByExit
    BY DEF Init, OrphanedOnlyByExit, Absent
  <1>2. TypeInv /\ OrphanedOnlyByExit /\ [Next]_vars => OrphanedOnlyByExit'
    <2> SUFFICES ASSUME TypeInv, OrphanedOnlyByExit, [Next]_vars
                 PROVE  OrphanedOnlyByExit'
      OBVIOUS
    <2>1. \A j \in Jobs : job[j].status = "RUNNING" => Accounted(j)
      BY AccountedFor
    <2>2. \A j \in Jobs : job'[j].status = "RUNNING" => Accounted(j)'
      BY <2>1, StepShape, StoppedGrows, OrphanStep
    <2> QED
      BY <2>2 DEF OrphanedOnlyByExit, Accounted, Holds, SlotsOf
  <1> QED
    BY <1>1, <1>2, TypeInvariance, PTL DEF Spec


-----------------------------------------------------------------------------
(* Fencing: the ledger and the attempts, while siblings stay apart *)

\* No two threads of an incarnation are busy with one job.  All threads of an
\* incarnation present one worker_id, so a late thread passes for the owner of an
\* attempt that a sibling was handed.  It takes a lease that ran out under a live
\* thread, and a sibling that picks the job up again, to break this.
SiblingsApart ==
    \A s, t \in Slots :
        /\ WorkerOf[s] = WorkerOf[t]
        /\ slot[s].pc \in Busy /\ slot[t].pc \in Busy
        /\ slot[s].job = slot[t].job
        => s = t

\* With research_parallelism = 1 there are no siblings at all.
LEMMA NoSiblings ==
    ASSUME \A s, t \in Slots : WorkerOf[s] = WorkerOf[t] => s = t
    PROVE  SiblingsApart
  BY DEF SiblingsApart

\* A job's row and its ledger: no attempt before the first lease, the latest
\* attempt open exactly while RUNNING, MaxAttempts exceeded only by continuing.
RowOK(j) ==
    /\ job[j].status \in {"ABSENT", "PENDING"} => job[j].attempts = 0
    /\ \A n \in 1 .. AttemptCap :
         tries[j][n] = "RUNNING" <=> (job[j].status = "RUNNING" /\ n = job[j].attempts)
    /\ job[j].status \in Waiting /\ job[j].attempts >= MaxAttempts => job[j].continues

\* A thread against its job: its attempt is never ahead, and is the open one exactly
\* when the lease is its incarnation's; what it read is its own attempt, with one to spare;
\* and what it closed stays closed under the verdict.
ThreadOK(s) ==
    LET j == slot[s].job
    IN  /\ slot[s].pc \in Busy =>
             /\ slot[s].attempt <= job[j].attempts
             /\ job[j].status = "RUNNING" =>
                  (slot[s].attempt = job[j].attempts <=> job[j].worker = WorkerOf[s])
        /\ slot[s].pc \in Retrying =>
             slot[s].read = slot[s].attempt /\ slot[s].attempt < MaxAttempts
        /\ slot[s].pc = "closing" =>
             /\ job[j].status \in Terminal
             /\ slot[s].attempt = job[j].attempts
             /\ VerdictRecorded(j, slot[s].attempt)

\* No attempt is handed to two threads.
Apart ==
    \A s, t \in Slots :
        /\ slot[s].pc \in Busy /\ slot[t].pc \in Busy
        /\ slot[s].job = slot[t].job /\ slot[s].attempt = slot[t].attempt
        => s = t

Fenced ==
    /\ TypeInv
    /\ \A j \in Jobs : RowOK(j)
    /\ \A s \in Slots : ThreadOK(s)
    /\ Apart

\* What a step may do to one job: keep what matters of it ...
RowStays(j) == Kept(j) /\ tries'[j] = tries[j]

\* ... or end its lease, or its wait, and every attempt of it.
Closes(j) ==
    /\ job[j].status \in Active
    /\ job'[j].status \in Terminal \union {"RETRY_SCHEDULED"}
    /\ job'[j].attempts = job[j].attempts
    /\ \/ job'[j].status \in Terminal
       \/ job[j].attempts < MaxAttempts
       \/ job'[j].continues
    /\ \A n \in 1 .. AttemptCap : tries'[j][n] # "RUNNING"

\* The statuses that the shapes tell apart.
LEMMA StatusNames ==
    /\ "RUNNING" \notin Terminal /\ "RUNNING" \notin Waiting
    /\ "ABSENT" \notin Active /\ "ABSENT" \notin Terminal
    /\ "PENDING" \notin Terminal /\ "RETRY_SCHEDULED" \notin Terminal
    /\ "PENDING" \in Waiting /\ "RETRY_SCHEDULED" \in Waiting
    /\ Active = Waiting \union {"RUNNING"}
    /\ \A t \in Terminal : t \notin Active
    /\ "CHECKPOINTED" \notin Terminal
    /\ {"FAILED", "SUCCEEDED", "PARTIAL"} \subseteq Terminal
  BY DEF Terminal, Waiting, Active

\* The owner of a job holds its latest attempt, and has not closed it.
LEMMA OwnsCurrent ==
    ASSUME Fenced, NEW s \in Slots, slot[s].pc \in Busy, Owns(s)
    PROVE  /\ slot[s].job \in Jobs /\ job[slot[s].job].status = "RUNNING"
           /\ slot[s].attempt = job[slot[s].job].attempts
           /\ slot[s].pc # "closing"
  BY Typing, StatusNames DEF Owns, Fenced, ThreadOK

\* A job that is kept, closed or relabelled keeps its row and its ledger in order.
LEMMA RowKept ==
    ASSUME Fenced, NEW j \in Jobs, RowStays(j) \/ Closes(j) \/ Relabels(j)
    PROVE  RowOK(j)'
  <1>1. RowOK(j)
    BY DEF Fenced
  <1>2. CASE RowStays(j)
    BY <1>1, <1>2 DEF RowOK, RowStays, Kept
  <1>3. CASE Closes(j)
    <2>1. /\ job'[j].status # "RUNNING"
          /\ job'[j].status \notin {"ABSENT", "PENDING"}
          /\ job'[j].status \in Waiting => job'[j].status \notin Terminal
      BY <1>3, StatusNames DEF Closes
    <2>2. job[j].attempts \in Nat /\ MaxAttempts \in Nat
      BY Typing DEF Fenced
    <2> QED
      BY <1>3, <2>1, <2>2 DEF Closes, RowOK
  <1>4. CASE Relabels(j)
    <2>1. /\ job[j].status = "FAILED" /\ job'[j].status \in {"SUCCEEDED", "PARTIAL"}
          /\ tries'[j] = tries[j]
      BY <1>4 DEF Relabels, Relabelled
    <2> QED
      BY <1>1, <2>1, StatusNames DEF RowOK
  <1> QED
    BY <1>2, <1>3, <1>4

\* A thread that stays put is in order as long as its job is.
LEMMA ThreadStays ==
    ASSUME Fenced, NEW s \in Slots, Same(s),
           slot[s].pc \in Busy =>
             RowStays(slot[s].job) \/ Closes(slot[s].job) \/ Relabels(slot[s].job)
    PROVE  ThreadOK(s)'
  <1> DEFINE j == slot[s].job
  <1>1. ThreadOK(s)
    BY DEF Fenced
  <1>2. CASE slot[s].pc \notin Busy
    BY <1>2, PhaseNames DEF Same, ThreadOK
  <1>3. CASE slot[s].pc \in Busy /\ RowStays(j)
    <2>1. slot'[s].job = j
      BY DEF Same
    <2> QED
      BY <1>1, <1>3, <2>1 DEF Same, ThreadOK, RowStays, Kept, VerdictRecorded
  <1>4. CASE slot[s].pc \in Busy /\ Closes(j)
    <2>1. slot'[s].job = j /\ slot[s].pc # "closing" /\ job'[j].status # "RUNNING"
      BY <1>1, <1>4, StatusNames DEF Same, ThreadOK, Closes
    <2> QED
      BY <1>1, <1>4, <2>1 DEF Same, ThreadOK, Closes
  <1>5. CASE slot[s].pc \in Busy /\ Relabels(j)
    <2>1. /\ slot'[s].job = j /\ j \in Misprojected
          /\ job[j].status = "FAILED" /\ job'[j].status \in {"SUCCEEDED", "PARTIAL"}
          /\ job'[j].attempts = job[j].attempts /\ tries'[j] = tries[j]
      BY <1>5 DEF Same, Relabels, Relabelled
    <2>2. slot[s].pc = "closing" => tries[j][slot[s].attempt] = "FAILED"
      BY <1>1, <2>1 DEF ThreadOK, VerdictRecorded
    <2> QED
      BY <1>1, <1>5, <2>1, <2>2, StatusNames DEF Same, ThreadOK, VerdictRecorded
  <1> QED
    BY <1>2, <1>3, <1>4, <1>5

\* So is a thread that moves on inside process_once while its job is kept.
LEMMA ThreadMoves ==
    ASSUME Fenced, NEW s \in Slots, Moves(s), RowStays(slot[s].job)
    PROVE  ThreadOK(s)'
  <1> DEFINE j == slot[s].job
  <1>1. /\ ThreadOK(s) /\ slot[s].pc \in Busy
        /\ slot'[s].job = j /\ slot'[s].attempt = slot[s].attempt
        /\ slot'[s].pc # "closing"
    BY DEF Fenced, Moves
  <1>2. slot'[s].pc \in Retrying =>
          slot'[s].read = slot[s].attempt /\ slot[s].attempt < MaxAttempts
    BY <1>1, OwnsCurrent DEF Moves
  <1> QED
    BY <1>1, <1>2 DEF ThreadOK, RowStays, Kept

\* And a thread that holds nothing.
LEMMA ThreadRests ==
    ASSUME NEW s \in Slots, slot'[s].pc \notin Busy
    PROVE  ThreadOK(s)'
  BY PhaseNames DEF ThreadOK

\* Threads that keep their attempts or let them go stay apart.
LEMMA ApartKept ==
    ASSUME Apart,
           \A s \in Slots : \/ slot'[s].pc \notin Busy
                            \/ /\ slot[s].pc \in Busy
                               /\ slot'[s].job = slot[s].job
                               /\ slot'[s].attempt = slot[s].attempt
    PROVE  Apart'
  BY DEF Apart


\* Recovery keeps each job or closes the attempt its dead holder left open.
LEMMA RecoveryCloses ==
    ASSUME Fenced, NEW w \in Workers, RecoverAbandoned(w), NEW j \in Jobs
    PROVE  RowStays(j) \/ Closes(j)
  <1>1. job[j] \in JobRow /\ RowOK(j)
    BY DEF Fenced, TypeInv, TypeOK
  <1>2. CASE ~Lapsed(j)
    BY <1>2 DEF RecoverAbandoned, RowStays, Kept
  <1>3. CASE Lapsed(j) /\ j \in Allowed[w]
    <2>1. job'[j] = RecoveredRow(job[j]) /\ tries'[j] = RecoveredTries(j)
      BY <1>3 DEF RecoverAbandoned
    <2>2. \A n \in 1 .. AttemptCap : tries'[j][n] # "RUNNING"
      BY <1>1, <2>1 DEF RecoveredTries, RowOK
    <2>3. job[j].status = "RUNNING"
      BY <1>3 DEF Lapsed
    <2>4. "FAILED" \in Terminal
      BY DEF Terminal
    <2> HIDE DEF Lapsed
    <2> QED
      BY <1>1, <2>1, <2>2, <2>3, <2>4, ClosedRows, StatusNames DEF Closes
  <1>4. CASE Lapsed(j) /\ j \notin Allowed[w]
    <2>1. job'[j] = RejectedRow(job[j]) /\ tries'[j] = RejectedTries(j)
      BY <1>4 DEF RecoverAbandoned
    <2>2. \A n \in 1 .. AttemptCap : tries'[j][n] # "RUNNING"
      BY <2>1 DEF RejectedTries
    <2>3. job[j].status = "RUNNING"
      BY <1>4 DEF Lapsed
    <2>4. "REJECTED" \in Terminal
      BY DEF Terminal
    <2> QED
      BY <1>1, <2>1, <2>2, <2>3, <2>4, ClosedRows, StatusNames DEF Closes
  <1> QED
    BY <1>2, <1>3, <1>4

\* The dispatching transaction keeps or rejects every job it does not lease.
LEMMA RefusalCloses ==
    ASSUME Fenced, NEW s \in Slots, NEW S, Dispatch(s, S), NEW j \in Jobs, j \notin S
    PROVE  RowStays(j) \/ Closes(j)
  <1>1. job[j] \in JobRow
    BY DEF Fenced, TypeInv, TypeOK
  <1>2. CASE j \notin Refused(WorkerOf[s])
    BY <1>2 DEF Dispatch, RowStays, Kept
  <1>3. CASE j \in Refused(WorkerOf[s])
    <2>1. job'[j] = RejectedRow(job[j]) /\ tries'[j] = RejectedTries(j)
      BY <1>3 DEF Dispatch
    <2>2. \A n \in 1 .. AttemptCap : tries'[j][n] # "RUNNING"
      BY <2>1 DEF RejectedTries
    <2>3. job[j].status \in Active
      BY <1>3, StatusNames DEF Refused
    <2>4. "REJECTED" \in Terminal
      BY DEF Terminal
    <2> QED
      BY <1>1, <2>1, <2>2, <2>3, <2>4, ClosedRows DEF Closes
  <1> QED
    BY <1>2, <1>3

\* A row written over one job, and one attempt of it, leaves the others alone.
LEMMA OthersStay ==
    ASSUME TypeInv, NEW j \in Jobs, NEW n, NEW status,
           \A i \in Jobs \ {j} : job'[i] = job[i], SetTry(j, n, status)
    PROVE  /\ \A i \in Jobs \ {j} : RowStays(i)
           /\ tries'[j] = [tries[j] EXCEPT ![n] = status]
  BY Typing DEF SetTry, RowStays, Kept

\* The owner closes the attempt it was handed, and no other is open.
LEMMA ReleaseCloses ==
    ASSUME Fenced, NEW s \in Slots, Releases(s)
    PROVE  /\ \A i \in Jobs : RowStays(i) \/ Closes(i)
           /\ ThreadOK(s)'
  <1> DEFINE j == slot[s].job
             n == slot[s].attempt
  <1>1. /\ j \in Jobs /\ job[j].status = "RUNNING" /\ n = job[j].attempts
        /\ slot[s].pc \in Busy
    BY OwnsCurrent DEF Releases
  <1>2. n \in 1 .. AttemptCap
    BY <1>1, Typing DEF Fenced
  <1>3. /\ RowOK(j)
        /\ slot[s].pc \in Retrying => slot[s].read = n /\ n < MaxAttempts
    BY <1>1 DEF Fenced, ThreadOK
  <1>4. PICK row \in JobRow, status \in Terminal \union {"CHECKPOINTED"} :
          /\ job' = [job EXCEPT ![j] = row]
          /\ row.attempts = job[j].attempts
          /\ row.status \in Terminal \union {"RETRY_SCHEDULED"}
          /\ row.status \in Terminal \/ row.continues \/ slot[s].pc \in Retrying
          /\ SetTry(j, IF slot[s].pc \in Retrying THEN slot[s].read
                       ELSE job[j].attempts, status)
          /\ \/ slot'[s].pc \notin Busy
             \/ Handled(s)
             \/ /\ slot'[s].pc = "closing"
                /\ slot'[s].job = j /\ slot'[s].attempt = n
                /\ row.status = status
    BY DEF Releases
  <1>5. SetTry(j, n, status) /\ job'[j] = row
    BY <1>1, <1>3, <1>4, Typing DEF Fenced
  <1>6. /\ \A i \in Jobs \ {j} : RowStays(i)
        /\ tries'[j] = [tries[j] EXCEPT ![n] = status]
    <2>1. /\ TypeInv /\ j \in Jobs /\ SetTry(j, n, status)
          /\ \A i \in Jobs \ {j} : job'[i] = job[i]
      BY <1>1, <1>4, <1>5, Typing DEF Fenced
    <2> HIDE DEF j, n
    <2> QED
      BY <2>1, OthersStay, Zenon
  <1>7. tries'[j][n] = status /\ status # "RUNNING"
    BY <1>1, <1>2, <1>6, Typing, StatusNames DEF Fenced
  <1>8. \A k \in 1 .. AttemptCap : tries'[j][k] # "RUNNING"
    BY <1>1, <1>2, <1>3, <1>6, <1>7, Typing DEF Fenced, RowOK
  <1>9. Closes(j)
    BY <1>1, <1>3, <1>4, <1>5, <1>8, StatusNames DEF Closes
  <1>10. ThreadOK(s)'
    <2>1. CASE slot'[s].pc \notin Busy
      BY <2>1, ThreadRests
    <2>2. CASE slot'[s].pc = "closing" /\ slot'[s].job = j /\ slot'[s].attempt = n
               /\ row.status = status
      <3>1. job'[j].status = status /\ status \in Terminal /\ job'[j].attempts = n
        BY <1>1, <1>4, <1>5, <2>2, StatusNames
      <3>2. n \in Nat
        BY <1>2
      <3>3. slot'[s].pc \notin Retrying /\ job'[j].status # "RUNNING"
        BY <2>2, <3>1, StatusNames, PhaseNames
      <3>4. tries'[j][n] = job'[j].status
        BY <1>7, <3>1
      <3> QED
        BY <2>2, <3>1, <3>2, <3>3, <3>4 DEF ThreadOK, VerdictRecorded
    <2>3. CASE Handled(s)
      <3>1. /\ slot'[s].pc = "handling" /\ slot'[s].pc \notin Retrying
            /\ slot'[s].job = j /\ slot'[s].attempt = n
        BY <2>3, PhaseNames DEF Handled
      <3>2. job'[j].status # "RUNNING" /\ job'[j].attempts = n /\ n \in Nat
        BY <1>1, <1>2, <1>4, <1>5, StatusNames
      <3> QED
        BY <3>1, <3>2 DEF ThreadOK
    <2> QED
      BY <1>4, <2>1, <2>2, <2>3
  <1> QED
    BY <1>6, <1>9, <1>10

\* A late write of a thread that lost its job only touches an attempt that was
\* already closed, and is not the one another thread closed or is working on.
LEMMA OvertakenOK ==
    ASSUME Fenced, NEW s \in Slots, Overtaken(s)
    PROVE  /\ \A j \in Jobs : RowOK(j)'
           /\ \A t \in Slots : ThreadOK(t)'
           /\ Apart'
  <1> DEFINE j == slot[s].job
             n == slot[s].attempt
             why == slot[s].why
  <1>1. /\ slot[s].pc \in Retrying /\ slot[s].pc \in Busy /\ ~Owns(s)
        /\ job' = job /\ SetTry(j, slot[s].read, slot[s].why)
        /\ Handled(s) \/ slot'[s].pc \notin Busy
        /\ \A t \in Slots \ {s} : slot'[t] = slot[t] /\ Same(t)
    BY ReturnShape, PhaseNames DEF Overtaken, RetryWrite, Fenced
  <1>2. j \in Jobs /\ n \in 1 .. AttemptCap /\ slot[s].why \in Terminal
    <2>1. TypeInv
      BY DEF Fenced
    <2>2. j \in Jobs /\ n \in 1 .. AttemptCap
      BY <1>1, <2>1, Typing
    <2>3. slot[s].why \in Terminal
      BY <1>1, <2>1, PhaseNames DEF TypeInv, ThreadCoherent, Terminal, Deciding
    <2> QED
      BY <2>2, <2>3
  <1>3. RowOK(j) /\ ThreadOK(s)
    BY <1>2 DEF Fenced
  <1>4. /\ slot[s].read = n
        /\ ~(job[j].status = "RUNNING" /\ n = job[j].attempts)
    BY <1>1, <1>3 DEF ThreadOK, Owns
  <1>5. /\ \A i \in Jobs \ {j} : RowStays(i)
        /\ tries'[j] = [tries[j] EXCEPT ![n] = why]
    <2>1. /\ TypeInv /\ j \in Jobs /\ SetTry(j, n, why)
      BY <1>1, <1>2, <1>4 DEF Fenced
    <2>2. \A i \in Jobs \ {j} : job'[i] = job[i]
      BY <1>1
    <2> HIDE DEF j, n, why
    <2> QED
      BY <2>1, <2>2, OthersStay, Zenon
  <1>6. /\ tries'[j][n] = slot[s].why
        /\ \A k \in 1 .. AttemptCap : k # n => tries'[j][k] = tries[j][k]
    BY <1>2, <1>5, Typing DEF Fenced
  <1>7. ASSUME NEW i \in Jobs PROVE RowOK(i)'
    <2>1. CASE i # j
      BY <1>5, <2>1, RowKept
    <2>2. CASE i = j
      BY <1>1, <1>2, <1>3, <1>4, <1>6, <2>2, StatusNames DEF RowOK
    <2> QED
      BY <2>1, <2>2
  <1>8. ASSUME NEW t \in Slots PROVE ThreadOK(t)'
    <2>1. CASE t = s
      <3>1. CASE slot'[s].pc \notin Busy
        BY <2>1, <3>1, ThreadRests
      <3>2. CASE Handled(s)
        BY <1>1, <1>3, <2>1, <3>2, PhaseNames DEF Handled, ThreadOK
      <3> QED
        BY <1>1, <3>1, <3>2
    <2>2. CASE t # s
      <3>1. slot'[t] = slot[t] /\ Same(t) /\ ThreadOK(t)
        BY <1>1, <2>2 DEF Fenced
      <3>2. CASE slot[t].pc \in Busy /\ slot[t].job # j
        <4>1. slot[t].job \in Jobs
          BY <3>2, Typing DEF Fenced
        <4> QED
          BY <1>5, <3>1, <3>2, <4>1, ThreadStays
      <3>3. CASE slot[t].pc \in Busy /\ slot[t].job = j
        <4>1. slot[t].attempt # n /\ slot[t].attempt \in 1 .. AttemptCap
          BY <1>1, <2>2, <3>3, Typing DEF Fenced, Apart
        <4> QED
          BY <1>1, <1>6, <3>1, <3>3, <4>1 DEF ThreadOK, VerdictRecorded
      <3>4. CASE slot[t].pc \notin Busy
        BY <3>1, <3>4, ThreadRests
      <3> QED
        BY <3>2, <3>3, <3>4
    <2> QED
      BY <2>1, <2>2
  <1>9. Apart'
    <2>1. \A t \in Slots : \/ slot'[t].pc \notin Busy
                           \/ /\ slot[t].pc \in Busy
                              /\ slot'[t].job = slot[t].job
                              /\ slot'[t].attempt = slot[t].attempt
      BY <1>1 DEF Handled
    <2> QED
      BY <2>1, ApartKept DEF Fenced
  <1> QED
    BY <1>7, <1>8, <1>9


\* A lease opens one attempt, newer than every attempt that was ever handed out,
\* and no sibling of the thread that gets it is busy with the job.
LEMMA LeaseOK ==
    ASSUME SiblingsApart', Fenced, NEW s \in Slots, NEW j \in Eligible(WorkerOf[s]),
           Leases(s, j)
    PROVE  /\ \A i \in Jobs : RowOK(i)'
           /\ \A t \in Slots : ThreadOK(t)'
           /\ Apart'
  <1> DEFINE n == job[j].attempts + 1
  <1>1. TypeInv
    BY DEF Fenced
  <1>2. /\ j \in Jobs /\ job[j].status \in Waiting
        /\ n \in 1 .. AttemptCap
        /\ job'[j] = LeasedRow(job[j], WorkerOf[s])
        /\ tries'[j] = [tries[j] EXCEPT ![n] = "RUNNING"]
        /\ slot[s].pc = "picking"
        /\ slot'[s] = Handed(j, n)
        /\ \A t \in Slots \ {s} : slot'[t] = slot[t] /\ Same(t)
    BY <1>1, LeaseEffect
  <1>3. /\ job'[j].status = "RUNNING" /\ job'[j].worker = WorkerOf[s]
        /\ job'[j].attempts = n
    BY <1>2 DEF LeasedRow
  <1>4. slot'[s].pc = "acquired" /\ slot'[s].job = j /\ slot'[s].attempt = n
    BY <1>2 DEF Handed
  <1>5. RowOK(j) /\ job[j].attempts \in Nat
    <2>1. RowOK(j)
      BY <1>2 DEF Fenced
    <2>2. job[j].attempts \in 0 .. AttemptCap
      BY <1>1, <1>2, Typing
    <2> QED
      BY <2>1, <2>2
  <1>6. /\ tries'[j][n] = "RUNNING"
        /\ \A k \in 1 .. AttemptCap : k # n => tries'[j][k] = tries[j][k]
    BY <1>1, <1>2, Typing
  <1>7. \A i \in Jobs \ {j} : RowStays(i) \/ Closes(i)
    <2>1. Dispatch(s, {j})
      BY DEF Leases
    <2> QED
      BY <2>1, RefusalCloses
  <1> HIDE DEF n
  <1>8. ASSUME NEW i \in Jobs PROVE RowOK(i)'
    <2>1. CASE i # j
      BY <1>7, <2>1, RowKept
    <2>2. CASE i = j
      <3>1. \A k \in 1 .. AttemptCap : tries[j][k] # "RUNNING"
        BY <1>2, <1>5, StatusNames DEF RowOK
      <3> QED
        BY <1>3, <1>6, <2>2, <3>1, StatusNames DEF RowOK
    <2> QED
      BY <2>1, <2>2
  <1>9. \A t \in Slots : slot[t].pc \in Busy /\ slot[t].job = j =>
          slot[t].attempt \in Nat /\ slot[t].attempt < n
    BY <1>1, <1>5, Typing DEF Fenced, ThreadOK, n
  <1>10. ASSUME NEW t \in Slots PROVE ThreadOK(t)'
    <2>1. CASE t = s
      BY <1>2, <1>3, <1>4, <2>1, PhaseNames DEF ThreadOK
    <2>2. CASE t # s /\ slot[t].pc \notin Busy
      BY <1>2, <2>2, ThreadRests
    <2>3. CASE t # s /\ slot[t].pc \in Busy /\ slot[t].job # j
      <3>1. slot[t].job \in Jobs
        BY <1>1, <2>3, Typing
      <3> QED
        BY <1>2, <1>7, <2>3, <3>1, ThreadStays
    <2>4. CASE t # s /\ slot[t].pc \in Busy /\ slot[t].job = j
      <3>1. slot'[t] = slot[t] /\ ThreadOK(t) /\ slot[t].pc # "closing"
        BY <1>2, <2>4, StatusNames DEF Fenced, ThreadOK
      <3>2. slot[t].attempt \in Nat /\ slot[t].attempt < n /\ n \in Nat
        BY <1>2, <1>9, <2>4
      <3>3. WorkerOf[t] # WorkerOf[s]
        BY <1>4, <2>4, <3>1, PhaseNames DEF SiblingsApart
      <3> QED
        BY <1>3, <2>4, <3>1, <3>2, <3>3 DEF ThreadOK
    <2> QED
      BY <2>1, <2>2, <2>3, <2>4
  <1>11. Apart'
    <2>1. n \in Nat
      BY <1>2
    <2> QED
      BY <1>2, <1>4, <1>9, <2>1 DEF Fenced, Apart
  <1> QED
    BY <1>8, <1>10, <1>11

\* Every step of the queue keeps jobs, ledger and threads fenced.
LEMMA FencedStep ==
    ASSUME SiblingsApart', Fenced, Shaped, TypeInv'
    PROVE  Fenced'
  <1> DEFINE Rows == \A j \in Jobs : RowOK(j)'
             Threads == \A s \in Slots : ThreadOK(s)'
             RowsEnd == \A j \in Jobs : RowStays(j) \/ Closes(j) \/ Relabels(j)
             Goal == Rows /\ Threads /\ Apart'
  <1>0. TypeInv /\ Apart /\ TypeInv'
    BY DEF Fenced
  <1>c. ASSUME RowsEnd
        PROVE  Rows
    BY <1>c, RowKept
  <1>d. ASSUME RowsEnd, NEW s \in Slots, Same(s) \/ slot'[s].pc \notin Busy
        PROVE  ThreadOK(s)'
    <2>1. slot[s].pc \in Busy => slot[s].job \in Jobs
      BY <1>0, Typing
    <2> QED
      BY <1>d, <2>1, ThreadStays, ThreadRests
  <1>a. ASSUME \A s \in Slots : \/ Same(s) \/ Moves(s) \/ slot'[s].pc \notin Busy
        PROVE  Apart'
    BY <1>0, <1>a, ApartKept DEF Same, Moves
  <1>1. ASSUME Quiet
        PROVE  Goal
    <2>1. \A j \in Jobs : RowStays(j)
      BY <1>1 DEF Quiet, RowStays
    <2>2. \A s \in Slots : Same(s) \/ Moves(s) \/ slot'[s].pc \notin Busy
      BY <1>1 DEF Quiet, Parks
    <2>3. \A s \in Slots : Moves(s) => slot[s].job \in Jobs
      BY <1>0, Typing DEF Moves
    <2>4. \A s \in Slots : Moves(s) => ThreadOK(s)'
      BY <2>1, <2>3, ThreadMoves
    <2>5. RowsEnd
      BY <2>1
    <2>6. Threads
      BY <1>d, <2>2, <2>4, <2>5
    <2> QED
      BY <1>a, <1>c, <2>2, <2>5, <2>6
  <1>2. ASSUME Recovers
        PROVE  Goal
    <2>1. RowsEnd
      BY <1>2, RecoveryCloses DEF Recovers
    <2>2. \A s \in Slots : Same(s) \/ slot'[s].pc \notin Busy
      BY <1>2 DEF Recovers, Parks
    <2>3. Threads
      BY <1>d, <2>1, <2>2
    <2> QED
      BY <1>a, <1>c, <2>1, <2>2, <2>3
  <1>3. ASSUME NEW w \in Workers, NEW i \in Jobs, Enqueue(w, i)
        PROVE  Goal
    <2>1. /\ job[i].status = "ABSENT" /\ job[i] \in JobRow
          /\ job' = [job EXCEPT ![i] = [job[i] EXCEPT !.status = "PENDING"]]
          /\ slot' = slot /\ tries' = tries
      BY <1>0, <1>3, Typing DEF Enqueue, TypeInv, TypeOK
    <2>2. /\ job'[i].status = "PENDING" /\ job'[i].attempts = job[i].attempts
          /\ \A j \in Jobs \ {i} : job'[j] = job[j]
      BY <1>0, <2>1, Typing DEF JobRow
    <2>3. \A j \in Jobs \ {i} : RowStays(j)
      BY <2>1, <2>2 DEF RowStays, Kept
    <2>4. RowOK(i) /\ job[i].attempts = 0
      BY <2>1 DEF Fenced, RowOK
    <2>5. RowOK(i)'
      BY <2>1, <2>2, <2>4, AttemptsAssumption DEF RowOK
    <2>6. \A s \in Slots : slot[s].pc \in Busy => slot[s].job # i
      BY <1>0, <2>4, Typing DEF Fenced, ThreadOK
    <2>7. \A s \in Slots : Same(s)
      BY <2>1 DEF Same
    <2>8. \A s \in Slots : slot[s].pc \in Busy => RowStays(slot[s].job)
      BY <1>0, <2>3, <2>6, Typing
    <2>9. Threads
      BY <2>7, <2>8, ThreadStays
    <2>10. Rows
      BY <2>3, <2>5, RowKept
    <2> QED
      BY <1>a, <2>7, <2>9, <2>10
  <1>4. ASSUME NEW w \in Workers, Crash(w)
        PROVE  Goal
    <2>1. \A j \in Jobs : RowStays(j)
      BY <1>4 DEF Crash, RowStays, Kept
    <2>2. \A s \in Slots : Same(s) \/ slot'[s].pc \notin Busy
      BY <1>4, AtType DEF Crash, Same
    <2>3. RowsEnd
      BY <2>1
    <2>4. Threads
      BY <1>d, <2>2, <2>3
    <2> QED
      BY <1>a, <1>c, <2>2, <2>3, <2>4
  <1>5. ASSUME NEW s \in Slots, Refuses(s)
        PROVE  Goal
    <2>1. RowsEnd
      BY <1>5, RefusalCloses DEF Refuses
    <2>2. \A t \in Slots : Same(t) \/ slot'[t].pc \notin Busy
      BY <1>5 DEF Refuses, Parks
    <2>3. Threads
      BY <1>d, <2>1, <2>2
    <2> QED
      BY <1>a, <1>c, <2>1, <2>2, <2>3
  <1>6. ASSUME NEW s \in Slots, Releases(s)
        PROVE  Goal
    <2>1. RowsEnd
      BY <1>6, ReleaseCloses
    <2>2. ThreadOK(s)' /\ \A t \in Slots \ {s} : Same(t)
      BY <1>6, ReleaseCloses DEF Releases
    <2>3. /\ slot[s].pc \in Busy
          /\ \/ slot'[s].pc \notin Busy
             \/ slot'[s].job = slot[s].job /\ slot'[s].attempt = slot[s].attempt
      BY <1>6 DEF Releases, Handled
    <2>4. Apart'
      BY <1>0, <2>2, <2>3, ApartKept DEF Same
    <2>5. Threads
      BY <1>d, <2>1, <2>2
    <2> QED
      BY <1>c, <2>1, <2>4, <2>5
  <1>7. Goal => Fenced'
    BY <1>0 DEF Fenced
  <1>9. ASSUME Repairs
        PROVE  Goal
    <2>1. RowsEnd /\ \A s \in Slots : Same(s)
      BY <1>9 DEF Repairs, RowStays, Same
    <2>2. Threads
      BY <1>d, <2>1
    <2> QED
      BY <1>a, <1>c, <2>1, <2>2
  <1>8. Goal
    <2>1. ASSUME NEW s \in Slots, Overtaken(s)
          PROVE  Goal
      BY <2>1, OvertakenOK
    <2>2. ASSUME NEW s \in Slots, NEW j \in Eligible(WorkerOf[s]), Leases(s, j)
          PROVE  Goal
      BY <2>2, LeaseOK
    <2> HIDE DEF Goal
    <2> QED
      BY <1>1, <1>2, <1>3, <1>4, <1>5, <1>6, <1>9, <2>1, <2>2 DEF Shaped
  <1> QED
    BY <1>7, <1>8

\* The empty queue is fenced.
LEMMA InitFenced ==
    ASSUME Init
    PROVE  Fenced
  <1>1. TypeInv
    BY InitType
  <1>3. \A j \in Jobs : RowOK(j)
    BY StatusNames DEF Init, RowOK, Absent
  <1>4. \A s \in Slots : slot[s].pc \notin Busy
    BY AtType DEF Init
  <1> QED
    BY <1>1, <1>3, <1>4, PhaseNames DEF Fenced, ThreadOK, Apart

\* The invariant that fences the attempts of a job, from the ledger of the
\* job to what each thread remembers: for any number of threads that share a
\* worker_id, as long as no sibling is handed a job that one of them is busy with.
\* The three theorems after it are parts of it.
THEOREM FencedThm == Spec /\ []SiblingsApart => []Fenced
  <1>1. Init => Fenced
    BY InitFenced
  <1>2. Fenced /\ SiblingsApart' /\ [Next]_vars => Fenced'
    BY FencedStep, StepShape, StepType DEF Fenced
  <1> QED
    BY <1>1, <1>2, PTL DEF Spec

\* So with one thread per incarnation nothing has to be assumed of the behaviour.
THEOREM FencedAlone ==
    ASSUME \A s, t \in Slots : WorkerOf[s] = WorkerOf[t] => s = t
    PROVE  Spec => []Fenced
  <1>1. SiblingsApart
    BY NoSiblings
  <1> QED
    BY <1>1, FencedThm, PTL

\* The ledger agrees with the job: a RUNNING job has exactly its latest attempt
\* open, and a job that waits or is closed has none open.
THEOREM LedgerAgreesThm == Spec /\ []SiblingsApart => []LedgerAgrees
  <1>1. Fenced => LedgerAgrees
    BY DEF Fenced, RowOK, LedgerAgrees
  <1> QED
    BY <1>1, FencedThm, PTL

\* A job that waits again after its last attempt waits as a continuation.
THEOREM ExhaustedOnlyContinuesThm == Spec /\ []SiblingsApart => []ExhaustedOnlyContinues
  <1>1. Fenced => ExhaustedOnlyContinues
    BY DEF Fenced, RowOK, ExhaustedOnlyContinues
  <1> QED
    BY <1>1, FencedThm, PTL

\* The thread that closed a job closed the attempt it was handed, and the ledger's
\* last row carries the verdict, or the failure the migration has since repaired,
\* until that thread returns.
THEOREM ClosedByLatestThm == Spec /\ []SiblingsApart => []ClosedByLatest
  <1>1. Fenced => ClosedByLatest
    BY PhaseNames DEF Fenced, ThreadOK, ClosedByLatest
  <1> QED
    BY <1>1, FencedThm, PTL

-----------------------------------------------------------------------------
(* What is left of the fences when threads share a worker_id *)

\* A job that is RUNNING has its latest attempt open, and no later one was begun.
RowLed(j) ==
    /\ job[j].status = "RUNNING" =>
         job[j].attempts > 0 /\ tries[j][job[j].attempts] = "RUNNING"
    /\ \A n \in 1 .. AttemptCap : tries[j][n] = "RUNNING" => n <= job[j].attempts

\* A thread is never ahead of its job, and what it read before it decided on a
\* retry is the open attempt only if the lease is its incarnation's.
ThreadLed(s) ==
    LET j == slot[s].job
    IN  /\ slot[s].pc \in Busy => slot[s].attempt <= job[j].attempts
        /\ slot[s].pc \in Retrying =>
             /\ slot[s].read <= job[j].attempts
             /\ job[j].status = "RUNNING" /\ slot[s].read = job[j].attempts
                  => job[j].worker = WorkerOf[s]

AttemptsLed ==
    /\ \A j \in Jobs : RowLed(j)
    /\ \A s \in Slots : ThreadLed(s)
    /\ Apart

LedInv == TypeInv /\ AttemptsLed

\* A step keeps a job, or takes it out of RUNNING, and opens no attempt of it.
Sinks(j) ==
    \/ RowStays(j)
    \/ /\ job'[j].attempts = job[j].attempts
       /\ job'[j].status # "RUNNING"
       /\ \A n \in 1 .. AttemptCap : tries'[j][n] = "RUNNING" => tries[j][n] = "RUNNING"

LEMMA SinksLed ==
    ASSUME LedInv, NEW j \in Jobs, Sinks(j)
    PROVE  RowLed(j)'
  <1>1. RowLed(j)
    BY DEF LedInv, AttemptsLed
  <1>2. CASE RowStays(j)
    BY <1>1, <1>2 DEF RowLed, RowStays, Kept
  <1>3. CASE ~RowStays(j)
    BY <1>1, <1>3 DEF RowLed, Sinks
  <1> QED
    BY <1>2, <1>3

LEMMA StaysLed ==
    ASSUME LedInv, NEW s \in Slots, Same(s) \/ slot'[s].pc \notin Busy,
           slot[s].pc \in Busy => Sinks(slot[s].job)
    PROVE  ThreadLed(s)'
  <1> DEFINE j == slot[s].job
  <1>1. ThreadLed(s)
    BY DEF LedInv, AttemptsLed
  <1>2. Retrying \subseteq Busy
    BY PhaseNames
  <1>3. CASE slot'[s].pc \notin Busy
    BY <1>2, <1>3 DEF ThreadLed
  <1>4. CASE Same(s) /\ slot'[s].pc \in Busy
    <2>1. /\ slot[s].pc \in Busy /\ slot'[s].pc = slot[s].pc /\ slot'[s].job = j
          /\ slot'[s].attempt = slot[s].attempt /\ slot'[s].read = slot[s].read
      BY <1>4 DEF Same
    <2>2. /\ job'[j].attempts = job[j].attempts
          /\ job'[j].status = "RUNNING" =>
               job[j].status = "RUNNING" /\ job'[j].worker = job[j].worker
      BY <2>1 DEF Sinks, RowStays, Kept
    <2> QED
      BY <1>1, <2>1, <2>2 DEF ThreadLed
  <1> QED
    BY <1>3, <1>4

LEMMA MovesLed ==
    ASSUME LedInv, NEW s \in Slots, Moves(s), RowStays(slot[s].job)
    PROVE  ThreadLed(s)'
  <1> DEFINE j == slot[s].job
  <1>1. /\ ThreadLed(s) /\ slot[s].pc \in Busy
        /\ slot'[s].job = j /\ slot'[s].attempt = slot[s].attempt
    BY DEF LedInv, AttemptsLed, Moves
  <1>2. job[j].attempts \in Nat
    <2>1. j \in Jobs
      BY <1>1, Typing DEF LedInv
    <2>2. job[j].attempts \in 0 .. AttemptCap
      BY <2>1, Typing DEF LedInv
    <2> QED
      BY <2>2
  <1>3. slot'[s].pc \in Retrying =>
          slot'[s].read = job[j].attempts /\ job[j].worker = WorkerOf[s]
    BY DEF Moves, Owns
  <1> QED
    BY <1>1, <1>2, <1>3 DEF ThreadLed, RowStays, Kept

\* Recovery and the dispatching transaction let jobs sink.
LEMMA RecoverySinks ==
    ASSUME TypeInv, NEW w \in Workers, RecoverAbandoned(w), NEW j \in Jobs
    PROVE  Sinks(j)
  <1>1. job[j] \in JobRow
    BY DEF TypeInv, TypeOK
  <1>2. CASE ~Lapsed(j)
    BY <1>2 DEF RecoverAbandoned, Sinks, RowStays, Kept
  <1>3. CASE Lapsed(j) /\ j \in Allowed[w]
    <2>1. job'[j] = RecoveredRow(job[j]) /\ tries'[j] = RecoveredTries(j)
      BY <1>3 DEF RecoverAbandoned
    <2>2. \A n \in 1 .. AttemptCap : tries'[j][n] = "RUNNING" => tries[j][n] = "RUNNING"
      BY <2>1 DEF RecoveredTries
    <2> QED
      BY <1>1, <2>1, <2>2, ClosedRows DEF Sinks
  <1>4. CASE Lapsed(j) /\ j \notin Allowed[w]
    <2>1. job'[j] = RejectedRow(job[j]) /\ tries'[j] = RejectedTries(j)
      BY <1>4 DEF RecoverAbandoned
    <2>2. \A n \in 1 .. AttemptCap : tries'[j][n] # "RUNNING"
      BY <2>1 DEF RejectedTries
    <2> QED
      BY <1>1, <2>1, <2>2, ClosedRows DEF Sinks
  <1> QED
    BY <1>2, <1>3, <1>4

LEMMA RefusalSinks ==
    ASSUME TypeInv, NEW s \in Slots, NEW S, Dispatch(s, S), NEW j \in Jobs, j \notin S
    PROVE  Sinks(j)
  <1>1. job[j] \in JobRow
    BY DEF TypeInv, TypeOK
  <1>2. CASE j \notin Refused(WorkerOf[s])
    BY <1>2 DEF Dispatch, Sinks, RowStays, Kept
  <1>3. CASE j \in Refused(WorkerOf[s])
    <2>1. job'[j] = RejectedRow(job[j]) /\ tries'[j] = RejectedTries(j)
      BY <1>3 DEF Dispatch
    <2>2. \A n \in 1 .. AttemptCap : tries'[j][n] # "RUNNING"
      BY <2>1 DEF RejectedTries
    <2> QED
      BY <1>1, <2>1, <2>2, ClosedRows DEF Sinks
  <1> QED
    BY <1>2, <1>3

\* So does one that its owner, or a sibling of it, releases.
LEMMA ReleaseSinks ==
    ASSUME TypeInv, NEW s \in Slots, Releases(s)
    PROVE  \A i \in Jobs : Sinks(i)
  <1> DEFINE j == slot[s].job
             m == IF slot[s].pc \in Retrying THEN slot[s].read ELSE job[j].attempts
  <1>1. j \in Jobs
    BY Typing DEF Releases
  <1>2. PICK row \in JobRow, status \in Terminal \union {"CHECKPOINTED"} :
          /\ job' = [job EXCEPT ![j] = row]
          /\ row.attempts = job[j].attempts
          /\ row.status \in Terminal \union {"RETRY_SCHEDULED"}
          /\ SetTry(j, m, status)
    BY DEF Releases
  <1> HIDE DEF m, j
  <1>3. job'[j] = row /\ \A i \in Jobs \ {j} : job'[i] = job[i]
    BY <1>1, <1>2, Typing
  <1>4. /\ \A i \in Jobs \ {j} : RowStays(i)
        /\ tries'[j] = [tries[j] EXCEPT ![m] = status]
    <2>1. j \in Jobs /\ SetTry(j, m, status) /\ \A i \in Jobs \ {j} : job'[i] = job[i]
      BY <1>1, <1>2, <1>3
    <2> QED
      BY <2>1, OthersStay, Zenon
  <1>5. status # "RUNNING" /\ row.status # "RUNNING"
    BY <1>2, StatusNames
  <1>6. \A n \in 1 .. AttemptCap : tries'[j][n] = "RUNNING" => tries[j][n] = "RUNNING"
    BY <1>1, <1>4, <1>5, Typing
  <1>7. Sinks(j)
    BY <1>2, <1>3, <1>5, <1>6 DEF Sinks
  <1> QED
    BY <1>4, <1>7 DEF Sinks

\* A late write closes an attempt that is not the open one.
LEMMA OvertakenLed ==
    ASSUME LedInv, NEW s \in Slots, Overtaken(s)
    PROVE  AttemptsLed'
  <1> DEFINE j == slot[s].job
             m == slot[s].read
             why == slot[s].why
  <1>0. TypeInv
    BY DEF LedInv
  <1>1. /\ slot[s].pc \in Retrying /\ slot[s].pc \in Busy /\ ~Owns(s)
        /\ job' = job /\ SetTry(j, m, why)
        /\ Handled(s) \/ slot'[s].pc \notin Busy
        /\ \A t \in Slots \ {s} : slot'[t] = slot[t] /\ Same(t)
    BY <1>0, ReturnShape, PhaseNames DEF Overtaken, RetryWrite
  <1>2. j \in Jobs /\ why # "RUNNING"
    <2>1. j \in Jobs
      BY <1>0, <1>1, Typing
    <2>2. why \in Terminal
      BY <1>0, <1>1, PhaseNames DEF TypeInv, ThreadCoherent, Terminal, Deciding
    <2> QED
      BY <2>1, <2>2, StatusNames
  <1>3. RowLed(j) /\ ~(job[j].status = "RUNNING" /\ m = job[j].attempts)
    BY <1>1, <1>2 DEF LedInv, AttemptsLed, ThreadLed, Owns
  <1> HIDE DEF m, why, j
  <1>4. /\ \A i \in Jobs \ {j} : RowStays(i)
        /\ tries'[j] = [tries[j] EXCEPT ![m] = why]
    <2>1. TypeInv /\ j \in Jobs /\ SetTry(j, m, why) /\ \A i \in Jobs \ {j} : job'[i] = job[i]
      BY <1>0, <1>1, <1>2
    <2> QED
      BY <2>1, OthersStay, Zenon
  <1>5. \A k \in 1 .. AttemptCap : tries'[j][k] = IF k = m THEN why ELSE tries[j][k]
    BY <1>0, <1>2, <1>4, Typing
  <1>6. job[j].attempts \in 0 .. AttemptCap
    BY <1>0, <1>2, Typing
  <1>7. ASSUME NEW i \in Jobs, i = j PROVE RowLed(i)'
    <2>1. /\ job' = job /\ RowLed(i) /\ why # "RUNNING"
          /\ ~(job[i].status = "RUNNING" /\ m = job[i].attempts)
          /\ job[i].attempts \in 0 .. AttemptCap
          /\ \A k \in 1 .. AttemptCap : tries'[i][k] = IF k = m THEN why ELSE tries[i][k]
      BY <1>1, <1>2, <1>3, <1>5, <1>6, <1>7
    <2> QED
      BY <2>1 DEF RowLed
  <1>8. ASSUME NEW i \in Jobs PROVE RowLed(i)'
    <2>1. CASE i = j
      BY <1>7, <2>1
    <2>2. CASE i # j
      BY <1>4, <2>2, SinksLed DEF Sinks
    <2> QED
      BY <2>1, <2>2
  <1>9. ASSUME NEW t \in Slots PROVE ThreadLed(t)'
    <2>1. CASE t = s
      BY <1>1, <2>1, PhaseNames DEF Handled, LedInv, AttemptsLed, ThreadLed
    <2>2. CASE t # s
      BY <1>1, <2>2 DEF LedInv, AttemptsLed, ThreadLed
    <2> QED
      BY <2>1, <2>2
  <1>10. Apart'
    <2>1. \A t \in Slots : \/ slot'[t].pc \notin Busy
                           \/ /\ slot[t].pc \in Busy
                              /\ slot'[t].job = slot[t].job
                              /\ slot'[t].attempt = slot[t].attempt
      BY <1>1 DEF Handled, Same
    <2> QED
      BY <2>1, ApartKept DEF LedInv, AttemptsLed
  <1> QED
    BY <1>8, <1>9, <1>10 DEF AttemptsLed

\* A lease numbers an attempt beyond every one that was handed out.
LEMMA LeaseLed ==
    ASSUME LedInv, NEW s \in Slots, NEW j \in Eligible(WorkerOf[s]), Leases(s, j)
    PROVE  AttemptsLed'
  <1> DEFINE n == job[j].attempts + 1
  <1>0. TypeInv
    BY DEF LedInv
  <1>1. /\ j \in Jobs /\ job[j].status \in Waiting
        /\ n \in 1 .. AttemptCap
        /\ job'[j] = LeasedRow(job[j], WorkerOf[s])
        /\ tries'[j] = [tries[j] EXCEPT ![n] = "RUNNING"]
        /\ slot'[s] = Handed(j, n)
        /\ \A t \in Slots \ {s} : slot'[t] = slot[t] /\ Same(t)
    BY <1>0, LeaseEffect
  <1>2. /\ job'[j].status = "RUNNING" /\ job'[j].attempts = n
    BY <1>1 DEF LeasedRow
  <1>3. slot'[s].pc = "acquired" /\ slot'[s].job = j /\ slot'[s].attempt = n
    BY <1>1 DEF Handed
  <1>4. RowLed(j) /\ job[j].attempts \in Nat
    <2>1. job[j].attempts \in 0 .. AttemptCap
      BY <1>0, <1>1, Typing
    <2>2. RowLed(j)
      BY <1>1 DEF LedInv, AttemptsLed
    <2> QED
      BY <2>1, <2>2
  <1>5. \A k \in 1 .. AttemptCap : tries'[j][k] = IF k = n THEN "RUNNING" ELSE tries[j][k]
    BY <1>0, <1>1, Typing
  <1>6. \A i \in Jobs \ {j} : Sinks(i)
    <2>1. Dispatch(s, {j})
      BY DEF Leases
    <2> QED
      BY <1>0, <2>1, RefusalSinks
  <1>7. \A t \in Slots : slot[t].pc \in Busy /\ slot[t].job = j =>
          slot[t].attempt \in Nat /\ slot[t].attempt < n
    BY <1>0, <1>4, Typing DEF LedInv, AttemptsLed, ThreadLed
  <1>8. n \in Nat /\ n = job[j].attempts + 1
    BY <1>1
  <1> HIDE DEF n
  <1>9. RowLed(j)'
    BY <1>1, <1>2, <1>4, <1>5, <1>8 DEF RowLed
  <1>10. \A i \in Jobs : RowLed(i)'
    BY <1>6, <1>9, SinksLed
  <1>11. ASSUME NEW t \in Slots PROVE ThreadLed(t)'
    <2>1. CASE t = s
      BY <1>2, <1>3, <1>8, <2>1, PhaseNames DEF ThreadLed
    <2>2. CASE t # s /\ (slot[t].pc \in Busy => slot[t].job # j)
      <3>1. slot[t].pc \in Busy => slot[t].job \in Jobs \ {j}
        BY <1>0, <2>2, Typing
      <3> QED
        BY <1>1, <1>6, <2>2, <3>1, StaysLed
    <2>3. CASE t # s /\ slot[t].pc \in Busy /\ slot[t].job = j
      <3>1. slot'[t] = slot[t] /\ ThreadLed(t)
        BY <1>1, <2>3 DEF LedInv, AttemptsLed
      <3>2. slot[t].attempt \in Nat /\ slot[t].attempt < n
        BY <1>7, <2>3
      <3>3. slot[t].pc \in Retrying => slot[t].read \in Nat /\ slot[t].read < n
        <4>1. slot[t].read \in Nat
          BY <1>0 DEF TypeInv, TypeOK, SlotState
        <4> QED
          BY <1>4, <1>8, <2>3, <3>1, <4>1 DEF ThreadLed
      <3> QED
        BY <1>2, <1>8, <2>3, <3>1, <3>2, <3>3 DEF ThreadLed
    <2> QED
      BY <2>1, <2>2, <2>3
  <1>12. Apart'
    BY <1>1, <1>3, <1>7, <1>8 DEF LedInv, AttemptsLed, Apart
  <1> QED
    BY <1>10, <1>11, <1>12 DEF AttemptsLed

\* Every step keeps the attempts in order.
LEMMA LedStep ==
    ASSUME LedInv, Shaped
    PROVE  AttemptsLed'
  <1> DEFINE Goal == AttemptsLed'
             Follow == \A s \in Slots : Same(s) \/ Moves(s) \/ slot'[s].pc \notin Busy
  <1>0. TypeInv /\ AttemptsLed /\ Apart
    BY DEF LedInv, AttemptsLed
  <1>a. ASSUME \A j \in Jobs : Sinks(j), Follow,
               \A s \in Slots : Moves(s) => RowStays(slot[s].job)
        PROVE  Goal
    <2>1. \A j \in Jobs : RowLed(j)'
      BY <1>a, SinksLed
    <2>2. ASSUME NEW s \in Slots PROVE ThreadLed(s)'
      <3>1. CASE Moves(s)
        BY <1>a, <3>1, MovesLed
      <3>2. CASE Same(s) \/ slot'[s].pc \notin Busy
        <4>1. slot[s].pc \in Busy => slot[s].job \in Jobs
          BY <1>0, Typing
        <4> QED
          BY <1>a, <3>2, <4>1, StaysLed
      <3> QED
        BY <1>a, <3>1, <3>2
    <2>3. Apart'
      BY <1>0, <1>a, ApartKept DEF Same, Moves
    <2> QED
      BY <2>1, <2>2, <2>3 DEF AttemptsLed
  <1>b. ASSUME \A j \in Jobs : Sinks(j), \A s \in Slots : Same(s) \/ slot'[s].pc \notin Busy
        PROVE  Goal
    <2>1. \A s \in Slots : slot[s].pc \in Busy => slot[s].job \in Jobs
      BY <1>0, Typing
    <2>2. \A s \in Slots : ThreadLed(s)'
      BY <1>b, <2>1, StaysLed
    <2>3. \A j \in Jobs : RowLed(j)'
      BY <1>b, SinksLed
    <2>4. Apart'
      BY <1>0, <1>b, ApartKept DEF Same
    <2> QED
      BY <2>2, <2>3, <2>4 DEF AttemptsLed
  <1> HIDE DEF Goal
  <1>1. ASSUME Quiet PROVE Goal
    <2>1. \A j \in Jobs : RowStays(j)
      BY <1>1 DEF Quiet, RowStays
    <2>2. \A s \in Slots : Moves(s) => RowStays(slot[s].job)
      BY <1>0, <2>1, Typing DEF Moves
    <2>3. Follow
      BY <1>1 DEF Quiet, Parks
    <2> QED
      BY <1>a, <2>1, <2>2, <2>3 DEF Sinks
  <1>2. ASSUME Recovers PROVE Goal
    <2>1. \A s \in Slots : Same(s) \/ slot'[s].pc \notin Busy
      BY <1>2 DEF Recovers, Parks
    <2>2. \A j \in Jobs : Sinks(j)
      BY <1>0, <1>2, RecoverySinks DEF Recovers
    <2> QED
      BY <1>b, <2>1, <2>2
  <1>3. ASSUME NEW w \in Workers, NEW i \in Jobs, Enqueue(w, i) PROVE Goal
    <2>1. /\ job[i].status = "ABSENT" /\ job[i] \in JobRow
          /\ job' = [job EXCEPT ![i] = [job[i] EXCEPT !.status = "PENDING"]]
          /\ slot' = slot /\ tries' = tries
      BY <1>0, <1>3, Typing DEF Enqueue, TypeInv, TypeOK
    <2>2. /\ job'[i].status = "PENDING" /\ job'[i].attempts = job[i].attempts
          /\ \A j \in Jobs \ {i} : job'[j] = job[j]
      BY <1>0, <2>1, Typing DEF JobRow
    <2>3. \A j \in Jobs : Sinks(j)
      BY <2>1, <2>2 DEF Sinks, RowStays, Kept
    <2>4. \A s \in Slots : Same(s)
      BY <2>1 DEF Same
    <2> QED
      BY <1>b, <2>3, <2>4
  <1>4. ASSUME NEW w \in Workers, Crash(w) PROVE Goal
    <2>1. \A j \in Jobs : Sinks(j)
      BY <1>4 DEF Crash, Sinks, RowStays, Kept
    <2>2. \A s \in Slots : Same(s) \/ slot'[s].pc \notin Busy
      BY <1>4, AtType DEF Crash, Same
    <2> QED
      BY <1>b, <2>1, <2>2
  <1>5. ASSUME NEW s \in Slots, Refuses(s) PROVE Goal
    <2>1. \A j \in Jobs : Sinks(j)
      BY <1>0, <1>5, RefusalSinks DEF Refuses
    <2>2. \A t \in Slots : Same(t) \/ slot'[t].pc \notin Busy
      BY <1>5 DEF Refuses, Parks
    <2> QED
      BY <1>b, <2>1, <2>2
  <1>6. ASSUME NEW s \in Slots, Releases(s) PROVE Goal
    <2>1. \A j \in Jobs : Sinks(j)
      BY <1>0, <1>6, ReleaseSinks
    <2>2. /\ slot[s].pc \in Busy /\ \A t \in Slots \ {s} : Same(t)
          /\ \/ slot'[s].pc \notin Busy
             \/ /\ slot'[s].job = slot[s].job /\ slot'[s].attempt = slot[s].attempt
                /\ slot'[s].pc \in {"closing", "handling"}
      BY <1>6 DEF Releases, Handled
    <2>3. \A j \in Jobs : RowLed(j)'
      BY <2>1, SinksLed
    <2>4. ASSUME NEW t \in Slots PROVE ThreadLed(t)'
      <3>1. slot[t].pc \in Busy => Sinks(slot[t].job)
        BY <1>0, <2>1, Typing
      <3>2. CASE Same(t) \/ slot'[t].pc \notin Busy
        BY <3>1, <3>2, StaysLed
      <3>3. CASE t = s /\ slot'[s].pc \in {"closing", "handling"}
                 /\ slot'[s].job = slot[s].job /\ slot'[s].attempt = slot[s].attempt
        <4>1. job'[slot[s].job].attempts = job[slot[s].job].attempts
          BY <2>2, <3>1, <3>3 DEF Sinks, RowStays, Kept
        <4>2. ThreadLed(s)
          BY DEF LedInv, AttemptsLed
        <4> QED
          BY <2>2, <3>3, <4>1, <4>2, PhaseNames DEF ThreadLed
      <3> QED
        BY <2>2, <3>2, <3>3
    <2>5. Apart'
      BY <1>0, <2>2, ApartKept DEF Same
    <2> QED
      BY <2>3, <2>4, <2>5 DEF AttemptsLed, Goal
  <1>7. ASSUME NEW s \in Slots, Overtaken(s) PROVE Goal
    BY <1>7, OvertakenLed DEF Goal
  <1>8. ASSUME NEW s \in Slots, NEW j \in Eligible(WorkerOf[s]), Leases(s, j) PROVE Goal
    BY <1>8, LeaseLed DEF Goal
  <1>9. ASSUME Repairs PROVE Goal
    <2>1. \A j \in Jobs : Sinks(j)
      BY <1>9, StatusNames DEF Repairs, Relabels, Relabelled, Sinks, RowStays
    <2>2. \A s \in Slots : Same(s)
      BY <1>9 DEF Repairs, Same
    <2> QED
      BY <1>b, <2>1, <2>2
  <1> QED
    BY <1>1, <1>2, <1>3, <1>4, <1>5, <1>6, <1>7, <1>8, <1>9 DEF Shaped, Goal

LEMMA InitLed ==
    ASSUME Init
    PROVE  LedInv
  <1>1. TypeInv
    BY InitType
  <1>2. \A j \in Jobs : RowLed(j)
    BY StatusNames DEF Init, RowLed, Absent
  <1>3. \A s \in Slots : slot[s].pc \notin Busy
    BY AtType DEF Init
  <1> QED
    BY <1>1, <1>2, <1>3, PhaseNames DEF LedInv, AttemptsLed, ThreadLed, Apart

\* With any number of threads per incarnation, siblings that share a worker_id
\* included: no attempt is handed to two threads, none is ahead of its job, and a
\* job that runs has its latest attempt open.
THEOREM AttemptsLedThm == Spec => []AttemptsLed
  <1>1. Init => LedInv
    BY InitLed
  <1>2. LedInv /\ [Next]_vars => LedInv'
    BY LedStep, StepShape, StepType DEF LedInv
  <1>3. LedInv => AttemptsLed
    BY DEF LedInv
  <1> QED
    BY <1>1, <1>2, <1>3, PTL DEF Spec

-----------------------------------------------------------------------------
(* ParentResearch: its steps as steps of the queue *)

RuntimeStages == {"start", "open", "searching", "persisting", "persisted", "reading",
                  "ready", "checkpointed"}
ClosingStages == {"reconcile", "claim", "materialise", "record", "recorded", "finish", "done"}

\* The stage of a thread is one of the runtime, or of the tail, exactly while the
\* thread is there.
TailsMatch ==
    \A s \in Slots : /\ slot[s].pc = "working" <=> tail[s].at \in RuntimeStages
                     /\ slot[s].pc = "closing" <=> tail[s].at \in ClosingStages

\* What threads, child rows and the creator refer to has been enqueued.
Grounded ==
    /\ \A s \in Slots : slot[s].pc \in Busy => job[slot[s].job].status # "ABSENT"
    /\ \A j \in Jobs : child[j] # "none" => job[j].status # "ABSENT"
    /\ creator.at \in {"enqueue", "run", "link"} => creator.worker \in Workers
    /\ creator.at \in {"run", "link"} =>
         creator.job \in Jobs /\ job[creator.job].status # "ABSENT"

ParentInv == TypeInv /\ ParentTypeOK /\ TailsMatch /\ Grounded

\* A thread of the runtime changes neither rows nor threads, unless it raises.
LEMMA RuntimeQueue ==
    ASSUME NEW s \in Slots, RuntimeStep(s)
    PROVE  UNCHANGED vars \/ Raise(s)
  BY DEF RuntimeStep, OpenRun, BeginStep, BeginPersist, PersistClaims, PersistFails,
         BeginReadBack, CompleteReadBack, CheckpointRun, Stage, Raise

\* A tail that does not fail changes neither.
LEMMA TailQueue ==
    ASSUME NEW s \in Slots, TailStep(s)
    PROVE  UNCHANGED vars
  BY DEF TailStep, ReconcileParent, ClaimMaterialization, Materialise,
         RecordMaterialization, RecordComplete, RecordStep, FinishRun

\* Every step of the composition is a step of the queue, or leaves it alone.
LEMMA QueueSteps ==
    ASSUME Grounded, [ParentNext]_allVars
    PROVE  [Next]_vars
  <1>1. ASSUME GuardedStep PROVE Next
    BY <1>1 DEF GuardedStep, Next, SlotStep, Execution
  <1>2. ASSUME NEW s \in Slots, ThreadStep(s)
        PROVE  Next \/ UNCHANGED vars
    <2>1. ASSUME ClosingStep(s) PROVE Next
      BY <2>1 DEF ClosingStep, Next, SlotStep, Execution
    <2>2. ASSUME RetryingStep(s) PROVE Next
      BY <2>2 DEF RetryingStep, Next, SlotStep, Execution
    <2>3. ASSUME Raise(s) PROVE Next
      BY <2>3 DEF Next, SlotStep, Execution
    <2> QED
      BY <1>2, <2>1, <2>2, <2>3, RuntimeQueue, TailQueue DEF ThreadStep
  <1>3. ASSUME NEW s \in Slots, TailFails(s)
        PROVE  Next
    BY <1>3 DEF TailFails, Next, SlotStep, Execution
  <1>4. ASSUME NEW w \in Workers, CreateParent(w) \/ CrashProcess(w)
        PROVE  Next \/ UNCHANGED vars
    BY <1>4 DEF CreateParent, CrashProcess, Next
  <1>5. ASSUME CreatorStep
        PROVE  Next \/ UNCHANGED vars
    BY <1>5 DEF CreatorStep, EnqueueChild, EnsureChildRun, LinkChild, Grounded, Next
  <1>6. ASSUME ReconcileRuns
        PROVE  Next
    BY <1>6 DEF ReconcileRuns, Next
  <1>7. ASSUME UNCHANGED allVars
        PROVE  UNCHANGED vars
    BY <1>7 DEF allVars
  <1> QED
    BY <1>1, <1>2, <1>3, <1>4, <1>5, <1>6, <1>7 DEF ParentNext

\* A closed job stays closed, and only a failure is ever relabelled.
LEMMA ClosedStays ==
    ASSUME TypeInv, [Next]_vars, NEW j \in Jobs, job[j].status \in Terminal
    PROVE  job'[j].status = job[j].status \/ Relabelled(j, job'[j].status)
  <1>1. job[j].status \notin Active /\ job[j].status # "ABSENT"
    BY StatusNames
  <1>2. CASE StatusKept
    BY <1>1, <1>2 DEF StatusKept
  <1>3. CASE \E w \in Workers, i \in Jobs : Enqueue(w, i)
    BY <1>1, <1>3 DEF Enqueue, TypeInv, TypeOK
  <1> QED
    BY <1>2, <1>3, StatusFlow

\* A job that was enqueued stays so.
LEMMA NeverAbsent ==
    ASSUME TypeInv, Shaped, NEW j \in Jobs, job[j].status # "ABSENT"
    PROVE  job'[j].status # "ABSENT"
  <1>0. job[j] \in JobRow
    BY DEF TypeInv, TypeOK
  <1>r. RejectedRow(job[j]).status # "ABSENT" /\ RecoveredRow(job[j]).status # "ABSENT"
    BY <1>0, ClosedRows
  <1>1. CASE Quiet
    BY <1>1 DEF Quiet, Kept
  <1>2. CASE Recovers
    BY <1>2, <1>r DEF Recovers, RecoverAbandoned
  <1>3. CASE \E w \in Workers, i \in Jobs : Enqueue(w, i)
    BY <1>3 DEF Enqueue, TypeInv, TypeOK
  <1>4. CASE \E w \in Workers : Crash(w)
    BY <1>4 DEF Crash
  <1>5. ASSUME NEW s \in Slots, NEW S, Dispatch(s, S)
        PROVE  job'[j].status # "ABSENT"
    <2>1. LeasedRow(job[j], WorkerOf[s]).status # "ABSENT"
      BY DEF LeasedRow
    <2> QED
      BY <1>5, <1>r, <2>1 DEF Dispatch
  <1>6. ASSUME NEW s \in Slots, Releases(s)
        PROVE  job'[j].status # "ABSENT"
    <2>1. PICK row : /\ job' = [job EXCEPT ![slot[s].job] = row]
                     /\ row.status \in Terminal \union {"RETRY_SCHEDULED"}
      BY <1>6 DEF Releases
    <2> QED
      BY <2>1, Typing, StatusNames
  <1>7. ASSUME NEW s \in Slots, Overtaken(s)
        PROVE  job'[j].status # "ABSENT"
    BY <1>7 DEF Overtaken, RetryWrite
  <1>8. CASE Repairs
    BY <1>8 DEF Repairs, Relabels, Relabelled, Kept
  <1> QED
    BY <1>1, <1>2, <1>3, <1>4, <1>5, <1>6, <1>7, <1>8 DEF Shaped, Refuses, Leases

\* A busy thread keeps its job or was handed one that now runs; and it gets to the
\* tail only by closing a job.
LEMMA ThreadFlow ==
    ASSUME TypeInv, Shaped, NEW s \in Slots
    PROVE  /\ slot'[s].pc \in Busy =>
                \/ slot[s].pc \in Busy /\ slot'[s].job = slot[s].job
                \/ job'[slot'[s].job].status = "RUNNING"
           /\ slot'[s].pc = "closing" =>
                slot[s].pc \in {"closing", "working", "failing", "refailing"}
  <1>1. ASSUME Same(s) \/ Parks(s) \/ Moves(s)
        PROVE  /\ slot'[s].pc \in Busy =>
                    slot[s].pc \in Busy /\ slot'[s].job = slot[s].job
               /\ slot'[s].pc = "closing" => slot[s].pc = "closing"
    BY <1>1, PhaseNames DEF Same, Parks, Moves
  <1>2. CASE Quiet \/ Recovers \/ \E t \in Slots : Refuses(t)
    BY <1>1, <1>2 DEF Quiet, Recovers, Refuses
  <1>3. CASE \E w \in Workers, i \in Jobs : Enqueue(w, i)
    BY <1>1, <1>3 DEF Enqueue, Same
  <1>4. ASSUME NEW w \in Workers, Crash(w)
        PROVE  Same(s) \/ slot'[s].pc \notin Busy
    BY <1>4, AtType DEF Crash, Same
  <1>5. ASSUME NEW t \in Slots, Releases(t)
        PROVE  \/ Same(s) \/ slot'[s].pc \notin Busy
               \/ slot[s].pc \in Busy /\ Handled(s)
               \/ /\ slot'[s].pc = "closing" /\ slot'[s].job = slot[s].job
                  /\ slot[s].pc \in {"working", "failing", "refailing"}
    BY <1>5 DEF Releases
  <1>6. ASSUME NEW t \in Slots, Overtaken(t)
        PROVE  \/ Same(s) \/ slot'[s].pc \notin Busy
               \/ slot[s].pc \in Busy /\ Handled(s)
    BY <1>6, ReturnShape, PhaseNames DEF Overtaken, RetryWrite
  <1>7. ASSUME NEW t \in Slots, NEW j \in Eligible(WorkerOf[t]), Leases(t, j)
        PROVE  \/ Same(s)
               \/ slot'[s].pc = "acquired" /\ job'[slot'[s].job].status = "RUNNING"
    <2>1. CASE s = t
      <3>1. /\ slot'[s] = Handed(j, job[j].attempts + 1)
            /\ job'[j] = LeasedRow(job[j], WorkerOf[t])
        BY <1>7, <2>1, LeaseEffect
      <3>2. slot'[s].pc = "acquired" /\ slot'[s].job = j
        BY <3>1 DEF Handed
      <3>3. job'[j].status = "RUNNING"
        BY <3>1 DEF LeasedRow
      <3> QED
        BY <3>2, <3>3
    <2>2. CASE s # t
      BY <1>7, <2>2, LeaseEffect
    <2> QED
      BY <2>1, <2>2
  <1>8. CASE Repairs
    BY <1>1, <1>8 DEF Repairs, Same
  <1> QED
    BY <1>1, <1>2, <1>3, <1>4, <1>5, <1>6, <1>7, <1>8, PhaseNames DEF Shaped, Handled

-----------------------------------------------------------------------------
(* Type correctness of the composition *)

JobStatus == Active \union Terminal
RunStatus == JobStatus \union {"none"}

ParentRow == [status   : Acceptable \union {"none", "PENDING", "RUNNING", "FAILED"},
              snapshot : {"null", "MATERIALIZING", "stored"},
              counted  : 0 .. Cardinality(Jobs)]
CreatorState == [at     : {"idle", "enqueue", "run", "link", "created", "dead"},
                 worker : Workers \union {None},
                 job    : Jobs \union {None}]
TailState == [at   : Stages,
              path : Paths,
              saw  : Acceptable \union {"none", "RUNNING", "FAILED"}]

\* The statuses the parent's rows tell apart.
LEMMA RowNames ==
    /\ Acceptable \subseteq Terminal /\ Verdicts \subseteq Terminal
    /\ FailKinds \subseteq Terminal
    /\ {"PENDING", "RUNNING", "RETRY_SCHEDULED", "FAILED"} \subseteq JobStatus
    /\ "FAILED" \in Terminal
    /\ JobStatus \subseteq RunStatus /\ "none" \in RunStatus /\ "none" \notin JobStatus
    /\ "ABSENT" \notin JobStatus
  BY DEF Acceptable, Terminal, Active, Waiting, JobStatus, RunStatus

\* The stages of the runtime and of the tail.
LEMMA StageNames ==
    /\ RuntimeStages \subseteq Stages /\ ClosingStages \subseteq Stages
    /\ RuntimeStages \intersect ClosingStages = {}
    /\ "none" \in Stages /\ "none" \notin RuntimeStages /\ "none" \notin ClosingStages
  BY DEF RuntimeStages, ClosingStages, Stages

\* What ParentTypeOK says of the tables of the composition.
LEMMA ParentTyping ==
    ASSUME ParentTypeOK
    PROVE  /\ run \in [Jobs -> RunStatus] /\ child \in [Jobs -> RunStatus]
           /\ steps \in [Jobs -> SUBSET {"PERSIST", "READ_BACK"}]
           /\ parent \in ParentRow /\ creator \in CreatorState
           /\ tail \in [Slots -> TailState]
  BY DEF ParentTypeOK, RunStatus, JobStatus, ParentRow, CreatorState, TailState

\* The job of a busy thread has a status the run can have, and so has any that changed.
LEMMA StatusTypes ==
    ASSUME ParentInv, TypeInv', Shaped
    PROVE  /\ \A s \in Slots : slot[s].pc \in Busy =>
                slot[s].job \in Jobs /\ job[slot[s].job].status \in JobStatus
           /\ \A j \in Jobs : child[j] # "none" => job[j].status \in JobStatus
           /\ \A j \in Jobs : job[j].status \in JobStatus => job'[j].status \in JobStatus
           /\ \A j \in Jobs : job'[j].status # job[j].status => job'[j].status \in JobStatus
  <1>1. \A j \in Jobs : /\ job[j].status \in JobStatus \union {"ABSENT"}
                        /\ job'[j].status \in JobStatus \union {"ABSENT"}
    BY DEF ParentInv, TypeInv, TypeOK, JobRow, JobStatus
  <1>2. \A j \in Jobs : job[j].status # "ABSENT" => job'[j].status # "ABSENT"
    BY NeverAbsent DEF ParentInv
  <1> QED
    BY <1>1, <1>2, Typing, RowNames DEF ParentInv, Grounded

\* Whatever writes it, the run of a job has a status of the queue.
LEMMA RunType ==
    ASSUME ParentInv, [ParentNext]_allVars, TypeInv', Shaped
    PROVE  run' \in [Jobs -> RunStatus]
  <1> DEFINE Goal == run' \in [Jobs -> RunStatus]
  <1>0. /\ run \in [Jobs -> RunStatus]
        /\ \A j \in Jobs : job'[j].status # job[j].status => job'[j].status \in RunStatus
        /\ \A s \in Slots : slot[s].pc \in Busy =>
             slot[s].job \in Jobs /\ job[slot[s].job].status \in RunStatus
        /\ \A j \in Jobs : job[j].status \in JobStatus => job'[j].status \in RunStatus
        /\ {"PENDING", "RUNNING", "RETRY_SCHEDULED", "FAILED"} \subseteq RunStatus
        /\ Verdicts \subseteq RunStatus
    BY ParentTyping, StatusTypes, RowNames DEF ParentInv, RunStatus, JobStatus
  <1>1. ASSUME ActiveRunsFollow \/ RunsFollow PROVE Goal
    BY <1>0, <1>1 DEF ActiveRunsFollow, RunsFollow, RunTouched
  <1>2. ASSUME NEW j, RetriedRunFollows(j) \/ EnsureRun(j) PROVE Goal
    BY <1>0, <1>2 DEF RetriedRunFollows, EnsureRun
  <1>3. ASSUME NEW j, NEW status \in RunStatus, SetRun(j, status) PROVE Goal
    BY <1>0, <1>3 DEF SetRun
  <1>4. ASSUME UNCHANGED run PROVE Goal
    BY <1>0, <1>4
  <1> HIDE DEF Goal
  <1>5. ASSUME ReconcileRuns PROVE Goal
    <2>1. ASSUME NEW j \in Jobs PROVE Reconciled(j) \in RunStatus
      <3>1. CASE Reconciled(j) = run[j]
        BY <1>0, <3>1
      <3>2. CASE Reconciled(j) # run[j]
        <4>1. /\ Reconciled(j) = job'[j].status
              /\ job'[j].status # job[j].status \/ job[j].status \in JobStatus
          BY <3>2, RowNames DEF Reconciled, JobStatus
        <4> QED
          BY <1>0, <4>1
      <3> QED
        BY <3>1, <3>2
    <2> QED
      BY <1>5, <2>1 DEF ReconcileRuns, Goal
  <1>6. ASSUME NEW s \in Slots, RuntimeStep(s) PROVE Goal
    <2>1. ASSUME OpenRun(s) PROVE Goal
      BY <1>2, <2>1 DEF OpenRun
    <2>2. ASSUME BeginStep(s) \/ BeginPersist(s) \/ BeginReadBack(s) \/ CompleteReadBack(s)
          PROVE  Goal
      BY <1>0, <1>3, <1>4, <2>2 DEF BeginStep, BeginPersist, BeginReadBack, CompleteReadBack
    <2>3. ASSUME PersistFails(s) \/ CheckpointRun(s)
          PROVE  Goal
      BY <1>0, <1>3, <2>3 DEF PersistFails, CheckpointRun
    <2>4. ASSUME NEW v \in Verdicts, PersistClaims(s, v)
          PROVE  Goal
      BY <1>0, <1>3, <2>4 DEF PersistClaims
    <2> QED
      BY <1>6, <2>1, <2>2, <2>3, <2>4 DEF RuntimeStep
  <1>7. ASSUME NEW s \in Slots, TailStep(s) PROVE Goal
    <2>1. ASSUME RecordMaterialization(s) \/ RecordComplete(s) PROVE Goal
      BY <1>0, <1>3, <2>1 DEF RecordMaterialization, RecordComplete, RecordStep
    <2>2. ASSUME FinishRun(s) PROVE Goal
      <3>1. slot[s].pc \in Busy
        BY <2>2, PhaseNames DEF FinishRun, ParentInv, TailsMatch, ClosingStages
      <3> QED
        BY <1>0, <1>3, <2>2, <3>1 DEF FinishRun
    <2> QED
      BY <1>4, <1>7, <2>1, <2>2 DEF TailStep, ReconcileParent, ClaimMaterialization, Materialise
  <1>8. ASSUME NEW s \in Slots, ClosingStep(s) \/ RetryingStep(s) \/ TailFails(s) PROVE Goal
    BY <1>1, <1>2, <1>4, <1>8 DEF ClosingStep, RetryingStep, TailFails
  <1>9. ASSUME NEW w \in Workers, CreateParent(w) \/ CrashProcess(w) PROVE Goal
    BY <1>4, <1>9 DEF CreateParent, CrashProcess
  <1>10. ASSUME CreatorStep PROVE Goal
    BY <1>2, <1>4, <1>10 DEF CreatorStep, EnqueueChild, EnsureChildRun, LinkChild
  <1>11. ASSUME GuardedStep PROVE Goal
    BY <1>1, <1>11 DEF GuardedStep
  <1>12. ASSUME UNCHANGED allVars PROVE Goal
    BY <1>4, <1>12 DEF allVars, parentVars
  <1> QED
    BY <1>5, <1>6, <1>7, <1>8, <1>9, <1>10, <1>11, <1>12 DEF ParentNext, ThreadStep, Goal

\* The steps of a run are the two that have to be remembered.
LEMMA StepsType ==
    ASSUME ParentInv, [ParentNext]_allVars
    PROVE  steps' \in [Jobs -> SUBSET {"PERSIST", "READ_BACK"}]
  <1> DEFINE Goal == steps' \in [Jobs -> SUBSET {"PERSIST", "READ_BACK"}]
  <1>0. steps \in [Jobs -> SUBSET {"PERSIST", "READ_BACK"}]
    BY ParentTyping DEF ParentInv
  <1>1. ASSUME UNCHANGED steps PROVE Goal
    BY <1>0, <1>1
  <1>2. ASSUME NEW j, NEW x \in {"PERSIST", "READ_BACK"},
               steps' = [steps EXCEPT ![j] = @ \union {x}]
        PROVE  Goal
    BY <1>0, <1>2
  <1> HIDE DEF Goal
  <1>3. ASSUME NEW s \in Slots, RuntimeStep(s) PROVE Goal
    <2>1. ASSUME NEW v \in Verdicts, PersistClaims(s, v)
          PROVE  Goal
      BY <1>2, <2>1 DEF PersistClaims
    <2>2. ASSUME CompleteReadBack(s)
          PROVE  Goal
      BY <1>2, <2>2 DEF CompleteReadBack
    <2> QED
      BY <1>1, <1>3, <2>1, <2>2 DEF RuntimeStep, OpenRun, BeginStep, BeginPersist,
           PersistFails, BeginReadBack, CheckpointRun
  <1>4. ASSUME NEW s \in Slots, TailStep(s) PROVE UNCHANGED steps
    BY <1>4 DEF TailStep, ReconcileParent, ClaimMaterialization, Materialise,
         RecordMaterialization, RecordComplete, RecordStep, FinishRun
  <1>5. ASSUME NEW s \in Slots, ClosingStep(s) \/ RetryingStep(s) \/ TailFails(s)
        PROVE  UNCHANGED steps
    BY <1>5 DEF ClosingStep, RetryingStep, TailFails
  <1>6. ASSUME \/ GuardedStep \/ CreatorStep \/ ReconcileRuns \/ UNCHANGED allVars
               \/ \E w \in Workers : CreateParent(w) \/ CrashProcess(w)
        PROVE  UNCHANGED steps
    BY <1>6 DEF GuardedStep, CreateParent, CrashProcess, CreatorStep, EnqueueChild,
         EnsureChildRun, LinkChild, ReconcileRuns, allVars, parentVars
  <1> QED
    BY <1>1, <1>3, <1>4, <1>5, <1>6 DEF ParentNext, ThreadStep, Goal

\* What reconcile_parent writes into a child row is a status of the queue.
LEMMA ChildType ==
    ASSUME ParentInv, [ParentNext]_allVars, TypeInv', Shaped
    PROVE  /\ child' \in [Jobs -> RunStatus]
           /\ \A j \in Jobs : child'[j] # "none" => job'[j].status # "ABSENT"
  <1> DEFINE Goal == /\ child' \in [Jobs -> RunStatus]
                     /\ \A j \in Jobs : child'[j] # "none" => job'[j].status # "ABSENT"
  <1>0. /\ child \in [Jobs -> RunStatus]
        /\ \A j \in Jobs : child[j] # "none" => job'[j].status # "ABSENT"
    BY ParentTyping, NeverAbsent DEF ParentInv, Grounded
  <1>1. ASSUME UNCHANGED child PROVE Goal
    BY <1>0, <1>1
  <1>2. ASSUME NEW s \in Slots, ReconcileParent(s) PROVE Goal
    <2>1. \A j \in Linked : VerifiedStatus(j) \in RunStatus
      BY StatusTypes, RowNames DEF Linked, VerifiedStatus
    <2> QED
      BY <1>0, <1>2, <2>1, RowNames DEF ReconcileParent, Linked
  <1>3. ASSUME LinkChild PROVE Goal
    <2>1. creator.job \in Jobs /\ job'[creator.job].status # "ABSENT"
      BY <1>3, NeverAbsent DEF LinkChild, ParentInv, Grounded
    <2> QED
      BY <1>0, <1>3, <2>1, RowNames DEF LinkChild
  <1> HIDE DEF Goal
  <1>4. ASSUME NEW s \in Slots, RuntimeStep(s) PROVE UNCHANGED child
    BY <1>4 DEF RuntimeStep, OpenRun, BeginStep, BeginPersist, PersistClaims, PersistFails,
         BeginReadBack, CompleteReadBack, CheckpointRun, Stage
  <1>5. ASSUME NEW s \in Slots, TailStep(s) PROVE Goal
    BY <1>1, <1>2, <1>5 DEF TailStep, ClaimMaterialization, Materialise,
         RecordMaterialization, RecordComplete, RecordStep, FinishRun
  <1> QED
    <2>1. Goal
      BY <1>1, <1>3, <1>4, <1>5 DEF ParentNext, ThreadStep, GuardedStep, ClosingStep,
         RetryingStep, TailFails, CreateParent, CrashProcess, CreatorStep, EnqueueChild,
         EnsureChildRun, ReconcileRuns, allVars, parentVars
    <2> QED
      BY <2>1 DEF Goal

\* What the children add up to.
LEMMA ParentStatusType == ParentStatus \in Acceptable \union {"RUNNING", "FAILED"}
  <1> DEFINE With(status) == {j \in Linked : VerifiedStatus(j) = status}
             waits == \E j \in Linked : VerifiedStatus(j) \notin Terminal
             empty == Linked = {}
             nothing == Linked # {} /\ With("NO_DATA") = Linked
             refused == Linked # {} /\ \A j \in Linked : VerifiedStatus(j) \notin Acceptable
             mixed == IF With("SUCCEEDED") \union With("NO_DATA") = Linked
                      THEN "SUCCEEDED" ELSE "PARTIAL"
  <1>1. ParentStatus = CASE waits -> "RUNNING" [] empty -> "SUCCEEDED" [] nothing -> "NO_DATA"
                         [] refused -> "FAILED" [] OTHER -> mixed
    BY DEF ParentStatus
  <1>2. mixed \in {"SUCCEEDED", "PARTIAL"}
    OBVIOUS
  <1> HIDE DEF waits, empty, nothing, refused, mixed
  <1> QED
    BY <1>1, <1>2 DEF Acceptable

\* A parent that is SUCCEEDED by all the jobs has none that failed: a job that succeeded
\* while its run did not counts as failed.
LEMMA SucceededChildren ==
    ASSUME ParentStatus = "SUCCEEDED", Linked = Jobs,
           \A j \in Jobs : VerifiedStatus(j) \in Terminal
    PROVE  \A j \in Jobs : job[j].status \in {"SUCCEEDED", "NO_DATA"}
  <1> DEFINE With(status) == {j \in Linked : VerifiedStatus(j) = status}
             waits == \E j \in Linked : VerifiedStatus(j) \notin Terminal
             empty == Linked = {}
             nothing == Linked # {} /\ With("NO_DATA") = Linked
             refused == Linked # {} /\ \A j \in Linked : VerifiedStatus(j) \notin Acceptable
             mixed == IF With("SUCCEEDED") \union With("NO_DATA") = Linked
                      THEN "SUCCEEDED" ELSE "PARTIAL"
  <1> SUFFICES ASSUME Jobs # {}
               PROVE  \A j \in Jobs : job[j].status \in {"SUCCEEDED", "NO_DATA"}
    OBVIOUS
  <1>1. ParentStatus = CASE waits -> "RUNNING" [] empty -> "SUCCEEDED" [] nothing -> "NO_DATA"
                         [] refused -> "FAILED" [] OTHER -> mixed
    BY DEF ParentStatus
  <1>2. ~ waits /\ ~ empty
    OBVIOUS
  <1>3. ~ (nothing /\ refused)
    BY DEF Acceptable
  <1>4. mixed = "SUCCEEDED" => With("SUCCEEDED") \union With("NO_DATA") = Linked
    OBVIOUS
  <1>5. mixed = "SUCCEEDED"
    <2> HIDE DEF waits, empty, nothing, refused, mixed
    <2> QED
      BY <1>1, <1>2, <1>3
  <1>6. \A j \in Jobs : VerifiedStatus(j) \in {"SUCCEEDED", "NO_DATA"}
    BY <1>4, <1>5
  <1> QED
    BY <1>6 DEF VerifiedStatus

-----------------------------------------------------------------------------
(* Who writes the parent row, and the stage of a thread *)

\* One thread gets to another stage; to materialise only with the claim.
Advances(s, to) ==
    /\ tail' = [tail EXCEPT ![s].at = to]
    /\ UNCHANGED slot
    /\ \/ tail[s].at \in RuntimeStages /\ to \in RuntimeStages
       \/ tail[s].at \in ClosingStages /\ to \in ClosingStages
    /\ to = "materialise" => ClaimMaterialization(s) /\ parent.snapshot = "null"

\* A thread gives the claim back, with a snapshot or without.
Finishes(s) ==
    /\ tail[s].at = "materialise" /\ tail'[s].at # "materialise"
    /\ \E stored \in BOOLEAN : FinishMaterialization(stored)

\* The stages of the runtime advance inside the runtime.
LEMMA RuntimeAdvances ==
    ASSUME NEW s \in Slots, RuntimeStep(s)
    PROVE  (UNCHANGED parent /\ \E to \in RuntimeStages : Advances(s, to))
           \/ (UNCHANGED parent /\ TailsFollow)
  <1>1. ASSUME NEW from \in SUBSET RuntimeStages, NEW to \in RuntimeStages, Stage(s, from, to)
        PROVE  UNCHANGED parent /\ Advances(s, to)
    BY <1>1, StageNames DEF Stage, Advances, RuntimeStages, vars
  <1>2. /\ {"start"} \subseteq RuntimeStages /\ {"open"} \subseteq RuntimeStages
        /\ {"open", "searching"} \subseteq RuntimeStages
        /\ {"persisting"} \subseteq RuntimeStages /\ {"persisted"} \subseteq RuntimeStages
        /\ {"reading"} \subseteq RuntimeStages
        /\ {"ready", "checkpointed"} \subseteq RuntimeStages
    BY DEF RuntimeStages
  <1>3. ASSUME OpenRun(s) \/ BeginStep(s) \/ CompleteReadBack(s) \/ CheckpointRun(s)
        PROVE  UNCHANGED parent /\ \E to \in RuntimeStages : Advances(s, to)
    BY <1>1, <1>2, <1>3 DEF OpenRun, BeginStep, CompleteReadBack, CheckpointRun
  <1>4. ASSUME BeginPersist(s) \/ BeginReadBack(s)
        PROVE  UNCHANGED parent /\ \E to \in RuntimeStages : Advances(s, to)
    BY <1>1, <1>2, <1>4 DEF BeginPersist, BeginReadBack
  <1>5. ASSUME NEW v \in Verdicts, PersistClaims(s, v)
        PROVE  UNCHANGED parent /\ \E to \in RuntimeStages : Advances(s, to)
    BY <1>1, <1>2, <1>5 DEF PersistClaims
  <1>6. ASSUME PersistFails(s)
        PROVE  UNCHANGED parent /\ TailsFollow
    BY <1>6 DEF PersistFails
  <1> QED
    BY <1>3, <1>4, <1>5, <1>6 DEF RuntimeStep

\* The tail writes the parent in three places.
LEMMA TailAdvances ==
    ASSUME NEW s \in Slots, TailStep(s), tail \in [Slots -> TailState]
    PROVE  \/ ReconcileParent(s)
           \/ ClaimMaterialization(s) /\ \E to \in ClosingStages : Advances(s, to)
           \/ Finishes(s) /\ \E to \in ClosingStages \ {"materialise"} : Advances(s, to)
           \/ UNCHANGED parent /\ \E to \in ClosingStages \ {"materialise"} : Advances(s, to)
  <1>1. Rest(s) \in ClosingStages \ {"materialise"}
    BY DEF Rest, ClosingStages
  <1>2. {"claim", "materialise", "record", "recorded", "finish", "done"} \subseteq ClosingStages
    BY DEF ClosingStages
  <1>3. CASE ClaimMaterialization(s)
    <2>1. \/ After(s, "materialise") /\ parent.snapshot = "null"
          \/ After(s, Rest(s))
      BY <1>3 DEF ClaimMaterialization
    <2>2. UNCHANGED slot /\ tail[s].at \in ClosingStages
      BY <1>2, <1>3 DEF ClaimMaterialization, vars
    <2> QED
      BY <1>1, <1>2, <1>3, <2>1, <2>2 DEF After, Advances
  <1>4. CASE Materialise(s)
    <2>1. /\ tail' = [tail EXCEPT ![s].at = Rest(s)] /\ UNCHANGED slot
          /\ tail[s].at = "materialise"
          /\ FinishMaterialization(tail[s].saw # "NO_DATA" \/ tail[s].path # "result")
      BY <1>4 DEF Materialise, After, vars
    <2>2. Advances(s, Rest(s))
      BY <1>1, <1>2, <2>1 DEF Advances
    <2>3. tail'[s].at = Rest(s)
      BY <2>1 DEF TailState
    <2>4. (tail[s].saw # "NO_DATA" \/ tail[s].path # "result") \in BOOLEAN
      OBVIOUS
    <2>5. Finishes(s)
      BY <1>1, <2>1, <2>3, <2>4 DEF Finishes
    <2> QED
      BY <1>1, <2>2, <2>5
  <1>5. CASE RecordMaterialization(s) \/ RecordComplete(s) \/ FinishRun(s)
    <2>1. /\ UNCHANGED parent /\ UNCHANGED slot
          /\ \/ tail[s].at = "record" /\ After(s, "recorded")
             \/ tail[s].at = "recorded" /\ After(s, "finish")
             \/ tail[s].at = "finish" /\ After(s, "done")
      BY <1>5 DEF RecordMaterialization, RecordComplete, FinishRun, RecordStep, vars
    <2> QED
      BY <1>2, <2>1 DEF After, Advances
  <1> QED
    BY <1>3, <1>4, <1>5 DEF TailStep

\* All the writers of the parent row and of the stages.
LEMMA ParentWrites ==
    ASSUME TypeInv, [ParentNext]_allVars, tail \in [Slots -> TailState]
    PROVE  \/ UNCHANGED <<slot, tail, parent>>
           \/ UNCHANGED parent /\ TailsFollow
           \/ \E s \in Slots : ReconcileParent(s)
           \/ \E s \in Slots : /\ ClaimMaterialization(s)
                               /\ \E to \in ClosingStages : Advances(s, to)
           \/ \E s \in Slots : /\ Finishes(s)
                               /\ \/ TailsFollow
                                  \/ \E to \in ClosingStages \ {"materialise"} : Advances(s, to)
           \/ \E s \in Slots :
                /\ UNCHANGED parent
                /\ \E to \in (RuntimeStages \union ClosingStages) \ {"materialise"} : Advances(s, to)
           \/ parent' = [parent EXCEPT !.status = "PENDING"] /\ UNCHANGED <<slot, tail>>
  <1> DEFINE Goal ==
           \/ UNCHANGED <<slot, tail, parent>>
           \/ UNCHANGED parent /\ TailsFollow
           \/ \E s \in Slots : ReconcileParent(s)
           \/ \E s \in Slots : /\ ClaimMaterialization(s)
                               /\ \E to \in ClosingStages : Advances(s, to)
           \/ \E s \in Slots : /\ Finishes(s)
                               /\ \/ TailsFollow
                                  \/ \E to \in ClosingStages \ {"materialise"} : Advances(s, to)
           \/ \E s \in Slots :
                /\ UNCHANGED parent
                /\ \E to \in (RuntimeStages \union ClosingStages) \ {"materialise"} : Advances(s, to)
           \/ parent' = [parent EXCEPT !.status = "PENDING"] /\ UNCHANGED <<slot, tail>>
  <1>0. DOMAIN slot = Slots
    BY Typing
  <1>1. ASSUME NEW s \in Slots, RuntimeStep(s) PROVE Goal
    <2>1. "materialise" \notin RuntimeStages
      BY DEF RuntimeStages
    <2> QED
      BY <1>1, <2>1, RuntimeAdvances
  <1>2. ASSUME NEW s \in Slots, TailStep(s) PROVE Goal
    BY <1>2, TailAdvances
  <1>3. ASSUME NEW s \in Slots, ClosingStep(s) \/ RetryingStep(s) PROVE Goal
    BY <1>3 DEF ClosingStep, RetryingStep
  <1>4. ASSUME NEW s \in Slots, TailFails(s) PROVE Goal
    <2>1. slot[s].pc = "closing" /\ TailsFollow
      BY <1>4 DEF TailFails
    <2>2. CASE UNCHANGED parent
      BY <2>1, <2>2
    <2>3. CASE tail[s].at = "materialise" /\ FinishMaterialization(FALSE)
      <3>1. slot'[s].pc \in {"idle", "raised"}
        BY <1>4, GotoOne, EscapeShape, AtType DEF TailFails, EndJob, TailRaises, Leaves
      <3>2. tail'[s].at = "none"
        BY <2>1, <3>1 DEF TailsFollow, Resting
      <3> QED
        BY <2>1, <2>3, <3>2 DEF Finishes
    <2> QED
      BY <1>4, <2>2, <2>3 DEF TailFails
  <1>5. ASSUME GuardedStep \/ CreatorStep \/ ReconcileRuns \/ UNCHANGED allVars
        PROVE  Goal
    <2>1. ASSUME GuardedStep PROVE Goal
      BY <2>1 DEF GuardedStep
    <2>2. ASSUME CreatorStep \/ ReconcileRuns \/ UNCHANGED allVars
          PROVE  UNCHANGED <<slot, tail, parent>>
      BY <2>2 DEF CreatorStep, EnqueueChild, Enqueue, EnsureChildRun, LinkChild,
                  ReconcileRuns, RepairProjections, allVars, parentVars, vars
    <2> QED
      BY <1>5, <2>1, <2>2
  <1>6. ASSUME NEW w \in Workers, CreateParent(w) \/ CrashProcess(w) PROVE Goal
    BY <1>6 DEF CreateParent, CrashProcess, vars
  <1> HIDE DEF Goal
  <1>7. Goal
    BY <1>1, <1>2, <1>3, <1>4, <1>5, <1>6 DEF ParentNext, ThreadStep
  <1> QED
    BY <1>7 DEF Goal

\* A thread that moves to another place of process_once starts, reconciles or rests.
LEMMA TailsFollowed ==
    ASSUME TypeInv, ParentTypeOK, TailsMatch, Shaped, TailsFollow
    PROVE  /\ tail' \in [Slots -> TailState] /\ TailsMatch'
           /\ \A s \in Slots : tail'[s] = tail[s] \/ tail'[s].at \in {"none", "start", "reconcile"}
  <1>0. tail \in [Slots -> TailState]
    BY ParentTyping
  <1>1. /\ [Resting EXCEPT !.at = "start"] \in TailState
        /\ [Resting EXCEPT !.at = "start"].at = "start"
        /\ Resting \in TailState /\ Resting.at = "none"
        /\ \A path \in Paths :
             /\ [at |-> "reconcile", path |-> path, saw |-> "none"] \in TailState
             /\ [at |-> "reconcile", path |-> path, saw |-> "none"].at = "reconcile"
    BY DEF Resting, TailState, Stages, Paths
  <1>2. \A pc \in {"working", "failing", "refailing"} : PathOf(pc) \in Paths
    BY DEF PathOf, Paths
  <1>3. ASSUME NEW s \in Slots
        PROVE  /\ tail'[s] \in TailState
               /\ tail'[s] = tail[s] \/ tail'[s].at \in {"none", "start", "reconcile"}
               /\ slot'[s].pc = "working" <=> tail'[s].at \in RuntimeStages
               /\ slot'[s].pc = "closing" <=> tail'[s].at \in ClosingStages
    <2>1. CASE slot'[s].pc = slot[s].pc
      <3>1. tail'[s] = tail[s]
        BY <2>1 DEF TailsFollow
      <3> QED
        BY <1>0, <2>1, <3>1 DEF TailsMatch
    <2>2. CASE slot'[s].pc # slot[s].pc /\ slot'[s].pc = "working"
      <3>1. tail'[s] = [Resting EXCEPT !.at = "start"]
        BY <2>2 DEF TailsFollow
      <3> QED
        BY <1>1, <2>2, <3>1 DEF RuntimeStages, ClosingStages
    <2>3. CASE slot'[s].pc # slot[s].pc /\ slot'[s].pc = "closing"
      <3>1. slot[s].pc \in {"working", "failing", "refailing"}
        BY <2>3, ThreadFlow
      <3>2. tail'[s] = [at |-> "reconcile", path |-> PathOf(slot[s].pc), saw |-> "none"]
        BY <2>3 DEF TailsFollow
      <3> QED
        BY <1>1, <1>2, <2>3, <3>1, <3>2 DEF RuntimeStages, ClosingStages
    <2>4. CASE slot'[s].pc # slot[s].pc /\ slot'[s].pc \notin {"working", "closing"}
      <3>1. tail'[s] = Resting
        BY <2>4 DEF TailsFollow
      <3> QED
        BY <1>1, <2>4, <3>1, StageNames
    <2> QED
      BY <2>1, <2>2, <2>3, <2>4
  <1>4. tail' \in [Slots -> TailState]
    BY <1>3 DEF TailsFollow
  <1> QED
    BY <1>3, <1>4 DEF TailsMatch

\* A thread that gets on stays in the runtime, or in the tail.
LEMMA Advanced ==
    ASSUME ParentTypeOK, TailsMatch, NEW s \in Slots, NEW to \in Stages, Advances(s, to)
    PROVE  /\ tail' \in [Slots -> TailState] /\ TailsMatch'
           /\ tail'[s].at = to /\ \A t \in Slots \ {s} : tail'[t] = tail[t]
  <1>0. tail \in [Slots -> TailState]
    BY ParentTyping
  <1>1. \A e \in TailState : [e EXCEPT !.at = to] \in TailState /\ [e EXCEPT !.at = to].at = to
    BY DEF TailState
  <1>2. tail' = [tail EXCEPT ![s] = [tail[s] EXCEPT !.at = to]]
    BY <1>0 DEF Advances
  <1>3. /\ tail' \in [Slots -> TailState] /\ tail'[s].at = to
        /\ \A t \in Slots \ {s} : tail'[t] = tail[t]
    BY <1>0, <1>1, <1>2
  <1>4. TailsMatch'
    BY <1>3, StageNames DEF Advances, TailsMatch
  <1> QED
    BY <1>3, <1>4

\* So does the one that reconciles, with what it saw.
LEMMA ReconcilerAdvanced ==
    ASSUME ParentTypeOK, TailsMatch, NEW s \in Slots, ReconcileParent(s)
    PROVE  /\ tail' \in [Slots -> TailState] /\ TailsMatch'
           /\ tail'[s].at \in ClosingStages \ {"materialise"}
           /\ \A t \in Slots \ {s} : tail'[t] = tail[t]
  <1> DEFINE to == IF ParentStatus \in Acceptable THEN "claim" ELSE Rest(s)
             e == [[tail[s] EXCEPT !.saw = ParentStatus] EXCEPT !.at = to]
  <1>0. tail \in [Slots -> TailState] /\ tail[s] \in TailState
    BY ParentTyping
  <1>1. to \in ClosingStages \ {"materialise"} /\ to \in Stages
    BY DEF Rest, ClosingStages, Stages
  <1>2. tail' = [tail EXCEPT ![s] = e]
    BY <1>0 DEF ReconcileParent
  <1> HIDE DEF to
  <1>3. e \in TailState /\ e.at = to
    BY <1>0, <1>1, ParentStatusType DEF TailState
  <1>4. /\ tail' \in [Slots -> TailState] /\ tail'[s].at = to
        /\ \A t \in Slots \ {s} : tail'[t] = tail[t]
    <2> HIDE DEF e
    <2> QED
      BY <1>0, <1>2, <1>3
  <1>5. UNCHANGED slot /\ tail[s].at = "reconcile" /\ "reconcile" \in ClosingStages
    BY DEF ReconcileParent, vars, ClosingStages
  <1>6. TailsMatch'
    BY <1>1, <1>4, <1>5, StageNames DEF TailsMatch
  <1> QED
    BY <1>1, <1>4, <1>6

\* The stages stay well formed and in step with process_once.
LEMMA TailsType ==
    ASSUME ParentInv, [ParentNext]_allVars, Shaped
    PROVE  tail' \in [Slots -> TailState] /\ TailsMatch'
  <1> DEFINE Goal == tail' \in [Slots -> TailState] /\ TailsMatch'
  <1>0. tail \in [Slots -> TailState] /\ TypeInv /\ ParentTypeOK /\ TailsMatch
    BY ParentTyping DEF ParentInv
  <1>1. ASSUME UNCHANGED <<slot, tail>> PROVE Goal
    BY <1>0, <1>1 DEF TailsMatch
  <1>2. ASSUME TailsFollow PROVE Goal
    BY <1>0, <1>2, TailsFollowed
  <1>3. ASSUME NEW s \in Slots, NEW to \in Stages, Advances(s, to) PROVE Goal
    BY <1>0, <1>3, Advanced
  <1>4. ASSUME NEW s \in Slots, ReconcileParent(s) PROVE Goal
    BY <1>0, <1>4, ReconcilerAdvanced
  <1> HIDE DEF Goal
  <1>5. Goal
    BY <1>0, <1>1, <1>2, <1>3, <1>4, ParentWrites, StageNames
  <1> QED
    BY <1>5 DEF Goal

\* Counting children, a set of jobs.
LEMMA Counts ==
    ASSUME NEW S \in SUBSET Jobs
    PROVE  /\ Cardinality(S) \in 0 .. Cardinality(Jobs)
           /\ Cardinality(S) = Cardinality(Jobs) => S = Jobs
  <1>1. /\ IsFiniteSet(S)
        /\ Cardinality(S) <= Cardinality(Jobs)
        /\ Cardinality(S) = Cardinality(Jobs) => S = Jobs
    BY ManifestAssumption, FS_Subset
  <1>2. Cardinality(S) \in Nat /\ Cardinality(Jobs) \in Nat
    BY <1>1, ManifestAssumption, FS_CardinalityType
  <1> QED
    BY <1>1, <1>2

\* The parent row stays well formed.
LEMMA ParentRowType ==
    ASSUME ParentInv, [ParentNext]_allVars
    PROVE  parent' \in ParentRow
  <1>0. /\ parent \in ParentRow /\ tail \in [Slots -> TailState] /\ TypeInv
    BY ParentTyping DEF ParentInv
  <1>1. \A p \in ParentRow :
          /\ \A snapshot \in {"null", "MATERIALIZING", "stored"} :
               [p EXCEPT !.snapshot = snapshot] \in ParentRow
          /\ [p EXCEPT !.status = "PENDING"] \in ParentRow
          /\ \A status \in Acceptable \union {"RUNNING", "FAILED"},
                n \in 0 .. Cardinality(Jobs) :
               [[p EXCEPT !.status = status] EXCEPT !.counted = n] \in ParentRow
    BY DEF ParentRow
  <1>2. ASSUME NEW s \in Slots, ReconcileParent(s) PROVE parent' \in ParentRow
    <2> DEFINE done == {j \in Linked : VerifiedStatus(j) \in Terminal}
    <2>1. Cardinality(done) \in 0 .. Cardinality(Jobs)
      BY Counts DEF Linked
    <2>2. parent' = [[parent EXCEPT !.status = ParentStatus] EXCEPT !.counted = Cardinality(done)]
      BY <1>2 DEF ReconcileParent
    <2> HIDE DEF done
    <2> QED
      BY <1>0, <1>1, <2>1, <2>2, ParentStatusType
  <1>3. ASSUME NEW s \in Slots, ClaimMaterialization(s) PROVE parent' \in ParentRow
    BY <1>0, <1>1, <1>3 DEF ClaimMaterialization
  <1>4. ASSUME NEW stored \in BOOLEAN, FinishMaterialization(stored) PROVE parent' \in ParentRow
    <2> DEFINE to == IF parent.snapshot # "MATERIALIZING" THEN parent.snapshot
                     ELSE IF stored THEN "stored" ELSE "null"
    <2>1. to \in {"null", "MATERIALIZING", "stored"}
      BY <1>0 DEF ParentRow
    <2>2. parent' = [parent EXCEPT !.snapshot = to]
      BY <1>0, <1>4 DEF FinishMaterialization, ParentRow
    <2> HIDE DEF to
    <2> QED
      BY <1>0, <1>1, <2>1, <2>2
  <1> QED
    BY <1>0, <1>1, <1>2, <1>3, <1>4, ParentWrites DEF Finishes

\* The creator knows its incarnation and the child it is at.
LEMMA CreatorType ==
    ASSUME ParentInv, [ParentNext]_allVars, Shaped
    PROVE  /\ creator' \in CreatorState
           /\ creator'.at \in {"enqueue", "run", "link"} => creator'.worker \in Workers
           /\ creator'.at \in {"run", "link"} =>
                creator'.job \in Jobs /\ job'[creator'.job].status # "ABSENT"
  <1> DEFINE Goal ==
           /\ creator' \in CreatorState
           /\ creator'.at \in {"enqueue", "run", "link"} => creator'.worker \in Workers
           /\ creator'.at \in {"run", "link"} =>
                creator'.job \in Jobs /\ job'[creator'.job].status # "ABSENT"
  <1>0. /\ creator \in CreatorState /\ TypeInv
        /\ creator.at \in {"enqueue", "run", "link"} => creator.worker \in Workers
        /\ creator.at \in {"run", "link"} =>
             creator.job \in Jobs /\ job[creator.job].status # "ABSENT"
    BY ParentTyping DEF ParentInv, Grounded
  <1>1. creator.at \in {"run", "link"} => job'[creator.job].status # "ABSENT"
    BY <1>0, NeverAbsent
  <1>2. ASSUME UNCHANGED creator PROVE Goal
    BY <1>0, <1>1, <1>2
  <1>3. ASSUME NEW w \in Workers, CreateParent(w) PROVE Goal
    BY <1>0, <1>3 DEF CreateParent, CreatorState
  <1>4. ASSUME NEW j \in Jobs, EnqueueChild(j) PROVE Goal
    <2>1. /\ creator.at = "enqueue" /\ Enqueue(creator.worker, j)
          /\ creator' = [[creator EXCEPT !.at = "run"] EXCEPT !.job = j]
      BY <1>4 DEF EnqueueChild
    <2>2. job'[j].status = "PENDING"
      BY <2>1, <1>0 DEF Enqueue, TypeInv, TypeOK, JobRow
    <2>3. /\ creator' \in CreatorState /\ creator'.at = "run" /\ creator'.job = j
          /\ creator'.worker = creator.worker
      BY <1>0, <2>1 DEF CreatorState
    <2> QED
      BY <1>0, <2>1, <2>2, <2>3
  <1>5. ASSUME EnsureChildRun \/ LinkChild PROVE Goal
    <2>1. \E at \in {"link", "enqueue", "created"} :
            /\ creator' = [creator EXCEPT !.at = at]
            /\ creator.at \in {"run", "link"}
            /\ at = "link" => UNCHANGED job
      BY <1>5 DEF EnsureChildRun, LinkChild, vars
    <2> QED
      BY <1>0, <1>1, <2>1 DEF CreatorState
  <1>6. ASSUME NEW w \in Workers, CrashProcess(w) PROVE Goal
    <2>1. creator' = [creator EXCEPT !.at = "dead"] \/ creator' = creator
      BY <1>6 DEF CrashProcess
    <2> QED
      BY <1>0, <1>1, <2>1 DEF CreatorState
  <1> HIDE DEF Goal
  <1>7. ASSUME NEW s \in Slots, ThreadStep(s) \/ TailFails(s) PROVE UNCHANGED creator
    BY <1>7 DEF ThreadStep, TailFails, ClosingStep, RetryingStep, RuntimeStep, OpenRun, BeginStep,
         BeginPersist, PersistClaims, PersistFails, BeginReadBack, CompleteReadBack,
         CheckpointRun, Stage, TailStep, ReconcileParent, ClaimMaterialization, Materialise,
         RecordMaterialization, RecordComplete, RecordStep, FinishRun
  <1>8. ASSUME GuardedStep \/ ReconcileRuns \/ UNCHANGED allVars PROVE UNCHANGED creator
    BY <1>8 DEF GuardedStep, ReconcileRuns, allVars, parentVars
  <1>9. Goal
    BY <1>2, <1>3, <1>4, <1>5, <1>6, <1>7, <1>8 DEF ParentNext, CreatorStep
  <1> QED
    BY <1>9 DEF Goal

\* Every step of the composition preserves its invariant.
LEMMA ParentStep ==
    ASSUME ParentInv, [ParentNext]_allVars
    PROVE  ParentInv' /\ [Next]_vars /\ Shaped
  <1>1. [Next]_vars
    BY QueueSteps DEF ParentInv
  <1>2. TypeInv' /\ Shaped
    BY <1>1, StepType, StepShape DEF ParentInv
  <1>3. ParentTypeOK'
    BY <1>2, RunType, StepsType, ChildType, ParentRowType, CreatorType, TailsType
       DEF ParentTypeOK, RunStatus, JobStatus, ParentRow, CreatorState, TailState
  <1>4. Grounded'
    <2>1. ASSUME NEW s \in Slots, slot'[s].pc \in Busy
          PROVE  job'[slot'[s].job].status # "ABSENT"
      <3>1. CASE slot[s].pc \in Busy /\ slot'[s].job = slot[s].job
        BY <1>2, <3>1, NeverAbsent, Typing DEF ParentInv, Grounded
      <3>2. CASE job'[slot'[s].job].status = "RUNNING"
        BY <3>2
      <3> QED
        BY <1>2, <2>1, <3>1, <3>2, ThreadFlow DEF ParentInv
    <2> QED
      BY <1>2, <2>1, ChildType, CreatorType DEF Grounded
  <1> QED
    BY <1>1, <1>2, <1>3, <1>4, TailsType DEF ParentInv

\* The composition begins with nothing.
LEMMA ParentInit_OK ==
    ASSUME ParentInit
    PROVE  ParentInv /\ Fenced
  <1>1. TypeInv /\ Fenced
    BY InitType, InitFenced DEF ParentInit
  <1>2. ParentTypeOK
    BY ManifestAssumption, FS_CardinalityType DEF ParentInit, ParentTypeOK, Stages, Paths, Resting
  <1>3. TailsMatch
    BY AtType, StageNames DEF ParentInit, Init, TailsMatch, Resting, At
  <1>4. Grounded
    BY AtType DEF ParentInit, Init, Grounded
  <1> QED
    BY <1>1, <1>2, <1>3, <1>4 DEF ParentInv

\* Every reachable state of the composition is well formed.
THEOREM ParentInvariance == ParentSpec => []ParentInv
  <1>1. ParentInit => ParentInv
    BY ParentInit_OK
  <1>2. ParentInv /\ [ParentNext]_allVars => ParentInv'
    BY ParentStep
  <1> QED
    BY <1>1, <1>2, PTL DEF ParentSpec

\* Type correctness of the parent, its children, their runs and the stages of threads.
THEOREM ParentTypeCorrect == ParentSpec => []ParentTypeOK
  <1>1. ParentInv => ParentTypeOK
    BY DEF ParentInv
  <1> QED
    BY <1>1, ParentInvariance, PTL

-----------------------------------------------------------------------------
(* What the queue promises holds in the composition *)

\* The composition implements the queue: what coordinators, runtimes, tails and the
\* migration do to jobs, attempts and threads, the queue could have done itself.
THEOREM ParentFollowsQueue == ParentSpec => Spec
  <1>1. ParentInit => Init
    BY DEF ParentInit
  <1>2. ParentInv /\ [ParentNext]_allVars => [Next]_vars
    BY QueueSteps DEF ParentInv
  <1> QED
    BY <1>1, <1>2, ParentInvariance, PTL DEF ParentSpec, Spec

\* So they orphan no job that its own thread's exception or a crash did not orphan,
THEOREM ParentOrphanedOnlyByExit == ParentSpec => []OrphanedOnlyByExit
  <1> QED
    BY ParentFollowsQueue, OrphanedOnlyByExitThm, PTL

\* nor do they reopen a closed job, or relabel one that is no repairable failure,
THEOREM ParentTerminalIsFinal == ParentSpec => TerminalIsFinal
  <1> QED
    BY ParentFollowsQueue, TerminalIsFinalThm, PTL

\* the attempts stay fenced with all that follows from it for the ledger, under the
\* condition the queue needs for it,
THEOREM ParentFenced == ParentSpec /\ []SiblingsApart => []Fenced
  <1> QED
    BY ParentFollowsQueue, FencedThm, PTL

\* and what needs no condition, for any number of threads, holds here too.
THEOREM ParentAttemptsLed == ParentSpec => []AttemptsLed
  <1> QED
    BY ParentFollowsQueue, AttemptsLedThm, PTL

-----------------------------------------------------------------------------
(* The parent *)

\* Whoever materialises holds the claim and is alone.
LEMMA MaterialiserStep ==
    ASSUME ParentInv, OneMaterialiser, [ParentNext]_allVars
    PROVE  OneMaterialiser'
  <1>0. /\ TypeInv /\ ParentTypeOK /\ TailsMatch /\ Shaped
        /\ tail \in [Slots -> TailState] /\ parent \in ParentRow
    BY ParentStep, ParentTyping DEF ParentInv
  <1>1. \A p \in ParentRow :
          /\ \A snapshot : [p EXCEPT !.snapshot = snapshot].snapshot = snapshot
          /\ [p EXCEPT !.status = "PENDING"].snapshot = p.snapshot
    BY DEF ParentRow
  <1>2. ASSUME parent'.snapshot = parent.snapshot,
               \A s \in Slots : tail'[s].at = "materialise" => tail[s].at = "materialise"
        PROVE  OneMaterialiser'
    BY <1>2 DEF OneMaterialiser
  <1>3. ASSUME TailsFollow
        PROVE  \A s \in Slots : tail'[s].at = "materialise" => tail[s].at = "materialise"
    BY <1>0, <1>3, TailsFollowed
  <1>4. ASSUME NEW s \in Slots, NEW to \in Stages, Advances(s, to)
        PROVE  tail'[s].at = to /\ \A t \in Slots \ {s} : tail'[t] = tail[t]
    BY <1>0, <1>4, Advanced
  <1>5. CASE UNCHANGED <<slot, tail, parent>>
    BY <1>2, <1>5
  <1>6. CASE UNCHANGED parent /\ TailsFollow
    BY <1>2, <1>3, <1>6
  <1>7. ASSUME NEW s \in Slots, ReconcileParent(s)
        PROVE  OneMaterialiser'
    <2>1. parent'.snapshot = parent.snapshot
      BY <1>0, <1>7 DEF ReconcileParent, ParentRow
    <2>2. \A t \in Slots : tail'[t].at = "materialise" => tail[t].at = "materialise"
      BY <1>0, <1>7, ReconcilerAdvanced
    <2> QED
      BY <1>2, <2>1, <2>2
  <1>8. ASSUME NEW s \in Slots, ClaimMaterialization(s),
               NEW to \in ClosingStages, Advances(s, to)
        PROVE  OneMaterialiser'
    <2>0. tail'[s].at = to /\ \A t \in Slots \ {s} : tail'[t] = tail[t]
      BY <1>4, <1>8, StageNames
    <2>1. CASE to = "materialise"
      <3>1. parent.snapshot = "null" /\ ~ \E t \in Slots : tail[t].at = "materialise"
        BY <1>8, <2>1 DEF Advances, OneMaterialiser
      <3>2. CASE parent.status \in Acceptable
        <4>0. parent' = [parent EXCEPT !.snapshot = "MATERIALIZING"]
          BY <1>8, <3>1, <3>2 DEF ClaimMaterialization
        <4>1. parent'.snapshot = "MATERIALIZING"
          BY <1>0, <4>0 DEF ParentRow
        <4> QED
          BY <2>0, <3>1, <4>1 DEF OneMaterialiser
      <3>3. CASE parent.status \notin Acceptable
        <4>1. After(s, Rest(s))
          BY <1>8, <3>3 DEF ClaimMaterialization
        <4>2. tail'[s].at # "materialise"
          BY <1>0, <4>1 DEF After, Rest, TailState
        <4> QED
          BY <2>0, <2>1, <4>2
      <3> QED
        BY <3>2, <3>3
    <2>2. CASE to # "materialise"
      <3>1. \A t \in Slots : tail'[t].at = "materialise" => tail[t].at = "materialise"
        BY <2>0, <2>2
      <3>2. parent' = parent
        <4>1. ~ After(s, "materialise")
          BY <1>0, <2>0, <2>2 DEF After, TailState
        <4> QED
          BY <1>8, <4>1 DEF ClaimMaterialization
      <3> QED
        BY <1>2, <3>1, <3>2
    <2> QED
      BY <2>1, <2>2
  <1>9. ASSUME NEW s \in Slots, Finishes(s),
               TailsFollow \/ \E to \in ClosingStages \ {"materialise"} : Advances(s, to)
        PROVE  OneMaterialiser'
    <2>1. \A t \in Slots : tail'[t].at = "materialise" => tail[t].at = "materialise"
      BY <1>3, <1>4, <1>9, StageNames
    <2>2. \A t \in Slots : tail[t].at = "materialise" => t = s
      BY <1>9 DEF Finishes, OneMaterialiser
    <2>3. \A t \in Slots : tail'[t].at # "materialise"
      BY <1>9, <2>1, <2>2 DEF Finishes
    <2> QED
      BY <2>3 DEF OneMaterialiser
  <1>10. ASSUME NEW s \in Slots, UNCHANGED parent,
                NEW to \in (RuntimeStages \union ClosingStages) \ {"materialise"}, Advances(s, to)
         PROVE  OneMaterialiser'
    BY <1>2, <1>4, <1>10, StageNames
  <1>11. CASE parent' = [parent EXCEPT !.status = "PENDING"] /\ UNCHANGED <<slot, tail>>
    BY <1>0, <1>1, <1>2, <1>11
  <1> QED
    BY <1>0, <1>5, <1>6, <1>7, <1>8, <1>9, <1>10, <1>11, ParentWrites

\* The parent's context is materialised by one thread at a time, which holds the claim.
THEOREM OneMaterialiserThm == ParentSpec => []OneMaterialiser
  <1>1. ParentInit => OneMaterialiser
    BY DEF ParentInit, OneMaterialiser, Resting
  <1>2. ParentInv /\ OneMaterialiser /\ [ParentNext]_allVars => OneMaterialiser'
    BY MaterialiserStep
  <1> QED
    BY <1>1, <1>2, ParentInvariance, PTL DEF ParentSpec

\* A stored snapshot stays: what could give it back holds the claim, and the claim
\* is not to be had again.
THEOREM StoredOnceThm == ParentSpec => StoredOnce
  <1>1. ParentInv /\ [ParentNext]_allVars =>
          (parent.snapshot = "stored" => parent'.snapshot = "stored")
    <2> SUFFICES ASSUME ParentInv, [ParentNext]_allVars, parent.snapshot = "stored"
                 PROVE  parent'.snapshot = "stored"
      OBVIOUS
    <2>0. /\ TypeInv /\ tail \in [Slots -> TailState] /\ parent \in ParentRow
      BY ParentTyping DEF ParentInv
    <2>1. ASSUME NEW s \in Slots, ReconcileParent(s)
          PROVE  parent'.snapshot = "stored"
      BY <2>0, <2>1 DEF ReconcileParent, ParentRow
    <2>2. ASSUME NEW s \in Slots, ClaimMaterialization(s)
          PROVE  parent'.snapshot = "stored"
      BY <2>2 DEF ClaimMaterialization
    <2>3. ASSUME NEW s \in Slots, Finishes(s)
          PROVE  parent'.snapshot = "stored"
      BY <2>0, <2>3 DEF Finishes, FinishMaterialization, ParentRow
    <2>4. ASSUME parent' = [parent EXCEPT !.status = "PENDING"]
          PROVE  parent'.snapshot = "stored"
      BY <2>0, <2>4 DEF ParentRow
    <2> QED
      BY <2>0, <2>1, <2>2, <2>3, <2>4, ParentWrites
  <1> QED
    BY <1>1, ParentInvariance, PTL DEF ParentSpec, StoredOnce

\* A parent that has counted every topic and says SUCCEEDED has no failed child behind
\* it, whatever the threads, runs and reconciliations do in between.
THEOREM SucceededIsEarnedThm == ParentSpec => []SucceededIsEarned
  <1>1. ParentInit => SucceededIsEarned
    BY DEF ParentInit, SucceededIsEarned
  <1>2. ParentInv /\ SucceededIsEarned /\ [ParentNext]_allVars => SucceededIsEarned'
    <2> SUFFICES ASSUME ParentInv, SucceededIsEarned, [ParentNext]_allVars,
                        parent'.status = "SUCCEEDED", parent'.counted = Cardinality(Jobs)
                 PROVE  \A j \in Jobs : job'[j].status \in {"SUCCEEDED", "NO_DATA"}
      BY DEF SucceededIsEarned
    <2>0. /\ TypeInv /\ [Next]_vars /\ tail \in [Slots -> TailState] /\ parent \in ParentRow
      BY ParentTyping, ParentStep DEF ParentInv
    <2>1. ASSUME \A j \in Jobs : job[j].status \in {"SUCCEEDED", "NO_DATA"}
          PROVE  \A j \in Jobs : job'[j].status \in {"SUCCEEDED", "NO_DATA"}
      BY <2>0, <2>1, ClosedStays DEF Terminal, Relabelled
    <2>2. ASSUME parent'.status = parent.status, parent'.counted = parent.counted
          PROVE  \A j \in Jobs : job'[j].status \in {"SUCCEEDED", "NO_DATA"}
      BY <2>1, <2>2 DEF SucceededIsEarned
    <2>3. ASSUME NEW s \in Slots, ReconcileParent(s)
          PROVE  \A j \in Jobs : job'[j].status \in {"SUCCEEDED", "NO_DATA"}
      <3> DEFINE done == {j \in Linked : VerifiedStatus(j) \in Terminal}
      <3>1. /\ parent'.status = ParentStatus
            /\ parent'.counted = Cardinality(done)
        BY <2>0, <2>3 DEF ReconcileParent, ParentRow
      <3>2. done = Jobs
        BY <3>1, Counts DEF Linked
      <3>3. Linked = Jobs /\ \A j \in Jobs : VerifiedStatus(j) \in Terminal
        BY <3>2 DEF Linked
      <3> QED
        BY <2>1, <3>1, <3>3, SucceededChildren
    <2>4. ASSUME NEW s \in Slots, ClaimMaterialization(s) \/ Finishes(s)
          PROVE  \A j \in Jobs : job'[j].status \in {"SUCCEEDED", "NO_DATA"}
      BY <2>0, <2>2, <2>4 DEF ClaimMaterialization, Finishes, FinishMaterialization, ParentRow
    <2>5. ASSUME parent' = [parent EXCEPT !.status = "PENDING"]
          PROVE  \A j \in Jobs : job'[j].status \in {"SUCCEEDED", "NO_DATA"}
      BY <2>0, <2>5 DEF ParentRow
    <2> QED
      BY <2>0, <2>2, <2>3, <2>4, <2>5, ParentWrites
  <1> QED
    BY <1>1, <1>2, ParentInvariance, PTL DEF ParentSpec
=============================================================================
