----------------------- MODULE ResearchInvocationProofs -----------------------
(***************************************************************************)
(* Proofs about ResearchInvocation, for all sets of threads, pages,        *)
(* contents and answers, and any number of disturbances.                   *)
(***************************************************************************)
EXTENDS ResearchInvocation, TLAPS

\* The part of TypeOK about the tables ...
Stores ==
    /\ page \in [Urls -> Contents \union {"REJECTED"}]
    /\ step \in [Steps -> {"none", "RUNNING", "COMPLETED", "FAILED"}]
    /\ extracted \subseteq Urls \X Contents
    /\ calls \in Seq(Invocation)
    /\ sources \in [Urls -> SourceRow]
    /\ claims \subseteq [url : Urls, text : Contents, hash : Contents]
    /\ job \in {"open", "SUCCEEDED", "TIMED_OUT", "FAILED"}
    /\ owner \in Threads \union {None}
    /\ fetched \subseteq Urls \X Contents
    /\ overlapped \in BOOLEAN
    /\ disturbed \in 0 .. Disturbances

\* ... and the part about the threads: each has what its phase works on.
Fits(r, n) ==
    /\ r.pc = "calling" => r.call \in 1 .. n
    /\ r.pc \in Answering => r.answer \in Answers
    /\ r.pc = "fetch" => r.url \in Urls
    /\ r.pc = "persist" => r.read \in [Urls -> SourceRow]

Threaded ==
    /\ thread \in [Threads -> ThreadState]
    /\ \A t \in Threads : Fits(thread[t], Len(calls))

LEMMA TypeParts == TypeOK <=> Stores /\ Threaded
  BY DEF TypeOK, Stores, Threaded, Fits, At

\* One thread moves to a well formed state, and no call is forgotten.
LEMMA ThreadMoves ==
    ASSUME Threaded, NEW t \in Threads, NEW r \in ThreadState, Becomes(t, r),
           Len(calls) \in Nat, Len(calls') \in Nat, Len(calls) <= Len(calls'),
           Fits(r, Len(calls'))
    PROVE  Threaded'
  BY DEF Threaded, Becomes, Fits

LEMMA PhaseNames ==
    /\ Answering \subseteq Phases
    /\ "idle" \in Phases /\ "PLAN" \in Phases /\ "SEARCH" \in Phases /\ "latest" \in Phases
    /\ "calling" \in Phases /\ "fail PLAN" \in Phases /\ "fail SEARCH" \in Phases
    /\ "complete EXTRACT" \in Phases /\ "PERSIST" \in Phases /\ "read" \in Phases
    /\ "persist" \in Phases /\ "READ_BACK" \in Phases /\ "read back" \in Phases
    /\ "return" \in Phases
    /\ "complete PLAN" \in Phases /\ "complete SEARCH" \in Phases /\ "OPEN_SOURCE" \in Phases
    /\ "acquire" \in Phases /\ "fetch" \in Phases /\ "EXTRACT" \in Phases
    /\ "verify" \in Phases
  BY DEF Phases, Answering

\* The states without anything in hand.
LEMMA IdleType ==
    /\ Idle \in ThreadState /\ Idle.pc = "idle"
    /\ \A n : Fits(Idle, n) /\ Fits([Idle EXCEPT !.pc = "READ_BACK"], n)
    /\ [Idle EXCEPT !.pc = "READ_BACK"] \in ThreadState
  <1>1. Idle \in ThreadState /\ Idle.pc = "idle"
    BY PhaseNames DEF Idle, ThreadState
  <1> DEFINE r == [Idle EXCEPT !.pc = "READ_BACK"]
  <1>2. r \in ThreadState /\ r.pc = "READ_BACK"
    BY <1>1, PhaseNames DEF ThreadState
  <1> HIDE DEF r
  <1>3. \A n : Fits(Idle, n) /\ Fits(r, n)
    BY <1>1, <1>2 DEF Fits, Answering
  <1> QED
    BY <1>1, <1>2, <1>3 DEF r

LEMMA Mine ==
    ASSUME Threaded, NEW t \in Threads
    PROVE  thread[t] \in ThreadState /\ Fits(thread[t], Len(calls))
  BY DEF Threaded

\* Most actions leave the calls as they are.
LEMMA Advances ==
    ASSUME Stores, Threaded, NEW t \in Threads, NEW r \in ThreadState, Becomes(t, r),
           calls' = calls, Fits(r, Len(calls'))
    PROVE  Threaded'
  BY DEF Threaded, Becomes

LEMMA Resets ==
    ASSUME Stores, Threaded, NEW t \in Threads, Becomes(t, Idle), calls' = calls
    PROVE  Threaded'
  BY Advances, IdleType

-----------------------------------------------------------------------------
(* What every action does to the tables *)

LEMMA CallsType ==
    ASSUME Stores
    PROVE  /\ Len(calls) \in Nat
           /\ LatestAnswer \in Answers \union {None}
           /\ calls # <<>> => Len(calls) \in 1 .. Len(calls)
  <1>1. calls \in Seq(Invocation) /\ Len(calls) \in Nat
    BY DEF Stores
  <1>2. CASE calls = <<>>
    BY <1>1, <1>2 DEF LatestAnswer
  <1>3. CASE calls # <<>>
    <2>1. Len(calls) \in 1 .. Len(calls)
      BY <1>1, <1>3
    <2>2. calls[Len(calls)] \in Invocation
      BY <1>1, <2>1
    <2>3. calls[Len(calls)].answer \in Answers \union {None}
      BY <2>2 DEF Invocation
    <2> QED
      BY <1>1, <1>3, <2>1, <2>3 DEF LatestAnswer
  <1> QED
    BY <1>2, <1>3

\* A call appends its row.
LEMMA CallRow ==
    ASSUME Stores, calls' = Append(calls, [status |-> "ATTEMPTED", answer |-> None])
    PROVE  calls' \in Seq(Invocation) /\ Len(calls') = Len(calls) + 1
  <1> DEFINE row == [status |-> "ATTEMPTED", answer |-> None]
  <1>1. row \in Invocation
    BY DEF Invocation
  <1> HIDE DEF row
  <1>2. calls \in Seq(Invocation) /\ calls' = Append(calls, row)
    BY DEF Stores, row
  <1> QED
    BY <1>1, <1>2

\* And its end, good or bad, overwrites it.
LEMMA CallEnds ==
    ASSUME Stores, NEW i \in 1 .. Len(calls), NEW row \in Invocation,
           calls' = [calls EXCEPT ![i] = row]
    PROVE  calls' \in Seq(Invocation) /\ Len(calls') = Len(calls)
  BY DEF Stores

LEMMA CallAborts ==
    ASSUME Stores, NEW i \in 1 .. Len(calls), calls' = [calls EXCEPT ![i].status = "ABORTED"]
    PROVE  calls' \in Seq(Invocation) /\ Len(calls') = Len(calls)
  <1>1. calls[i] \in Invocation
    BY DEF Stores
  <1>2. [calls[i] EXCEPT !.status = "ABORTED"] \in Invocation
    BY <1>1 DEF Invocation
  <1> QED
    BY <1>2, CallEnds

\* A step that begins is stored, and the thread goes one of two ways.
LEMMA BeginType ==
    ASSUME Stores, NEW t, NEW s \in Steps, NEW executed, NEW skipped,
           Begin(t, s, executed, skipped)
    PROVE  /\ step' \in [Steps -> {"none", "RUNNING", "COMPLETED", "FAILED"}]
           /\ Becomes(t, executed) \/ Becomes(t, skipped)
  BY DEF Stores, Begin

LEMMA WriteType ==
    ASSUME Stores, NEW s \in Steps, Complete(s) \/ Fail(s) \/ UNCHANGED step
    PROVE  step' \in [Steps -> {"none", "RUNNING", "COMPLETED", "FAILED"}]
  BY DEF Stores, Complete, Fail

LEMMA LeavesType ==
    ASSUME Stores, NEW t, NEW status \in {"open", "SUCCEEDED", "TIMED_OUT", "FAILED"},
           Leaves(t, status)
    PROVE  /\ Becomes(t, Idle)
           /\ job' \in {"open", "SUCCEEDED", "TIMED_OUT", "FAILED"}
           /\ owner' \in Threads \union {None}
  BY DEF Stores, Leaves

LEMMA DisturbType == ASSUME Stores, Disturb PROVE disturbed' \in 0 .. Disturbances
  BY InvocationAssumption DEF Stores, Disturb

-----------------------------------------------------------------------------
(* Type correctness, action by action *)

LEMMA AcquireType ==
    ASSUME Stores, Threaded, NEW t \in Threads, Acquire(t)
    PROVE  Stores' /\ Threaded'
  <1> DEFINE r == [thread[t] EXCEPT !.pc = "PLAN"]
  <1>1. Stores' /\ Becomes(t, r) /\ calls' = calls
    BY DEF Stores, Acquire, Goes, stored, history
  <1>2. r \in ThreadState /\ r.pc = "PLAN"
    BY Mine, PhaseNames DEF ThreadState
  <1> HIDE DEF r
  <1>3. Fits(r, Len(calls'))
    BY <1>2 DEF Fits, Answering
  <1> QED
    BY <1>1, <1>2, <1>3, Advances

LEMMA BeginCallType ==
    ASSUME Stores, Threaded, NEW t \in Threads,
           BeginCall(t, "PLAN", "SEARCH") \/ BeginCall(t, "SEARCH", "latest")
    PROVE  Stores' /\ Threaded'
  <1>1. ASSUME NEW s \in {"PLAN", "SEARCH"}, NEW next \in {"SEARCH", "latest"},
               BeginCall(t, s, next)
        PROVE  Stores' /\ Threaded'
    <2> DEFINE e == [thread[t] EXCEPT !.pc = next, !.execute = @ \union {s}]
               k == [thread[t] EXCEPT !.pc = next]
    <2>1. /\ step' \in [Steps -> {"none", "RUNNING", "COMPLETED", "FAILED"}]
          /\ Becomes(t, e) \/ Becomes(t, k)
      BY <1>1, BeginType DEF BeginCall, Steps
    <2>2. Stores' /\ calls' = calls
      BY <1>1, <2>1 DEF BeginCall, Stores, history
    <2>3. e \in ThreadState /\ e.pc = next
      BY Mine, PhaseNames DEF ThreadState
    <2>4. k \in ThreadState /\ k.pc = next
      BY Mine, PhaseNames DEF ThreadState
    <2> HIDE DEF e, k
    <2>5. Fits(e, Len(calls')) /\ Fits(k, Len(calls'))
      BY <2>3, <2>4 DEF Fits, Answering
    <2> QED
      BY <2>1, <2>2, <2>3, <2>4, <2>5, Advances
  <1> QED
    BY <1>1

LEMMA ReuseType ==
    ASSUME Stores, Threaded, NEW t \in Threads, Reuse(t)
    PROVE  Stores' /\ Threaded'
  <1> DEFINE r == [thread[t] EXCEPT !.answer = LatestAnswer, !.pc = "OPEN_SOURCE"]
  <1>1. Stores' /\ calls' = calls
    BY DEF Stores, Reuse, stored, history
  <1>2. LatestAnswer \in Answers
    BY CallsType DEF Reuse, MustCall
  <1>3. Becomes(t, r)
    BY DEF Reuse
  <1>4. r \in ThreadState
    BY <1>2, Mine, PhaseNames DEF ThreadState
  <1>5. r.pc = "OPEN_SOURCE" /\ r.answer \in Answers
    BY <1>2, Mine DEF ThreadState
  <1> HIDE DEF r
  <1>6. Fits(r, Len(calls'))
    BY <1>5 DEF Fits
  <1> QED
    BY <1>1, <1>3, <1>4, <1>6, Advances

LEMMA CallType ==
    ASSUME Stores, Threaded, NEW t \in Threads, Call(t)
    PROVE  Stores' /\ Threaded'
  <1> DEFINE r == [thread[t] EXCEPT !.call = Len(calls'), !.pc = "calling"]
  <1>1. calls' \in Seq(Invocation) /\ Len(calls') = Len(calls) + 1
    BY CallRow DEF Call
  <1>2. Stores'
    BY <1>1 DEF Stores, Call, history
  <1>3. Len(calls') \in Nat /\ Len(calls') \in 1 .. Len(calls')
    BY <1>1, CallsType
  <1>4. r \in ThreadState /\ r.pc = "calling" /\ r.call = Len(calls')
    BY <1>3, Mine, PhaseNames DEF ThreadState
  <1>5. Becomes(t, r)
    BY DEF Call
  <1> HIDE DEF r
  <1>6. Fits(r, Len(calls'))
    BY <1>3, <1>4 DEF Fits, Answering
  <1> QED
    BY <1>1, <1>2, <1>4, <1>5, <1>6, CallsType, ThreadMoves

LEMMA AnsweredType ==
    ASSUME Stores, Threaded, NEW t \in Threads, Answered(t)
    PROVE  Stores' /\ Threaded'
  <1>1. PICK a \in Answers :
          /\ calls' = [calls EXCEPT ![thread[t].call] = [status |-> "COMPLETED", answer |-> a]]
          /\ Becomes(t, [thread[t] EXCEPT !.answer = a, !.progress = TRUE, !.pc = "complete PLAN"])
    BY DEF Answered
  <1> DEFINE r == [thread[t] EXCEPT !.answer = a, !.progress = TRUE, !.pc = "complete PLAN"]
             row == [status |-> "COMPLETED", answer |-> a]
  <1>2. row \in Invocation
    BY DEF Invocation
  <1>3. thread[t].call \in 1 .. Len(calls)
    BY Mine DEF Answered, At, Fits
  <1>4. calls' = [calls EXCEPT ![thread[t].call] = row]
    BY <1>1
  <1> HIDE DEF row
  <1>5. calls' \in Seq(Invocation) /\ Len(calls') = Len(calls)
    BY <1>2, <1>3, <1>4, CallEnds
  <1>6. Stores'
    BY <1>5 DEF Stores, Answered, history
  <1>7. r \in ThreadState
    BY Mine, PhaseNames DEF ThreadState
  <1>8. r.pc = "complete PLAN" /\ r.answer \in Answers
    BY Mine DEF ThreadState
  <1>9. Becomes(t, r)
    BY <1>1
  <1> HIDE DEF r
  <1>10. Fits(r, Len(calls'))
    BY <1>8 DEF Fits
  <1> QED
    BY <1>5, <1>6, <1>7, <1>9, <1>10, CallsType, ThreadMoves

LEMMA AbortType ==
    ASSUME Stores, Threaded, NEW t \in Threads, BackendFails(t) \/ AnswerUnusable(t)
    PROVE  Stores' /\ Threaded'
  <1> DEFINE r == [thread[t] EXCEPT !.pc = "fail PLAN"]
  <1>1. thread[t].call \in 1 .. Len(calls)
    BY Mine DEF BackendFails, AnswerUnusable, At, Fits
  <1>2. calls' \in Seq(Invocation) /\ Len(calls') = Len(calls)
    BY <1>1, CallAborts DEF BackendFails, AnswerUnusable
  <1>3. CASE BackendFails(t)
    <2>1. Stores' /\ Becomes(t, r)
      BY <1>2, <1>3, DisturbType DEF Stores, BackendFails, Goes
    <2>2. r \in ThreadState /\ r.pc = "fail PLAN"
      BY Mine, PhaseNames DEF ThreadState
    <2> HIDE DEF r
    <2>3. Fits(r, Len(calls'))
      BY <2>2 DEF Fits, Answering
    <2> QED
      <3>1. Len(calls) \in Nat /\ Len(calls') \in Nat /\ Len(calls) <= Len(calls')
        BY <1>2, CallsType
      <3> QED
        BY <2>1, <2>2, <2>3, <3>1, ThreadMoves
  <1>4. CASE AnswerUnusable(t)
    <2>1. Stores' /\ Becomes(t, Idle)
      BY <1>2, <1>4, DisturbType, LeavesType DEF Stores, AnswerUnusable
    <2> QED
      BY <1>2, <2>1, IdleType, CallsType, ThreadMoves
  <1> QED
    BY <1>3, <1>4

LEMMA FailPlanType ==
    ASSUME Stores, Threaded, NEW t \in Threads, FailPlan(t)
    PROVE  Stores' /\ Threaded'
  <1> DEFINE r == [thread[t] EXCEPT !.pc = "fail SEARCH"]
  <1>1. step' \in [Steps -> {"none", "RUNNING", "COMPLETED", "FAILED"}]
    BY WriteType DEF FailPlan, Steps
  <1>2. Stores' /\ calls' = calls /\ Becomes(t, r)
    BY <1>1 DEF Stores, FailPlan, Goes, history
  <1>3. r \in ThreadState /\ r.pc = "fail SEARCH"
    BY Mine, PhaseNames DEF ThreadState
  <1> HIDE DEF r
  <1>4. Fits(r, Len(calls'))
    BY <1>3 DEF Fits, Answering
  <1> QED
    BY <1>2, <1>3, <1>4, Advances

LEMMA FailSearchType ==
    ASSUME Stores, Threaded, NEW t \in Threads, FailSearch(t)
    PROVE  Stores' /\ Threaded'
  <1>1. step' \in [Steps -> {"none", "RUNNING", "COMPLETED", "FAILED"}]
    BY WriteType DEF FailSearch, Steps
  <1>2. PICK status \in {"open", "FAILED"} : Leaves(t, status)
    BY DEF FailSearch
  <1>3. Stores' /\ calls' = calls /\ Becomes(t, Idle)
    BY <1>1, <1>2, LeavesType DEF Stores, FailSearch, history
  <1> QED
    BY <1>3, Resets

LEMMA CompleteCallType ==
    ASSUME Stores, Threaded, NEW t \in Threads,
           CompleteCall(t, "PLAN", "complete SEARCH") \/ CompleteCall(t, "SEARCH", "OPEN_SOURCE")
    PROVE  Stores' /\ Threaded'
  <1>1. ASSUME NEW s \in {"PLAN", "SEARCH"}, NEW next \in {"complete SEARCH", "OPEN_SOURCE"},
               CompleteCall(t, s, next)
        PROVE  Stores' /\ Threaded'
    <2> DEFINE r == [thread[t] EXCEPT !.execute = @ \ {s}, !.call = 0, !.pc = next]
    <2>1. step' \in [Steps -> {"none", "RUNNING", "COMPLETED", "FAILED"}]
      BY <1>1, WriteType DEF CompleteCall, Steps
    <2>2. Stores' /\ calls' = calls /\ Becomes(t, r)
      BY <1>1, <2>1 DEF CompleteCall, Stores, history
    <2>3. thread[t].answer \in Answers
      BY <1>1, Mine DEF CompleteCall, At, Fits, Answering
    <2>4. r \in ThreadState
      <3>1. next \in Answering /\ 0 \in Nat
        BY DEF Answering
      <3>2. thread[t].execute \ {s} \in SUBSET {"PLAN", "SEARCH"}
        BY Mine DEF ThreadState
      <3> QED
        BY <3>1, <3>2, Mine, PhaseNames DEF ThreadState
    <2>5. r.pc = next /\ r.answer = thread[t].answer
      BY Mine DEF ThreadState
    <2> HIDE DEF r
    <2>6. Fits(r, Len(calls'))
      BY <2>3, <2>5 DEF Fits, Answering
    <2> QED
      BY <2>2, <2>4, <2>6, Advances
  <1> QED
    BY <1>1

\* In the phases of the service the thread has the answer, up to EXTRACT.
LEMMA HasAnswer ==
    ASSUME Threaded, NEW t \in Threads, thread[t].pc \in Answering
    PROVE  thread[t].answer \in Answers
  BY Mine DEF Fits

LEMMA BeginOpenType ==
    ASSUME Stores, Threaded, NEW t \in Threads, BeginOpen(t)
    PROVE  Stores' /\ Threaded'
  <1> DEFINE e == [thread[t] EXCEPT !.pc = "acquire", !.left = Requested(t)]
             k == [thread[t] EXCEPT !.pc = "EXTRACT"]
  <1>1. /\ step' \in [Steps -> {"none", "RUNNING", "COMPLETED", "FAILED"}]
        /\ Becomes(t, e) \/ Becomes(t, k)
    BY BeginType DEF BeginOpen, Steps
  <1>2. Stores' /\ calls' = calls
    BY <1>1 DEF BeginOpen, Stores, history
  <1>3. thread[t].answer \in Answers
    BY HasAnswer DEF BeginOpen, At, Answering
  <1>4. Requested(t) \subseteq Urls
    BY DEF Requested
  <1>5. e \in ThreadState
    BY <1>4, Mine, PhaseNames DEF ThreadState
  <1>6. k \in ThreadState
    BY Mine, PhaseNames DEF ThreadState
  <1>7. /\ e.pc = "acquire" /\ e.answer = thread[t].answer
        /\ k.pc = "EXTRACT" /\ k.answer = thread[t].answer
    BY Mine DEF ThreadState
  <1> HIDE DEF e, k
  <1>8. Fits(e, Len(calls')) /\ Fits(k, Len(calls'))
    BY <1>3, <1>7 DEF Fits, Answering
  <1> QED
    BY <1>1, <1>2, <1>5, <1>6, <1>8, Advances

LEMMA LookType ==
    ASSUME Stores, Threaded, NEW t \in Threads, Look(t)
    PROVE  Stores' /\ Threaded'
  <1>1. PICK u \in thread[t].left :
          Becomes(t, IF Known(u) THEN [thread[t] EXCEPT !.left = @ \ {u}, !.acquired = TRUE]
                                 ELSE [thread[t] EXCEPT !.url = u, !.pc = "fetch"])
    BY DEF Look
  <1> DEFINE k == [thread[t] EXCEPT !.left = @ \ {u}, !.acquired = TRUE]
             f == [thread[t] EXCEPT !.url = u, !.pc = "fetch"]
  <1>2. Stores' /\ calls' = calls
    BY DEF Look, Stores, stored, history
  <1>3. u \in Urls /\ thread[t].pc = "acquire" /\ thread[t].answer \in Answers
    BY Mine, HasAnswer DEF Look, At, ThreadState, Answering
  <1>4. k \in ThreadState
    BY Mine, PhaseNames DEF ThreadState
  <1>5. f \in ThreadState
    <2>1. "fetch" \in Answering /\ u \in Urls \union {None}
      BY <1>3 DEF Answering
    <2>2. thread[t] \in ThreadState
      BY Mine
    <2> QED
      BY <2>1, <2>2, PhaseNames DEF ThreadState
  <1>6. /\ k.pc = "acquire" /\ k.answer = thread[t].answer
        /\ f.pc = "fetch" /\ f.answer = thread[t].answer /\ f.url = u
    BY <1>3, Mine DEF ThreadState
  <1>7. Becomes(t, k) \/ Becomes(t, f)
    BY <1>1
  <1> HIDE DEF k, f
  <1>8. Fits(k, Len(calls')) /\ Fits(f, Len(calls'))
    BY <1>3, <1>6 DEF Fits, Answering
  <1> QED
    BY <1>2, <1>4, <1>5, <1>7, <1>8, Advances

\* What a fetch stores, and remembers.
LEMMA FetchWrites ==
    ASSUME Stores, Threaded, NEW t \in Threads, Fetch(t)
    PROVE  /\ thread[t].url \in Urls
           /\ sources' = [sources EXCEPT ![thread[t].url] = page[thread[t].url]]
           /\ fetched' = IF page[thread[t].url] \in Contents
                         THEN fetched \union {<<thread[t].url, page[thread[t].url]>>}
                         ELSE fetched
           /\ sources' \in [Urls -> SourceRow]
           /\ fetched' \subseteq Urls \X Contents
           /\ fetched \subseteq fetched'
  <1>1. thread[t].url \in Urls
    BY Mine DEF Fetch, At, Fits
  <1>2. page[thread[t].url] \in Contents \union {"REJECTED"}
    BY <1>1 DEF Stores
  <1> QED
    BY <1>1, <1>2 DEF Fetch, Stores, SourceRow

LEMMA FetchType ==
    ASSUME Stores, Threaded, NEW t \in Threads, Fetch(t)
    PROVE  Stores' /\ Threaded'
  <1> DEFINE r == [thread[t] EXCEPT !.left = @ \ {thread[t].url}, !.acquired = TRUE,
                       !.progress = TRUE, !.url = None, !.pc = "acquire"]
  <1>1. Stores' /\ calls' = calls
    BY FetchWrites DEF Fetch, Stores
  <1>2. Becomes(t, r)
    BY DEF Fetch
  <1>3. thread[t].answer \in Answers
    BY HasAnswer DEF Fetch, At, Answering
  <1>4. r \in ThreadState
    <2>1. "acquire" \in Answering /\ thread[t].left \ {thread[t].url} \in SUBSET Urls
      BY Mine DEF Answering, ThreadState
    <2> QED
      BY <2>1, Mine, PhaseNames DEF ThreadState
  <1>5. r.pc = "acquire" /\ r.answer = thread[t].answer
    BY Mine DEF ThreadState
  <1> HIDE DEF r
  <1>6. Fits(r, Len(calls'))
    BY <1>3, <1>5 DEF Fits, Answering
  <1> QED
    BY <1>1, <1>2, <1>4, <1>6, Advances

LEMMA CompleteOpenType ==
    ASSUME Stores, Threaded, NEW t \in Threads, CompleteOpen(t)
    PROVE  Stores' /\ Threaded'
  <1> DEFINE r == [thread[t] EXCEPT !.acquired = FALSE, !.pc = "EXTRACT"]
  <1>1. step' \in [Steps -> {"none", "RUNNING", "COMPLETED", "FAILED"}]
    BY WriteType DEF CompleteOpen, Steps
  <1>2. Stores' /\ calls' = calls /\ Becomes(t, r)
    BY <1>1 DEF Stores, CompleteOpen, history
  <1>3. thread[t].answer \in Answers
    BY HasAnswer DEF CompleteOpen, At, Answering
  <1>4. r \in ThreadState
    BY Mine, PhaseNames DEF ThreadState
  <1>5. r.pc = "EXTRACT" /\ r.answer = thread[t].answer
    BY Mine DEF ThreadState
  <1> HIDE DEF r
  <1>6. Fits(r, Len(calls'))
    BY <1>3, <1>5 DEF Fits, Answering
  <1> QED
    BY <1>2, <1>4, <1>6, Advances

LEMMA BeginExtractType ==
    ASSUME Stores, Threaded, NEW t \in Threads, BeginExtract(t)
    PROVE  Stores' /\ Threaded'
  <1> DEFINE e == [thread[t] EXCEPT !.pc = "verify"]
             k == [thread[t] EXCEPT !.pc = "PERSIST", !.draft = Restored, !.answer = None]
  <1>1. /\ step' \in [Steps -> {"none", "RUNNING", "COMPLETED", "FAILED"}]
        /\ Becomes(t, e) \/ Becomes(t, k)
    BY BeginType DEF BeginExtract, Steps
  <1>2. Stores' /\ calls' = calls
    BY <1>1 DEF BeginExtract, Stores, history
  <1>3. thread[t].answer \in Answers
    BY HasAnswer DEF BeginExtract, At, Answering
  <1>4. e \in ThreadState
    BY Mine, PhaseNames DEF ThreadState
  <1>5. k \in ThreadState
    <2>1. Restored \in SUBSET (Urls \X Contents)
      BY DEF Restored, Stores
    <2> QED
      BY <2>1, Mine, PhaseNames DEF ThreadState
  <1>6. e.pc = "verify" /\ e.answer = thread[t].answer /\ k.pc = "PERSIST"
    BY Mine DEF ThreadState
  <1> HIDE DEF e, k
  <1>7. Fits(e, Len(calls')) /\ Fits(k, Len(calls'))
    BY <1>3, <1>6 DEF Fits, Answering
  <1> QED
    BY <1>1, <1>2, <1>4, <1>5, <1>7, Advances

\* A verified claim is about a page that says so.
LEMMA VerifiedType ==
    ASSUME Stores, NEW t
    PROVE  /\ Verified(t) \subseteq Urls \X Contents
           /\ \A c \in Verified(t) : sources[c[1]] \in Contents /\ sources[c[1]] = c[2]
  <1> SUFFICES ASSUME NEW c \in Verified(t)
               PROVE  /\ c \in Urls \X Contents
                      /\ sources[c[1]] \in Contents /\ sources[c[1]] = c[2]
    OBVIOUS
  <1>1. PICK u \in Urls : c = <<u, thread[t].answer[u]>> /\ Matches(u, thread[t].answer[u])
    BY DEF Verified, Requested
  <1> QED
    BY <1>1 DEF Matches

LEMMA VerifyType ==
    ASSUME Stores, Threaded, NEW t \in Threads, Verify(t)
    PROVE  Stores' /\ Threaded'
  <1> DEFINE r == [thread[t] EXCEPT !.draft = Verified(t), !.answer = None,
                       !.pc = "complete EXTRACT"]
  <1>1. Stores' /\ calls' = calls
    BY DEF Verify, Stores, stored, history
  <1>2. Becomes(t, r)
    BY DEF Verify
  <1>3. r \in ThreadState
    <2>1. Verified(t) \in SUBSET (Urls \X Contents) /\ thread[t] \in ThreadState
      BY VerifiedType, Mine
    <2> QED
      BY <2>1, PhaseNames DEF ThreadState
  <1>4. r.pc = "complete EXTRACT"
    BY Mine DEF ThreadState
  <1> HIDE DEF r
  <1>5. Fits(r, Len(calls'))
    BY <1>4 DEF Fits, Answering
  <1> QED
    BY <1>1, <1>2, <1>3, <1>5, Advances

LEMMA CompleteExtractType ==
    ASSUME Stores, Threaded, NEW t \in Threads, CompleteExtract(t)
    PROVE  Stores' /\ Threaded'
  <1> DEFINE r == [thread[t] EXCEPT !.progress = TRUE, !.pc = "PERSIST"]
  <1>1. step' \in [Steps -> {"none", "RUNNING", "COMPLETED", "FAILED"}]
    BY WriteType DEF CompleteExtract, Steps
  <1>2. extracted' \subseteq Urls \X Contents
    BY Mine DEF CompleteExtract, ThreadState
  <1>3. Stores' /\ calls' = calls /\ Becomes(t, r)
    BY <1>1, <1>2 DEF Stores, CompleteExtract, history
  <1>4. r \in ThreadState /\ r.pc = "PERSIST"
    BY Mine, PhaseNames DEF ThreadState
  <1> HIDE DEF r
  <1>5. Fits(r, Len(calls'))
    BY <1>4 DEF Fits, Answering
  <1> QED
    BY <1>3, <1>4, <1>5, Advances

LEMMA BeginPersistType ==
    ASSUME Stores, Threaded, NEW t \in Threads, BeginPersist(t)
    PROVE  Stores' /\ Threaded'
  <1> DEFINE e == [thread[t] EXCEPT !.pc = "read", !.progress = FALSE]
             k == [Idle EXCEPT !.pc = "READ_BACK"]
  <1>1. /\ step' \in [Steps -> {"none", "RUNNING", "COMPLETED", "FAILED"}]
        /\ Becomes(t, e) \/ Becomes(t, k)
    BY BeginType DEF BeginPersist, Steps
  <1>2. Stores' /\ calls' = calls
    BY <1>1 DEF BeginPersist, Stores, history
  <1>3. e \in ThreadState /\ e.pc = "read"
    BY Mine, PhaseNames DEF ThreadState
  <1>4. k \in ThreadState /\ Fits(k, Len(calls'))
    BY IdleType
  <1> HIDE DEF e, k
  <1>5. Fits(e, Len(calls'))
    BY <1>3 DEF Fits, Answering
  <1> QED
    BY <1>1, <1>2, <1>3, <1>4, <1>5, Advances

LEMMA ReadSourcesType ==
    ASSUME Stores, Threaded, NEW t \in Threads, ReadSources(t)
    PROVE  Stores' /\ Threaded'
  <1> DEFINE r == [thread[t] EXCEPT !.read = sources, !.pc = "persist"]
  <1>1. Stores' /\ calls' = calls
    BY DEF ReadSources, Stores, stored, history
  <1>2. Becomes(t, r)
    BY DEF ReadSources
  <1>3. sources \in [Urls -> SourceRow]
    BY DEF Stores
  <1>4. r \in ThreadState
    BY <1>3, Mine, PhaseNames DEF ThreadState
  <1>5. r.pc = "persist" /\ r.read = sources
    BY Mine DEF ThreadState
  <1> HIDE DEF r
  <1>6. Fits(r, Len(calls'))
    BY <1>3, <1>5 DEF Fits, Answering
  <1> QED
    BY <1>1, <1>2, <1>4, <1>6, Advances

\* What PERSIST adds: a verified claim, with the content it read.
LEMMA PersistAdds ==
    ASSUME Stores, Threaded, NEW t \in Threads, Persist(t), NEW c \in claims', c \notin claims
    PROVE  /\ c \in [url : Urls, text : Contents, hash : Contents]
           /\ <<c.url, c.text>> \in thread[t].draft
           /\ c.hash = thread[t].read[c.url]
  <1>1. PICK d \in thread[t].draft :
          /\ thread[t].read[d[1]] \in Contents
          /\ c = [url |-> d[1], text |-> d[2], hash |-> thread[t].read[d[1]]]
    BY DEF Persist, Supported
  <1>2. d \in Urls \X Contents
    BY Mine DEF ThreadState
  <1>3. d = <<d[1], d[2]>> /\ d[1] \in Urls /\ d[2] \in Contents
    BY <1>2
  <1>4. c.url = d[1] /\ c.text = d[2] /\ c.hash = thread[t].read[d[1]]
    BY <1>1
  <1> QED
    BY <1>1, <1>3, <1>4

LEMMA PersistType ==
    ASSUME Stores, Threaded, NEW t \in Threads, Persist(t)
    PROVE  Stores' /\ Threaded'
  <1>1. step' \in [Steps -> {"none", "RUNNING", "COMPLETED", "FAILED"}]
    BY WriteType DEF Persist, Steps
  <1>2. claims' \subseteq [url : Urls, text : Contents, hash : Contents]
    BY PersistAdds DEF Stores
  <1>3. Stores' /\ calls' = calls /\ Becomes(t, [Idle EXCEPT !.pc = "READ_BACK"])
    BY <1>1, <1>2 DEF Stores, Persist, history
  <1> QED
    BY <1>3, IdleType, Advances

LEMMA PersistFailsType ==
    ASSUME Stores, Threaded, NEW t \in Threads, PersistFails(t)
    PROVE  Stores' /\ Threaded'
  <1>1. step' \in [Steps -> {"none", "RUNNING", "COMPLETED", "FAILED"}]
    BY WriteType DEF PersistFails, Steps
  <1>2. Stores' /\ calls' = calls /\ Becomes(t, Idle)
    BY <1>1, DisturbType, LeavesType DEF Stores, PersistFails
  <1> QED
    BY <1>2, Resets

LEMMA BeginReadBackType ==
    ASSUME Stores, Threaded, NEW t \in Threads, BeginReadBack(t)
    PROVE  Stores' /\ Threaded'
  <1> DEFINE e == [thread[t] EXCEPT !.pc = "read back"]
             k == [thread[t] EXCEPT !.pc = "return"]
  <1>1. /\ step' \in [Steps -> {"none", "RUNNING", "COMPLETED", "FAILED"}]
        /\ Becomes(t, e) \/ Becomes(t, k)
    BY BeginType DEF BeginReadBack, Steps
  <1>2. Stores' /\ calls' = calls
    BY <1>1 DEF BeginReadBack, Stores, history
  <1>3. e \in ThreadState /\ e.pc = "read back"
    BY Mine, PhaseNames DEF ThreadState
  <1>4. k \in ThreadState /\ k.pc = "return"
    BY Mine, PhaseNames DEF ThreadState
  <1> HIDE DEF e, k
  <1>5. Fits(e, Len(calls')) /\ Fits(k, Len(calls'))
    BY <1>3, <1>4 DEF Fits, Answering
  <1> QED
    BY <1>1, <1>2, <1>3, <1>4, <1>5, Advances

LEMMA ReadBackType ==
    ASSUME Stores, Threaded, NEW t \in Threads, ReadBack(t)
    PROVE  Stores' /\ Threaded'
  <1> DEFINE r == [thread[t] EXCEPT !.pc = "return"]
  <1>1. step' \in [Steps -> {"none", "RUNNING", "COMPLETED", "FAILED"}]
    BY WriteType DEF ReadBack, Steps
  <1>2. Stores' /\ calls' = calls /\ Becomes(t, r)
    BY <1>1 DEF Stores, ReadBack, Goes, history
  <1>3. r \in ThreadState /\ r.pc = "return"
    BY Mine, PhaseNames DEF ThreadState
  <1> HIDE DEF r
  <1>4. Fits(r, Len(calls'))
    BY <1>3 DEF Fits, Answering
  <1> QED
    BY <1>2, <1>3, <1>4, Advances

\* An attempt that ends, in whatever way, leaves the tables of the run alone.
LEMMA EndType ==
    ASSUME Stores, Threaded, NEW t \in Threads,
           Return(t) \/ Checkpoint(t) \/ TimesOut(t) \/ Stops(t)
    PROVE  Stores' /\ Threaded'
  <1>1. PICK status \in {"open", "SUCCEEDED", "TIMED_OUT", "FAILED"} : Leaves(t, status)
    BY DEF Return, Checkpoint, TimesOut, Stops
  <1>2. UNCHANGED <<page, stored, fetched, overlapped>>
    BY DEF Return, Checkpoint, TimesOut, Stops, history
  <1>3. disturbed' \in 0 .. Disturbances
    BY DisturbType DEF Return, Checkpoint, TimesOut, Stops, history, Stores
  <1>4. Stores' /\ calls' = calls /\ Becomes(t, Idle)
    BY <1>1, <1>2, <1>3, LeavesType DEF Stores, stored
  <1> QED
    BY <1>4, Resets

LEMMA OutsideType ==
    ASSUME Stores, Threaded,
           (\E t \in Threads : Lapse(t)) \/ (\E u \in Urls : Change(u)) \/ UNCHANGED vars
    PROVE  Stores' /\ Threaded'
  <1>1. CASE \E t \in Threads : Lapse(t)
    BY <1>1, DisturbType DEF Lapse, Stores, Threaded, stored
  <1>2. CASE \E u \in Urls : Change(u)
    BY <1>2, DisturbType DEF Change, Stores, Threaded, stored
  <1>3. CASE UNCHANGED vars
    BY <1>3 DEF vars, Stores, Threaded, stored
  <1> QED
    BY <1>1, <1>2, <1>3

-----------------------------------------------------------------------------
LEMMA InitType == Init => Stores /\ Threaded
  <1> SUFFICES ASSUME Init PROVE Stores /\ Threaded
    OBVIOUS
  <1>1. calls = <<>> /\ calls \in Seq(Invocation) /\ Len(calls) = 0
    BY DEF Init
  <1>2. /\ page \in [Urls -> Contents \union {"REJECTED"}]
        /\ step \in [Steps -> {"none", "RUNNING", "COMPLETED", "FAILED"}]
        /\ sources \in [Urls -> SourceRow]
    BY DEF Init, SourceRow
  <1>3. extracted = {} /\ claims = {} /\ fetched = {} /\ overlapped \in BOOLEAN
    BY DEF Init
  <1>4. job = "open" /\ owner = None /\ disturbed \in 0 .. Disturbances
    BY InvocationAssumption DEF Init
  <1>5. Stores
    BY <1>1, <1>2, <1>3, <1>4 DEF Stores
  <1>6. Threaded
    BY <1>1, IdleType DEF Init, Threaded
  <1> QED
    BY <1>5, <1>6

LEMMA NextType ==
    ASSUME Stores, Threaded, [Next]_vars
    PROVE  Stores' /\ Threaded'
  <1>1. ASSUME NEW t \in Threads, Calling(t)
        PROVE  Stores' /\ Threaded'
    BY <1>1, BeginCallType, ReuseType, CallType, AnsweredType, FailPlanType, FailSearchType,
       CompleteCallType DEF Calling
  <1>2. ASSUME NEW t \in Threads, Serving(t)
        PROVE  Stores' /\ Threaded'
    BY <1>2, BeginOpenType, LookType, FetchType, CompleteOpenType, BeginExtractType, VerifyType,
       CompleteExtractType, BeginPersistType, ReadSourcesType, PersistType, BeginReadBackType,
       ReadBackType, EndType DEF Serving
  <1>3. ASSUME NEW t \in Threads, Disturbance(t)
        PROVE  Stores' /\ Threaded'
    BY <1>3, AbortType, PersistFailsType, EndType, OutsideType DEF Disturbance
  <1>4. ASSUME NEW t \in Threads, Acquire(t) \/ Checkpoint(t) \/ TimesOut(t)
        PROVE  Stores' /\ Threaded'
    BY <1>4, AcquireType, EndType
  <1> QED
    BY <1>1, <1>2, <1>3, <1>4, OutsideType DEF Next

\* The type invariant holds in every state, for every number of threads, pages and
\* disturbances.  It is inductive as it stands.
THEOREM TypeCorrect == Spec => []TypeOK
  <1>1. TypeOK /\ [Next]_vars => TypeOK'
    BY NextType, TypeParts DEF TypeOK, Stores, Threaded, Fits, At
  <1> QED
    BY <1>1, InitType, TypeParts, PTL DEF Spec

-----------------------------------------------------------------------------
(* An accepted claim says what a page said *)

\* All that the service works with, it has fetched.
Drafts == \A t \in Threads : thread[t].draft \subseteq fetched
Backed ==
    /\ \A u \in Urls : sources[u] \in Contents => <<u, sources[u]>> \in fetched
    /\ extracted \subseteq fetched
    /\ ClaimIsBacked

\* A thread that moves to a state with the same draft, or none.
LEMMA DraftMoves ==
    ASSUME Threaded, Drafts, NEW t \in Threads, NEW r, Becomes(t, r),
           r.draft \subseteq fetched', fetched \subseteq fetched'
    PROVE  Drafts'
  BY DEF Threaded, Drafts, Becomes

LEMMA DraftStays ==
    ASSUME Threaded, Drafts, NEW t \in Threads,
           thread' = [thread EXCEPT ![t] = thread'[t]],
           thread'[t].draft = thread[t].draft, UNCHANGED fetched
    PROVE  Drafts'
  BY DEF Threaded, Drafts

LEMMA DraftLeaves ==
    ASSUME Threaded, Drafts, NEW t \in Threads, NEW status, Leaves(t, status),
           UNCHANGED fetched
    PROVE  Drafts'
  <1>1. Idle.draft = {} /\ Becomes(t, Idle)
    BY DEF Idle, Leaves
  <1> HIDE DEF Idle
  <1> QED
    BY <1>1, DraftMoves

\* Before the answer is used there is no change but in the state of the thread.
LEMMA CallingBacked ==
    ASSUME Stores, Threaded, Drafts, Backed, NEW t \in Threads, Calling(t)
    PROVE  Drafts' /\ Backed'
  <1>1. UNCHANGED <<sources, extracted, claims, fetched>>
    BY DEF Calling, BeginCall, Reuse, Call, Answered, FailPlan, FailSearch, CompleteCall, stored, history
  <1>2. Backed'
    BY <1>1 DEF Backed, ClaimIsBacked
  <1>3. thread[t] \in ThreadState /\ thread[t].draft \subseteq fetched'
    BY <1>1, Mine DEF Drafts
  <1>4. ASSUME NEW s, NEW next, BeginCall(t, s, next)
        PROVE  Drafts'
    <2> DEFINE e == [thread[t] EXCEPT !.pc = next, !.execute = @ \union {s}]
               k == [thread[t] EXCEPT !.pc = next]
    <2>1. Becomes(t, e) \/ Becomes(t, k)
      BY <1>4 DEF BeginCall, Begin
    <2>2. e.draft = thread[t].draft /\ k.draft = thread[t].draft
      BY <1>3 DEF ThreadState
    <2> HIDE DEF e, k
    <2> QED
      BY <1>1, <1>3, <2>1, <2>2, DraftMoves
  <1>5. CASE Reuse(t)
    <2> DEFINE r == [thread[t] EXCEPT !.answer = LatestAnswer, !.pc = "OPEN_SOURCE"]
    <2>1. Becomes(t, r) /\ r.draft = thread[t].draft
      BY <1>3, <1>5 DEF Reuse, ThreadState
    <2> HIDE DEF r
    <2> QED
      BY <1>1, <1>2, <1>3, <2>1, DraftMoves
  <1>6. CASE Call(t)
    <2> DEFINE r == [thread[t] EXCEPT !.call = Len(calls'), !.pc = "calling"]
    <2>1. Becomes(t, r) /\ r.draft = thread[t].draft
      BY <1>3, <1>6 DEF Call, ThreadState
    <2> HIDE DEF r
    <2> QED
      BY <1>1, <1>2, <1>3, <2>1, DraftMoves
  <1>7. CASE Answered(t)
    <2>1. PICK a \in Answers : Becomes(t, [thread[t] EXCEPT !.answer = a, !.progress = TRUE,
                                                            !.pc = "complete PLAN"])
      BY <1>7 DEF Answered
    <2> DEFINE r == [thread[t] EXCEPT !.answer = a, !.progress = TRUE, !.pc = "complete PLAN"]
    <2>2. Becomes(t, r) /\ r.draft = thread[t].draft
      BY <1>3, <2>1 DEF ThreadState
    <2> HIDE DEF r
    <2> QED
      BY <1>1, <1>2, <1>3, <2>2, DraftMoves
  <1>8. CASE FailPlan(t)
    <2> DEFINE r == [thread[t] EXCEPT !.pc = "fail SEARCH"]
    <2>1. Becomes(t, r) /\ r.draft = thread[t].draft
      BY <1>3, <1>8 DEF FailPlan, Goes, ThreadState
    <2> HIDE DEF r
    <2> QED
      BY <1>1, <1>2, <1>3, <2>1, DraftMoves
  <1>9. CASE FailSearch(t)
    BY <1>1, <1>2, <1>9, DraftLeaves DEF FailSearch
  <1>10. ASSUME NEW s, NEW next, CompleteCall(t, s, next)
         PROVE  Drafts'
    <2> DEFINE r == [thread[t] EXCEPT !.execute = @ \ {s}, !.call = 0, !.pc = next]
    <2>1. Becomes(t, r) /\ r.draft = thread[t].draft
      BY <1>3, <1>10 DEF CompleteCall, ThreadState
    <2> HIDE DEF r
    <2> QED
      BY <1>1, <1>2, <1>3, <2>1, DraftMoves
  <1> QED
    BY <1>2, <1>4, <1>5, <1>6, <1>7, <1>8, <1>9, <1>10 DEF Calling

\* A fetch remembers what it stores.
LEMMA FetchBacked ==
    ASSUME Stores, Threaded, Drafts, Backed, NEW t \in Threads, Fetch(t)
    PROVE  Drafts' /\ Backed'
  <1> DEFINE r == [thread[t] EXCEPT !.left = @ \ {thread[t].url}, !.acquired = TRUE,
                       !.progress = TRUE, !.url = None, !.pc = "acquire"]
  <1>1. fetched \subseteq fetched' /\ UNCHANGED <<extracted, claims>>
    BY FetchWrites DEF Fetch
  <1>2. ASSUME NEW u \in Urls, sources'[u] \in Contents
        PROVE  <<u, sources'[u]>> \in fetched'
    <2>1. CASE u = thread[t].url
      BY <1>2, <2>1, FetchWrites DEF Stores
    <2>2. CASE u # thread[t].url
      BY <1>1, <1>2, <2>2, FetchWrites DEF Stores, Backed
    <2> QED
      BY <2>1, <2>2
  <1>3. Backed'
    BY <1>1, <1>2 DEF Backed, ClaimIsBacked
  <1>4. Becomes(t, r)
    BY DEF Fetch
  <1>5. r.draft = thread[t].draft
    BY Mine DEF ThreadState
  <1> HIDE DEF r
  <1> QED
    BY <1>1, <1>3, <1>4, <1>5, DraftMoves DEF Drafts

\* A claim is verified against the content that is stored.
LEMMA VerifyBacked ==
    ASSUME Stores, Threaded, Drafts, Backed, NEW t \in Threads, Verify(t)
    PROVE  Drafts' /\ Backed'
  <1> DEFINE r == [thread[t] EXCEPT !.draft = Verified(t), !.answer = None,
                       !.pc = "complete EXTRACT"]
  <1>1. UNCHANGED <<sources, extracted, claims, fetched>>
    BY DEF Verify, stored, history
  <1>2. Verified(t) \subseteq fetched
    <2> SUFFICES ASSUME NEW c \in Verified(t) PROVE c \in fetched
      OBVIOUS
    <2>1. c \in Urls \X Contents /\ sources[c[1]] \in Contents /\ sources[c[1]] = c[2]
      BY VerifiedType
    <2>2. c = <<c[1], c[2]>> /\ c[1] \in Urls
      BY <2>1
    <2> QED
      BY <2>1, <2>2 DEF Backed
  <1>3. Becomes(t, r) /\ r.draft = Verified(t)
    BY Mine DEF Verify, ThreadState
  <1>4. Backed'
    BY <1>1 DEF Backed, ClaimIsBacked
  <1> HIDE DEF r
  <1> QED
    BY <1>1, <1>2, <1>3, <1>4, DraftMoves

\* PERSIST stores the draft.
LEMMA PersistBacked ==
    ASSUME Stores, Threaded, Drafts, Backed, NEW t \in Threads, Persist(t)
    PROVE  Drafts' /\ Backed'
  <1>1. UNCHANGED <<sources, extracted, fetched>> /\ Becomes(t, [Idle EXCEPT !.pc = "READ_BACK"])
    BY DEF Persist, history
  <1>2. [Idle EXCEPT !.pc = "READ_BACK"].draft = {}
    BY DEF Idle
  <1>3. Drafts'
    BY <1>1, <1>2, DraftMoves
  <1>4. ASSUME NEW c \in claims' PROVE <<c.url, c.text>> \in fetched
    BY PersistAdds DEF Drafts, Backed, ClaimIsBacked
  <1> QED
    BY <1>1, <1>3, <1>4 DEF Backed, ClaimIsBacked

LEMMA ServingBacked ==
    ASSUME Stores, Threaded, Drafts, Backed, NEW t \in Threads, Serving(t)
    PROVE  Drafts' /\ Backed'
  <1>1. thread[t] \in ThreadState /\ thread[t].draft \subseteq fetched
    BY Mine DEF Drafts
  <1>2. CASE BeginOpen(t) \/ Look(t) \/ CompleteOpen(t) \/ BeginReadBack(t) \/ ReadBack(t)
             \/ ReadSources(t)
    <2>1. UNCHANGED <<sources, extracted, claims, fetched>>
      BY <1>2 DEF BeginOpen, Look, CompleteOpen, BeginReadBack, ReadBack, ReadSources, stored, history
    <2>2. thread' = [thread EXCEPT ![t] = thread'[t]] /\ thread'[t].draft = thread[t].draft
      <3>1. CASE BeginOpen(t)
        <4> DEFINE e == [thread[t] EXCEPT !.pc = "acquire", !.left = Requested(t)]
                   k == [thread[t] EXCEPT !.pc = "EXTRACT"]
        <4>1. e.draft = thread[t].draft /\ k.draft = thread[t].draft
          BY <1>1 DEF ThreadState
        <4>2. Becomes(t, e) \/ Becomes(t, k)
          BY <3>1 DEF BeginOpen, Begin
        <4> HIDE DEF e, k
        <4> QED
          BY <4>1, <4>2 DEF Becomes, Threaded
      <3>2. CASE Look(t)
        <4>1. PICK u \in thread[t].left :
                Becomes(t, IF Known(u) THEN [thread[t] EXCEPT !.left = @ \ {u}, !.acquired = TRUE]
                                       ELSE [thread[t] EXCEPT !.url = u, !.pc = "fetch"])
          BY <3>2 DEF Look
        <4> DEFINE k == [thread[t] EXCEPT !.left = @ \ {u}, !.acquired = TRUE]
                   f == [thread[t] EXCEPT !.url = u, !.pc = "fetch"]
        <4>2. k.draft = thread[t].draft /\ f.draft = thread[t].draft
          BY <1>1 DEF ThreadState
        <4>3. Becomes(t, k) \/ Becomes(t, f)
          BY <4>1
        <4> HIDE DEF k, f
        <4> QED
          BY <4>2, <4>3 DEF Becomes, Threaded
      <3>3. CASE CompleteOpen(t)
        BY <1>1, <3>3 DEF CompleteOpen, Becomes, Threaded, ThreadState
      <3>4. CASE BeginReadBack(t)
        <4> DEFINE e == [thread[t] EXCEPT !.pc = "read back"]
                   k == [thread[t] EXCEPT !.pc = "return"]
        <4>1. e.draft = thread[t].draft /\ k.draft = thread[t].draft
          BY <1>1 DEF ThreadState
        <4>2. Becomes(t, e) \/ Becomes(t, k)
          BY <3>4 DEF BeginReadBack, Begin
        <4> HIDE DEF e, k
        <4> QED
          BY <4>1, <4>2 DEF Becomes, Threaded
      <3>5. CASE ReadBack(t)
        BY <1>1, <3>5 DEF ReadBack, Goes, Becomes, Threaded, ThreadState
      <3>6. CASE ReadSources(t)
        BY <1>1, <3>6 DEF ReadSources, Becomes, Threaded, ThreadState
      <3> QED
        BY <1>2, <3>1, <3>2, <3>3, <3>4, <3>5, <3>6
    <2> QED
      BY <1>1, <2>1, <2>2, DraftStays DEF Backed, ClaimIsBacked
  <1>3. CASE BeginExtract(t)
    <2> DEFINE e == [thread[t] EXCEPT !.pc = "verify"]
               k == [thread[t] EXCEPT !.pc = "PERSIST", !.draft = Restored, !.answer = None]
    <2>1. UNCHANGED <<sources, extracted, claims, fetched>> /\ (Becomes(t, e) \/ Becomes(t, k))
      BY <1>3 DEF BeginExtract, Begin, history
    <2>2. e.draft = thread[t].draft /\ k.draft = extracted
      BY <1>1 DEF ThreadState, Restored
    <2> HIDE DEF e, k
    <2> QED
      BY <1>1, <2>1, <2>2, DraftMoves DEF Backed, ClaimIsBacked
  <1>4. CASE CompleteExtract(t)
    <2> DEFINE r == [thread[t] EXCEPT !.progress = TRUE, !.pc = "PERSIST"]
    <2>1. UNCHANGED <<sources, claims, fetched>> /\ extracted' = thread[t].draft /\ Becomes(t, r)
      BY <1>4 DEF CompleteExtract, history
    <2>2. r.draft = thread[t].draft
      BY <1>1 DEF ThreadState
    <2> HIDE DEF r
    <2> QED
      BY <1>1, <2>1, <2>2, DraftMoves DEF Backed, ClaimIsBacked
  <1>5. CASE BeginPersist(t)
    <2> DEFINE e == [thread[t] EXCEPT !.pc = "read", !.progress = FALSE]
               k == [Idle EXCEPT !.pc = "READ_BACK"]
    <2>1. UNCHANGED <<sources, extracted, claims, fetched>> /\ (Becomes(t, e) \/ Becomes(t, k))
      BY <1>5 DEF BeginPersist, Begin, history
    <2>2. e.draft = thread[t].draft /\ k.draft = {}
      BY <1>1 DEF ThreadState, Idle
    <2> HIDE DEF e, k
    <2> QED
      BY <1>1, <2>1, <2>2, DraftMoves DEF Backed, ClaimIsBacked
  <1>6. CASE Return(t)
    BY <1>6, DraftLeaves DEF Return, stored, history, Backed, ClaimIsBacked
  <1> QED
    BY <1>2, <1>3, <1>4, <1>5, <1>6, FetchBacked, VerifyBacked, PersistBacked DEF Serving

LEMMA OtherBacked ==
    ASSUME Stores, Threaded, Drafts, Backed,
           \/ \E t \in Threads : Acquire(t) \/ Checkpoint(t) \/ TimesOut(t) \/ Disturbance(t)
           \/ \E u \in Urls : Change(u)
           \/ UNCHANGED vars
    PROVE  Drafts' /\ Backed'
  <1>1. UNCHANGED <<sources, extracted, claims, fetched>>
    BY DEF Acquire, Checkpoint, TimesOut, Disturbance, BackendFails, AnswerUnusable, PersistFails,
           Stops, Lapse, Change, vars, stored, history
  <1>2. Backed'
    BY <1>1 DEF Backed, ClaimIsBacked
  <1>3. ASSUME NEW t \in Threads, Acquire(t) \/ BackendFails(t) PROVE Drafts'
    <2>1. thread[t] \in ThreadState /\ thread[t].draft \subseteq fetched
      BY Mine DEF Drafts
    <2>2. thread' = [thread EXCEPT ![t] = thread'[t]] /\ thread'[t].draft = thread[t].draft
      <3>1. ASSUME NEW pc, Goes(t, pc)
            PROVE  thread' = [thread EXCEPT ![t] = thread'[t]] /\ thread'[t].draft = thread[t].draft
        BY <2>1, <3>1 DEF Goes, Becomes, Threaded, ThreadState
      <3> QED
        BY <1>3, <3>1 DEF Acquire, BackendFails
    <2> QED
      BY <1>1, <2>2, DraftStays
  <1>4. ASSUME NEW t \in Threads,
               Checkpoint(t) \/ TimesOut(t) \/ AnswerUnusable(t) \/ PersistFails(t) \/ Stops(t)
        PROVE  Drafts'
    BY <1>1, <1>4, DraftLeaves DEF Checkpoint, TimesOut, AnswerUnusable, PersistFails, Stops
  <1>5. CASE UNCHANGED thread
    BY <1>1, <1>2, <1>5 DEF Drafts
  <1> QED
    BY <1>2, <1>3, <1>4, <1>5 DEF Disturbance, Lapse, Change, vars

\* Whatever threads work on a run, and however the pages change: an accepted claim says
\* what its page said when the service fetched it.
THEOREM ClaimsBacked == Spec => []ClaimIsBacked
  <1>1. Init => Drafts /\ Backed
    <2> SUFFICES ASSUME Init PROVE Drafts /\ Backed
      OBVIOUS
    <2>1. \A u \in Urls : sources[u] \notin Contents
      BY InvocationAssumption DEF Init
    <2>2. \A t \in Threads : thread[t].draft = {}
      BY DEF Init, Idle
    <2> QED
      BY <2>1, <2>2 DEF Init, Drafts, Backed, ClaimIsBacked
  <1>2. TypeOK /\ Drafts /\ Backed /\ [Next]_vars => (Drafts /\ Backed)'
    BY TypeParts, CallingBacked, ServingBacked, OtherBacked DEF Next
  <1>3. Backed => ClaimIsBacked
    BY DEF Backed
  <1> QED
    BY <1>1, <1>2, <1>3, TypeCorrect, PTL DEF Spec

-----------------------------------------------------------------------------
(* One thread at a time: what is completed stays completed *)

\* What is true of a thread that has the run for itself: o is the holder of the lease, st
\* the steps, n the number of calls and a the latest answer.
Good(r, t, o, st, n, a) ==
    /\ r.pc = "idle" => r = Idle
    /\ r.pc # "idle" => o = t
    /\ \A s \in r.execute : st[s] # "COMPLETED"
    /\ r.pc \in {"read", "persist"} => st["PERSIST"] # "COMPLETED"
    /\ r.pc \in {"SEARCH", "latest", "calling", "complete PLAN"} =>
          "PLAN" \in r.execute \/ st["PLAN"] = "COMPLETED"
    /\ r.pc = "complete SEARCH" => st["PLAN"] = "COMPLETED"
    /\ r.pc \in {"complete PLAN", "complete SEARCH"} => a # None
    /\ r.pc = "calling" => r.call = n /\ st["SEARCH"] # "COMPLETED"

Searched == step["SEARCH"] = "COMPLETED" => step["PLAN"] = "COMPLETED" /\ LatestAnswer # None
Alone ==
    ~ overlapped =>
        /\ Searched
        /\ \A t \in Threads : Good(thread[t], t, owner, step, Len(calls), LatestAnswer)

\* The lease is one: while a thread works, or may begin to, the others are idle.
LEMMA OthersIdle ==
    ASSUME Alone, ~ overlapped, InvocationAssumption, NEW t \in Threads,
           ~ At(t, "idle") \/ owner = None
    PROVE  \A x \in Threads \ {t} : thread[x] = Idle
  BY DEF Alone, Good, At

LEMMA IdleGood ==
    \A t, o, st, n, a : Good(Idle, t, o, st, n, a)
  BY DEF Idle, Good

LEMMA AloneMoves ==
    ASSUME Threaded, NEW t \in Threads, NEW r, Becomes(t, r),
           \A x \in Threads \ {t} : thread[x] = Idle,
           Good(r, t, owner', step', Len(calls'), LatestAnswer'), Searched'
    PROVE  Alone'
  <1>1. \A x \in Threads : thread'[x] = IF x = t THEN r ELSE Idle
    BY DEF Becomes, Threaded
  <1>2. ASSUME NEW x \in Threads
        PROVE  Good(thread'[x], x, owner', step', Len(calls'), LatestAnswer')
    <2>1. CASE x = t
      BY <1>1, <2>1
    <2>2. CASE x # t
      BY <1>1, <2>2, IdleGood
    <2> QED
      BY <2>1, <2>2
  <1> QED
    BY <1>2 DEF Alone

\* The phases of the service change neither PLAN nor SEARCH, nor the calls.
Service == {"OPEN_SOURCE", "acquire", "fetch", "EXTRACT", "verify", "complete EXTRACT", "PERSIST",
            "read", "persist", "READ_BACK", "read back", "return"}

LEMMA ServiceMoves ==
    ASSUME Threaded, Alone, InvocationAssumption, ~ overlapped, NEW t \in Threads, ~ At(t, "idle"),
           NEW r, Becomes(t, r), r.pc \in Service, r.execute \subseteq thread[t].execute,
           step'["PLAN"] = step["PLAN"], step'["SEARCH"] = step["SEARCH"], UNCHANGED <<calls, owner>>,
           r.pc \in {"read", "persist"} => step'["PERSIST"] # "COMPLETED"
    PROVE  Alone'
  <1>1. Good(thread[t], t, owner, step, Len(calls), LatestAnswer) /\ Searched
    BY DEF Alone
  <1>2. thread[t].execute \subseteq {"PLAN", "SEARCH"}
    BY Mine DEF ThreadState
  <1>3. owner' = t /\ LatestAnswer' = LatestAnswer
    BY <1>1 DEF Good, At, LatestAnswer
  <1>4. \A s \in r.execute : step'[s] # "COMPLETED"
    BY <1>1, <1>2 DEF Good
  <1>5. Good(r, t, owner', step', Len(calls'), LatestAnswer')
    BY <1>3, <1>4 DEF Good, Service
  <1>6. Searched'
    BY <1>1, <1>3 DEF Searched
  <1> QED
    BY <1>5, <1>6, OthersIdle, AloneMoves

\* An attempt that ends leaves its thread idle, and the lease to the next.
LEMMA AloneLeaves ==
    ASSUME Threaded, Alone, InvocationAssumption, ~ overlapped, NEW t \in Threads, ~ At(t, "idle"),
           NEW status, Leaves(t, status), Searched'
    PROVE  Alone'
  BY OthersIdle, IdleGood, AloneMoves DEF Leaves

LEMMA SearchedStays ==
    ASSUME Searched, UNCHANGED calls, step'["PLAN"] = step["PLAN"], step'["SEARCH"] = step["SEARCH"]
    PROVE  Searched'
  BY DEF Searched, LatestAnswer

\* What Begin does: one step, if it is not completed, becomes RUNNING.
LEMMA BeginStep ==
    ASSUME Stores, NEW t, NEW s \in Steps, NEW e, NEW k, Begin(t, s, e, k)
    PROVE  /\ \A z \in Steps \ {s} : step'[z] = step[z]
           /\ \/ step[s] = "COMPLETED" /\ step' = step /\ Becomes(t, k)
              \/ step[s] # "COMPLETED" /\ step'[s] = "RUNNING" /\ Becomes(t, e)
  BY DEF Begin, Stores

LEMMA AcquireAlone ==
    ASSUME Stores, Threaded, Alone, InvocationAssumption, ~ overlapped, NEW t \in Threads, Acquire(t)
    PROVE  Alone'
  <1> DEFINE r == [thread[t] EXCEPT !.pc = "PLAN"]
  <1>1. Becomes(t, r) /\ owner' = t /\ UNCHANGED <<step, calls>>
    BY DEF Acquire, Goes, stored
  <1>2. thread[t] = Idle /\ Searched
    BY DEF Acquire, At, Alone, Good
  <1>3. r.pc = "PLAN" /\ r.execute = {}
    BY <1>2 DEF Idle
  <1> HIDE DEF r
  <1>4. Good(r, t, owner', step', Len(calls'), LatestAnswer')
    BY <1>1, <1>3 DEF Good
  <1>5. \A x \in Threads \ {t} : thread[x] = Idle
    BY OthersIdle DEF Acquire
  <1>6. Searched'
    BY <1>1, <1>2, SearchedStays
  <1> QED
    BY <1>1, <1>4, <1>5, <1>6, AloneMoves

LEMMA BeginCallAlone ==
    ASSUME Stores, Threaded, Alone, InvocationAssumption, ~ overlapped, NEW t \in Threads,
           BeginCall(t, "PLAN", "SEARCH") \/ BeginCall(t, "SEARCH", "latest")
    PROVE  Alone'
  <1>1. ~ At(t, "idle") /\ UNCHANGED <<owner, calls>> /\ LatestAnswer' = LatestAnswer
    BY DEF BeginCall, At, LatestAnswer
  <1>2. Good(thread[t], t, owner, step, Len(calls), LatestAnswer) /\ Searched
    BY DEF Alone
  <1>3. thread[t] \in ThreadState /\ thread[t].execute \subseteq {"PLAN", "SEARCH"}
    BY Mine, PhaseNames DEF ThreadState
  <1>4. ASSUME NEW s \in {"PLAN", "SEARCH"}, NEW next \in {"SEARCH", "latest"},
               BeginCall(t, s, next), s = "PLAN" \/ At(t, "SEARCH")
        PROVE  Alone'
    <2> DEFINE e == [thread[t] EXCEPT !.pc = next, !.execute = @ \union {s}]
               k == [thread[t] EXCEPT !.pc = next]
    <2>1. /\ e.pc = next /\ e.execute = thread[t].execute \union {s}
          /\ k.pc = next /\ k.execute = thread[t].execute
      BY <1>3 DEF ThreadState
    <2>2. Begin(t, s, e, k) /\ s \in Steps
      BY <1>4 DEF BeginCall, Steps
    <2> HIDE DEF e, k
    <2>3. /\ \A z \in Steps \ {s} : step'[z] = step[z]
          /\ \/ step[s] = "COMPLETED" /\ step' = step /\ Becomes(t, k)
             \/ step[s] # "COMPLETED" /\ step'[s] = "RUNNING" /\ Becomes(t, e)
      BY <2>2, BeginStep
    <2>4. owner' = t
      BY <1>1, <1>2 DEF Good, At
    <2>5. Searched'
      BY <1>1, <1>2, <2>3 DEF Searched, Steps
    <2>6. s = "SEARCH" => "PLAN" \in thread[t].execute \/ step["PLAN"] = "COMPLETED"
      BY <1>2, <1>4 DEF Good, At
    <2>7. CASE step[s] = "COMPLETED" /\ step' = step /\ Becomes(t, k)
      <3>1. Good(k, t, owner', step', Len(calls'), LatestAnswer')
        BY <1>2, <2>1, <2>4, <2>6, <2>7 DEF Good
      <3> QED
        BY <1>1, <2>5, <2>7, <3>1, OthersIdle, AloneMoves
    <2>8. CASE step[s] # "COMPLETED" /\ step'[s] = "RUNNING" /\ Becomes(t, e)
      <3>1. \A z \in e.execute : step'[z] # "COMPLETED"
        BY <1>2, <1>3, <2>1, <2>3, <2>8 DEF Good, Steps
      <3>2. "PLAN" \in e.execute \/ step'["PLAN"] = "COMPLETED"
        BY <2>1, <2>3, <2>6 DEF Steps
      <3>3. Good(e, t, owner', step', Len(calls'), LatestAnswer')
        BY <2>1, <2>4, <3>1, <3>2 DEF Good
      <3> QED
        BY <1>1, <2>5, <2>8, <3>3, OthersIdle, AloneMoves
    <2> QED
      BY <2>3, <2>7, <2>8
  <1> QED
    BY <1>4 DEF BeginCall

\* The answer is used again.
LEMMA ReuseAlone ==
    ASSUME Stores, Threaded, Alone, InvocationAssumption, ~ overlapped, NEW t \in Threads, Reuse(t)
    PROVE  Alone'
  <1> DEFINE r == [thread[t] EXCEPT !.answer = LatestAnswer, !.pc = "OPEN_SOURCE"]
  <1>1. Becomes(t, r) /\ ~ At(t, "idle") /\ UNCHANGED <<step, calls, owner>>
    BY DEF Reuse, At, stored
  <1>2. r.pc = "OPEN_SOURCE" /\ r.execute = thread[t].execute
    BY Mine DEF ThreadState
  <1> HIDE DEF r
  <1> QED
    BY <1>1, <1>2, ServiceMoves DEF Service

\* A call is made only when SEARCH is not completed.
LEMMA CallUnsearched ==
    ASSUME Threaded, Alone, ~ overlapped, NEW t \in Threads, Call(t)
    PROVE  step["SEARCH"] # "COMPLETED"
  <1>1. Good(thread[t], t, owner, step, Len(calls), LatestAnswer) /\ Searched
    BY DEF Alone
  <1>2. thread[t].execute \subseteq {"PLAN", "SEARCH"}
    BY Mine DEF ThreadState
  <1> QED
    BY <1>1, <1>2 DEF Good, Searched, Call, MustCall

LEMMA CallAlone ==
    ASSUME Stores, Threaded, Alone, InvocationAssumption, ~ overlapped, NEW t \in Threads, Call(t)
    PROVE  Alone'
  <1> DEFINE r == [thread[t] EXCEPT !.call = Len(calls'), !.pc = "calling"]
  <1>1. Becomes(t, r) /\ At(t, "latest") /\ UNCHANGED <<step, owner>>
    BY DEF Call
  <1>2. r.pc = "calling" /\ r.execute = thread[t].execute /\ r.call = Len(calls')
    BY Mine DEF ThreadState
  <1> HIDE DEF r
  <1>3. step["SEARCH"] # "COMPLETED"
    BY CallUnsearched
  <1>4. Good(thread[t], t, owner, step, Len(calls), LatestAnswer)
    BY DEF Alone
  <1>5. Good(r, t, owner', step', Len(calls'), LatestAnswer')
    BY <1>1, <1>2, <1>3, <1>4 DEF Good, At
  <1>6. Searched' /\ ~ At(t, "idle")
    BY <1>1, <1>3 DEF Searched, At
  <1> QED
    BY <1>1, <1>5, <1>6, OthersIdle, AloneMoves

\* What a call returns is the latest answer.
LEMMA AnswerLatest ==
    ASSUME Stores, Threaded, Alone, ~ overlapped, NEW t \in Threads, At(t, "calling"),
           NEW a \in Answers,
           calls' = [calls EXCEPT ![thread[t].call] = [status |-> "COMPLETED", answer |-> a]]
    PROVE  LatestAnswer' = a
  <1> DEFINE row == [status |-> "COMPLETED", answer |-> a]
  <1>1. thread[t].call \in 1 .. Len(calls) /\ thread[t].call = Len(calls)
    BY Mine DEF Alone, Good, Fits, At
  <1>2. row \in Invocation /\ row.answer = a
    BY DEF Invocation
  <1>3. calls' = [calls EXCEPT ![thread[t].call] = row]
    OBVIOUS
  <1> HIDE DEF row
  <1>4. calls' \in Seq(Invocation) /\ Len(calls') = Len(calls)
    BY <1>1, <1>2, <1>3, CallEnds
  <1>5. calls'[Len(calls')] = row /\ calls' # <<>>
    BY <1>1, <1>3, <1>4 DEF Stores
  <1> QED
    BY <1>2, <1>5 DEF LatestAnswer

\* The answer is that of the last call.
LEMMA AnsweredAlone ==
    ASSUME Stores, Threaded, Alone, InvocationAssumption, ~ overlapped, NEW t \in Threads, Answered(t)
    PROVE  Alone'
  <1>1. PICK a \in Answers :
          /\ calls' = [calls EXCEPT ![thread[t].call] = [status |-> "COMPLETED", answer |-> a]]
          /\ Becomes(t, [thread[t] EXCEPT !.answer = a, !.progress = TRUE, !.pc = "complete PLAN"])
    BY DEF Answered
  <1> DEFINE r == [thread[t] EXCEPT !.answer = a, !.progress = TRUE, !.pc = "complete PLAN"]
             row == [status |-> "COMPLETED", answer |-> a]
  <1>2. Good(thread[t], t, owner, step, Len(calls), LatestAnswer)
    BY DEF Alone
  <1>3. At(t, "calling") /\ UNCHANGED <<step, owner>>
    BY DEF Answered
  <1>6. r.pc = "complete PLAN" /\ r.execute = thread[t].execute
    BY Mine DEF ThreadState
  <1>7. Becomes(t, r) /\ calls' = [calls EXCEPT ![thread[t].call] = row]
    BY <1>1
  <1> HIDE DEF r, row
  <1>8. LatestAnswer' = a
    BY <1>1, <1>3, AnswerLatest
  <1>9. Good(r, t, owner', step', Len(calls'), LatestAnswer')
    BY <1>2, <1>3, <1>6, <1>8, InvocationAssumption DEF Good, At
  <1>10. Searched' /\ ~ At(t, "idle")
    BY <1>2, <1>3 DEF Good, Searched, At
  <1> QED
    BY <1>7, <1>9, <1>10, OthersIdle, AloneMoves

\* A call that fails: SEARCH is not completed, nor becomes it.
LEMMA FailsAlone ==
    ASSUME Stores, Threaded, Alone, InvocationAssumption, ~ overlapped, NEW t \in Threads,
           BackendFails(t) \/ AnswerUnusable(t)
    PROVE  Alone'
  <1>1. Good(thread[t], t, owner, step, Len(calls), LatestAnswer)
    BY DEF Alone
  <1>2. At(t, "calling") /\ ~ At(t, "idle") /\ UNCHANGED step
    BY DEF BackendFails, AnswerUnusable, At
  <1>3. Searched'
    BY <1>1, <1>2 DEF Good, Searched, At
  <1>4. CASE BackendFails(t)
    <2> DEFINE r == [thread[t] EXCEPT !.pc = "fail PLAN"]
    <2>1. Becomes(t, r) /\ UNCHANGED owner
      BY <1>4 DEF BackendFails, Goes
    <2>2. r.pc = "fail PLAN" /\ r.execute = thread[t].execute
      BY Mine DEF ThreadState
    <2> HIDE DEF r
    <2>3. Good(r, t, owner', step', Len(calls'), LatestAnswer')
      BY <1>1, <1>2, <2>1, <2>2 DEF Good, At
    <2> QED
      BY <1>2, <1>3, <2>1, <2>3, OthersIdle, AloneMoves
  <1>5. CASE AnswerUnusable(t)
    BY <1>2, <1>3, <1>5, AloneLeaves DEF AnswerUnusable
  <1> QED
    BY <1>4, <1>5

LEMMA FailStepsAlone ==
    ASSUME Stores, Threaded, Alone, InvocationAssumption, ~ overlapped, NEW t \in Threads,
           FailPlan(t) \/ FailSearch(t)
    PROVE  Alone'
  <1>1. Good(thread[t], t, owner, step, Len(calls), LatestAnswer) /\ Searched
    BY DEF Alone
  <1>2. ~ At(t, "idle") /\ UNCHANGED calls /\ LatestAnswer' = LatestAnswer
    BY DEF FailPlan, FailSearch, At, LatestAnswer
  <1>3. CASE FailPlan(t)
    <2> DEFINE r == [thread[t] EXCEPT !.pc = "fail SEARCH"]
    <2>1. Becomes(t, r) /\ UNCHANGED owner
      BY <1>3 DEF FailPlan, Goes
    <2>2. r.pc = "fail SEARCH" /\ r.execute = thread[t].execute
      BY Mine DEF ThreadState
    <2> HIDE DEF r
    <2>3. \/ step' = step
          \/ /\ "PLAN" \in thread[t].execute
             /\ step' = [step EXCEPT !["PLAN"] = "FAILED"]
      BY <1>3 DEF FailPlan, Executed, Fail
    <2>4. /\ \A s \in Steps : step[s] # "COMPLETED" => step'[s] # "COMPLETED"
          /\ step["PLAN"] = "COMPLETED" => step'["PLAN"] = "COMPLETED"
      BY <1>1, <2>3 DEF Good, Stores, Steps
    <2>5. \A s \in r.execute : step'[s] # "COMPLETED"
      <3>1. thread[t].execute \subseteq Steps
        BY Mine DEF ThreadState, Steps
      <3> QED
        BY <1>1, <2>2, <2>4, <3>1 DEF Good
    <2>6. Good(r, t, owner', step', Len(calls'), LatestAnswer')
      BY <1>1, <1>2, <2>1, <2>2, <2>5 DEF Good, At
    <2>7. Searched'
      BY <1>1, <1>2, <2>4 DEF Searched, Steps
    <2> QED
      BY <1>2, <2>1, <2>6, <2>7, OthersIdle, AloneMoves
  <1>4. CASE FailSearch(t)
    <2>1. \/ step' = step
          \/ step' = [step EXCEPT !["SEARCH"] = "FAILED"]
      BY <1>4 DEF FailSearch, Fail
    <2>2. Searched'
      BY <1>1, <1>2, <2>1 DEF Searched, Stores, Steps
    <2> QED
      BY <1>2, <1>4, <2>2, AloneLeaves DEF FailSearch
  <1> QED
    BY <1>3, <1>4

LEMMA CompleteCallAlone ==
    ASSUME Stores, Threaded, Alone, InvocationAssumption, ~ overlapped, NEW t \in Threads,
           CompleteCall(t, "PLAN", "complete SEARCH") \/ CompleteCall(t, "SEARCH", "OPEN_SOURCE")
    PROVE  Alone'
  <1>1. Good(thread[t], t, owner, step, Len(calls), LatestAnswer) /\ Searched
    BY DEF Alone
  <1>2. /\ ~ At(t, "idle") /\ UNCHANGED <<owner, calls>> /\ LatestAnswer' = LatestAnswer
        /\ LatestAnswer # None
    BY <1>1 DEF CompleteCall, At, LatestAnswer, Good
  <1>3. thread[t] \in ThreadState /\ thread[t].execute \subseteq {"PLAN", "SEARCH"}
    BY Mine, PhaseNames DEF ThreadState
  <1>4. ASSUME NEW s \in {"PLAN", "SEARCH"}, NEW next, CompleteCall(t, s, next),
               \/ s = "PLAN" /\ next = "complete SEARCH" /\ At(t, "complete PLAN")
               \/ s = "SEARCH" /\ next = "OPEN_SOURCE" /\ At(t, "complete SEARCH")
        PROVE  Alone'
    <2> DEFINE r == [thread[t] EXCEPT !.execute = @ \ {s}, !.call = 0, !.pc = next]
    <2>1. Becomes(t, r)
      BY <1>4 DEF CompleteCall
    <2>2. r.pc = next /\ r.execute = thread[t].execute \ {s}
      BY <1>3 DEF ThreadState
    <2> HIDE DEF r
    <2>3. \/ s \notin thread[t].execute /\ step' = step
          \/ s \in thread[t].execute /\ step' = [step EXCEPT ![s] = "COMPLETED"]
      BY <1>4 DEF CompleteCall, Executed, Complete
    <2>4. \A z \in Steps \ {s} : step'[z] = step[z]
      BY <2>3 DEF Stores
    <2>5. step'["PLAN"] = "COMPLETED"
      <3>1. CASE s = "PLAN"
        BY <1>1, <1>4, <2>3, <3>1 DEF Good, At, Stores, Steps
      <3>2. CASE s = "SEARCH"
        BY <1>1, <1>4, <2>4, <3>2 DEF Good, At, Steps
      <3> QED
        BY <3>1, <3>2
    <2>6. \A z \in r.execute : step'[z] # "COMPLETED"
      BY <1>1, <1>3, <2>2, <2>4 DEF Good, Steps
    <2>7. owner' = t
      BY <1>1, <1>2 DEF Good, At
    <2>8. Good(r, t, owner', step', Len(calls'), LatestAnswer')
      BY <1>2, <1>4, <2>2, <2>5, <2>6, <2>7 DEF Good
    <2>9. Searched'
      BY <1>2, <2>5 DEF Searched
    <2> QED
      BY <1>2, <2>1, <2>8, <2>9, OthersIdle, AloneMoves
  <1> QED
    BY <1>4 DEF CompleteCall

\* The service neither begins nor completes PLAN and SEARCH.
LEMMA OtherStep ==
    ASSUME Stores, NEW s \in Steps \ {"PLAN", "SEARCH"},
           Complete(s) \/ Fail(s) \/ (\E t, e, k : Begin(t, s, e, k))
    PROVE  step'["PLAN"] = step["PLAN"] /\ step'["SEARCH"] = step["SEARCH"]
  BY DEF Stores, Complete, Fail, Begin, Steps

LEMMA OpenAlone ==
    ASSUME Stores, Threaded, Alone, InvocationAssumption, ~ overlapped, NEW t \in Threads,
           BeginOpen(t) \/ Look(t) \/ Fetch(t) \/ CompleteOpen(t)
    PROVE  Alone'
  <1>1. thread[t] \in ThreadState
    BY Mine
  <1>2. ~ At(t, "idle") /\ UNCHANGED <<calls, owner>>
    BY DEF BeginOpen, Look, Fetch, CompleteOpen, At, stored
  <1>3. step'["PLAN"] = step["PLAN"] /\ step'["SEARCH"] = step["SEARCH"]
    BY OtherStep DEF BeginOpen, Look, Fetch, CompleteOpen, stored, Steps
  <1>4. CASE BeginOpen(t)
    <2> DEFINE e == [thread[t] EXCEPT !.pc = "acquire", !.left = Requested(t)]
               k == [thread[t] EXCEPT !.pc = "EXTRACT"]
    <2>1. Becomes(t, e) \/ Becomes(t, k)
      BY <1>4 DEF BeginOpen, Begin
    <2>2. /\ e.pc = "acquire" /\ e.execute = thread[t].execute
          /\ k.pc = "EXTRACT" /\ k.execute = thread[t].execute
      BY <1>1 DEF ThreadState
    <2> HIDE DEF e, k
    <2> QED
      BY <1>2, <1>3, <2>1, <2>2, ServiceMoves DEF Service
  <1>5. CASE Look(t)
    <2>1. PICK u \in thread[t].left :
            Becomes(t, IF Known(u) THEN [thread[t] EXCEPT !.left = @ \ {u}, !.acquired = TRUE]
                                   ELSE [thread[t] EXCEPT !.url = u, !.pc = "fetch"])
      BY <1>5 DEF Look
    <2> DEFINE k == [thread[t] EXCEPT !.left = @ \ {u}, !.acquired = TRUE]
               f == [thread[t] EXCEPT !.url = u, !.pc = "fetch"]
    <2>2. /\ k.pc = "acquire" /\ k.execute = thread[t].execute
          /\ f.pc = "fetch" /\ f.execute = thread[t].execute
      BY <1>1, <1>5 DEF Look, At, ThreadState
    <2>3. Becomes(t, k) \/ Becomes(t, f)
      BY <2>1
    <2> HIDE DEF k, f
    <2> QED
      BY <1>2, <1>3, <2>2, <2>3, ServiceMoves DEF Service
  <1>6. CASE Fetch(t)
    <2> DEFINE r == [thread[t] EXCEPT !.left = @ \ {thread[t].url}, !.acquired = TRUE,
                         !.progress = TRUE, !.url = None, !.pc = "acquire"]
    <2>1. Becomes(t, r)
      BY <1>6 DEF Fetch
    <2>2. r.pc = "acquire" /\ r.execute = thread[t].execute
      BY <1>1 DEF ThreadState
    <2> HIDE DEF r
    <2> QED
      BY <1>2, <1>3, <2>1, <2>2, ServiceMoves DEF Service
  <1>7. CASE CompleteOpen(t)
    <2> DEFINE r == [thread[t] EXCEPT !.acquired = FALSE, !.pc = "EXTRACT"]
    <2>1. Becomes(t, r)
      BY <1>7 DEF CompleteOpen
    <2>2. r.pc = "EXTRACT" /\ r.execute = thread[t].execute
      BY <1>1 DEF ThreadState
    <2> HIDE DEF r
    <2> QED
      BY <1>2, <1>3, <2>1, <2>2, ServiceMoves DEF Service
  <1> QED
    BY <1>4, <1>5, <1>6, <1>7

LEMMA ExtractAlone ==
    ASSUME Stores, Threaded, Alone, InvocationAssumption, ~ overlapped, NEW t \in Threads,
           BeginExtract(t) \/ Verify(t) \/ CompleteExtract(t)
    PROVE  Alone'
  <1>1. thread[t] \in ThreadState
    BY Mine
  <1>2. ~ At(t, "idle") /\ UNCHANGED <<calls, owner>>
    BY DEF BeginExtract, Verify, CompleteExtract, At, stored
  <1>3. step'["PLAN"] = step["PLAN"] /\ step'["SEARCH"] = step["SEARCH"]
    BY OtherStep DEF BeginExtract, Verify, CompleteExtract, stored, Steps
  <1>4. CASE BeginExtract(t)
    <2> DEFINE e == [thread[t] EXCEPT !.pc = "verify"]
               k == [thread[t] EXCEPT !.pc = "PERSIST", !.draft = Restored, !.answer = None]
    <2>1. Becomes(t, e) \/ Becomes(t, k)
      BY <1>4 DEF BeginExtract, Begin
    <2>2. /\ e.pc = "verify" /\ e.execute = thread[t].execute
          /\ k.pc = "PERSIST" /\ k.execute = thread[t].execute
      BY <1>1 DEF ThreadState
    <2> HIDE DEF e, k
    <2> QED
      BY <1>2, <1>3, <2>1, <2>2, ServiceMoves DEF Service
  <1>5. CASE Verify(t)
    <2> DEFINE r == [thread[t] EXCEPT !.draft = Verified(t), !.answer = None,
                         !.pc = "complete EXTRACT"]
    <2>1. Becomes(t, r)
      BY <1>5 DEF Verify
    <2>2. r.pc = "complete EXTRACT" /\ r.execute = thread[t].execute
      BY <1>1 DEF ThreadState
    <2> HIDE DEF r
    <2> QED
      BY <1>2, <1>3, <2>1, <2>2, ServiceMoves DEF Service
  <1>6. CASE CompleteExtract(t)
    <2> DEFINE r == [thread[t] EXCEPT !.progress = TRUE, !.pc = "PERSIST"]
    <2>1. Becomes(t, r)
      BY <1>6 DEF CompleteExtract
    <2>2. r.pc = "PERSIST" /\ r.execute = thread[t].execute
      BY <1>1 DEF ThreadState
    <2> HIDE DEF r
    <2> QED
      BY <1>2, <1>3, <2>1, <2>2, ServiceMoves DEF Service
  <1> QED
    BY <1>4, <1>5, <1>6

\* PERSIST is begun before it is done, and is not completed while it is.
LEMMA PersistAlone ==
    ASSUME Stores, Threaded, Alone, InvocationAssumption, ~ overlapped, NEW t \in Threads,
           BeginPersist(t) \/ ReadSources(t) \/ Persist(t)
    PROVE  Alone'
  <1>1. thread[t] \in ThreadState
    BY Mine
  <1>2. ~ At(t, "idle") /\ UNCHANGED <<calls, owner>>
    BY DEF BeginPersist, ReadSources, Persist, At, stored
  <1>3. step'["PLAN"] = step["PLAN"] /\ step'["SEARCH"] = step["SEARCH"]
    BY OtherStep DEF BeginPersist, ReadSources, Persist, stored, Steps
  <1>4. [Idle EXCEPT !.pc = "READ_BACK"].pc = "READ_BACK" /\ [Idle EXCEPT !.pc = "READ_BACK"].execute = {}
    BY DEF Idle
  <1>5. CASE BeginPersist(t)
    <2> DEFINE e == [thread[t] EXCEPT !.pc = "read", !.progress = FALSE]
               k == [Idle EXCEPT !.pc = "READ_BACK"]
    <2>1. e.pc = "read" /\ e.execute = thread[t].execute
      BY <1>1 DEF ThreadState
    <2>2. Begin(t, "PERSIST", e, k) /\ "PERSIST" \in Steps
      BY <1>5 DEF BeginPersist, Steps
    <2>3. k.pc = "READ_BACK" /\ k.execute = {}
      BY <1>4
    <2> HIDE DEF e, k
    <2>4. Becomes(t, k) \/ (Becomes(t, e) /\ step'["PERSIST"] = "RUNNING")
      BY <2>2, BeginStep
    <2> QED
      BY <1>2, <1>3, <2>1, <2>3, <2>4, ServiceMoves DEF Service
  <1>6. CASE ReadSources(t)
    <2> DEFINE r == [thread[t] EXCEPT !.read = sources, !.pc = "persist"]
    <2>1. Becomes(t, r) /\ UNCHANGED step /\ At(t, "read")
      BY <1>6 DEF ReadSources, stored
    <2>2. r.pc = "persist" /\ r.execute = thread[t].execute
      BY <1>1 DEF ThreadState
    <2> HIDE DEF r
    <2>3. step'["PERSIST"] # "COMPLETED"
      BY <2>1 DEF Alone, Good, At
    <2> QED
      BY <1>2, <1>3, <2>1, <2>2, <2>3, ServiceMoves DEF Service
  <1>7. CASE Persist(t)
    <2> DEFINE k == [Idle EXCEPT !.pc = "READ_BACK"]
    <2>1. Becomes(t, k)
      BY <1>7 DEF Persist
    <2>2. k.pc = "READ_BACK" /\ k.execute = {}
      BY <1>4
    <2> HIDE DEF k
    <2> QED
      BY <1>2, <1>3, <2>1, <2>2, ServiceMoves DEF Service
  <1> QED
    BY <1>5, <1>6, <1>7

LEMMA ReadBackAlone ==
    ASSUME Stores, Threaded, Alone, InvocationAssumption, ~ overlapped, NEW t \in Threads,
           BeginReadBack(t) \/ ReadBack(t)
    PROVE  Alone'
  <1>1. thread[t] \in ThreadState
    BY Mine
  <1>2. ~ At(t, "idle") /\ UNCHANGED <<calls, owner>>
    BY DEF BeginReadBack, ReadBack, At, stored
  <1>3. step'["PLAN"] = step["PLAN"] /\ step'["SEARCH"] = step["SEARCH"]
    BY OtherStep DEF BeginReadBack, ReadBack, stored, Steps
  <1> DEFINE e == [thread[t] EXCEPT !.pc = "read back"]
             k == [thread[t] EXCEPT !.pc = "return"]
  <1>4. Becomes(t, e) \/ Becomes(t, k)
    BY DEF BeginReadBack, ReadBack, Begin, Goes
  <1>5. /\ e.pc = "read back" /\ e.execute = thread[t].execute
        /\ k.pc = "return" /\ k.execute = thread[t].execute
    BY <1>1 DEF ThreadState
  <1> HIDE DEF e, k
  <1> QED
    BY <1>2, <1>3, <1>4, <1>5, ServiceMoves DEF Service

LEMMA EndAlone ==
    ASSUME Stores, Threaded, Alone, InvocationAssumption, ~ overlapped, NEW t \in Threads,
           Return(t) \/ Checkpoint(t) \/ TimesOut(t) \/ Stops(t) \/ PersistFails(t)
    PROVE  Alone'
  <1>1. ~ At(t, "idle") /\ UNCHANGED calls
    BY DEF Return, Checkpoint, TimesOut, Stops, PersistFails, At, stored
  <1>2. step'["PLAN"] = step["PLAN"] /\ step'["SEARCH"] = step["SEARCH"]
    BY OtherStep DEF Return, Checkpoint, TimesOut, Stops, PersistFails, stored, Steps
  <1>3. Searched'
    BY <1>1, <1>2, SearchedStays DEF Alone
  <1>4. \E status : Leaves(t, status)
    BY DEF Return, Checkpoint, TimesOut, Stops, PersistFails
  <1> QED
    BY <1>1, <1>3, <1>4, AloneLeaves

\* Nobody forgets that a thread went on without its lease.
LEMMA OverlapStays ==
    ASSUME [Next]_vars, overlapped
    PROVE  overlapped'
  <1>1. ASSUME NEW t \in Threads, Calling(t)
        PROVE  overlapped'
    BY <1>1 DEF Calling, BeginCall, Reuse, Call, Answered, FailPlan, FailSearch, CompleteCall, history
  <1>2. ASSUME NEW t \in Threads, Serving(t)
        PROVE  overlapped'
    <2>1. CASE BeginOpen(t) \/ Look(t) \/ Fetch(t) \/ CompleteOpen(t) \/ BeginExtract(t)
      BY <2>1 DEF BeginOpen, Look, Fetch, CompleteOpen, BeginExtract, history
    <2>2. CASE \/ Verify(t) \/ CompleteExtract(t) \/ BeginPersist(t) \/ ReadSources(t)
               \/ Persist(t) \/ BeginReadBack(t) \/ ReadBack(t) \/ Return(t)
      BY <2>2 DEF Verify, CompleteExtract, BeginPersist, ReadSources, Persist, BeginReadBack,
                  ReadBack, Return, history
    <2> QED
      BY <1>2, <2>1, <2>2 DEF Serving
  <1>3. ASSUME NEW t \in Threads, Acquire(t) \/ Checkpoint(t) \/ TimesOut(t) \/ Disturbance(t)
        PROVE  overlapped'
    BY <1>3 DEF Acquire, Checkpoint, TimesOut, Disturbance, BackendFails, AnswerUnusable,
                PersistFails, Stops, Lapse, history
  <1>4. CASE (\E u \in Urls : Change(u)) \/ UNCHANGED vars
    BY <1>4 DEF Change, vars
  <1> QED
    BY <1>1, <1>2, <1>3, <1>4 DEF Next

LEMMA NextAlone ==
    ASSUME Stores, Threaded, Alone, InvocationAssumption, [Next]_vars
    PROVE  Alone'
  <1>1. CASE overlapped'
    BY <1>1 DEF Alone
  <1>2. CASE ~ overlapped'
    <2>1. ~ overlapped
      BY <1>2, OverlapStays
    <2>2. ASSUME NEW t \in Threads, Calling(t)
          PROVE  Alone'
      BY <2>1, <2>2, BeginCallAlone, ReuseAlone, CallAlone, AnsweredAlone, FailStepsAlone,
         CompleteCallAlone DEF Calling
    <2>3. ASSUME NEW t \in Threads, Serving(t)
          PROVE  Alone'
      BY <2>1, <2>3, OpenAlone, ExtractAlone, PersistAlone, ReadBackAlone, EndAlone DEF Serving
    <2>4. ASSUME NEW t \in Threads,
                 Acquire(t) \/ Checkpoint(t) \/ TimesOut(t) \/ Disturbance(t)
          PROVE  Alone'
      BY <1>2, <2>1, <2>4, AcquireAlone, EndAlone, FailsAlone DEF Disturbance, Lapse
    <2>5. CASE UNCHANGED <<step, calls, owner, thread, overlapped>>
      BY <2>5 DEF Alone, Searched, Good, LatestAnswer
    <2> QED
      BY <2>2, <2>3, <2>4, <2>5 DEF Next, Change, stored, vars
  <1> QED
    BY <1>1, <1>2

LEMMA InitAlone == ASSUME Init PROVE Alone
  BY IdleGood DEF Init, Alone, Searched, Steps

-----------------------------------------------------------------------------
\* No step of a run is undone while one thread at a time works on it.
LEMMA StepsStay ==
    ASSUME Stores, Threaded, Alone, [Next]_vars, ~ overlapped, NEW s \in Steps,
           step[s] = "COMPLETED"
    PROVE  step'[s] = "COMPLETED"
  <1>1. ASSUME NEW z \in Steps, Complete(z)
        PROVE  step'[s] = "COMPLETED"
    BY <1>1 DEF Complete, Stores
  <1>2. ASSUME NEW z \in Steps, NEW t, NEW e, NEW k, Begin(t, z, e, k)
        PROVE  step'[s] = "COMPLETED"
    BY <1>2, BeginStep
  <1>3. ASSUME NEW z \in Steps, Fail(z), step[z] # "COMPLETED"
        PROVE  step'[s] = "COMPLETED"
    BY <1>3 DEF Fail, Stores
  <1>4. \A t \in Threads : Good(thread[t], t, owner, step, Len(calls), LatestAnswer)
    BY DEF Alone
  <1>5. CASE UNCHANGED step
    BY <1>5
  <1>6. ASSUME NEW t \in Threads, Calling(t)
        PROVE  step'[s] = "COMPLETED"
    <2>1. CASE BeginCall(t, "PLAN", "SEARCH") \/ BeginCall(t, "SEARCH", "latest")
      BY <1>2, <2>1 DEF BeginCall, Steps
    <2>2. CASE FailPlan(t)
      BY <1>3, <1>4, <1>5, <2>2 DEF FailPlan, Executed, Good, Steps
    <2>3. CASE FailSearch(t)
      BY <1>3, <1>4, <1>5, <2>3 DEF FailSearch, Executed, Good, Steps
    <2>4. CASE \/ CompleteCall(t, "PLAN", "complete SEARCH")
               \/ CompleteCall(t, "SEARCH", "OPEN_SOURCE")
      BY <1>1, <1>5, <2>4 DEF CompleteCall, Steps
    <2>5. CASE Reuse(t) \/ Call(t) \/ Answered(t)
      BY <1>5, <2>5 DEF Reuse, Call, Answered, stored
    <2> QED
      BY <1>6, <2>1, <2>2, <2>3, <2>4, <2>5 DEF Calling
  <1>7. ASSUME NEW t \in Threads, Serving(t)
        PROVE  step'[s] = "COMPLETED"
    <2>1. CASE BeginOpen(t) \/ BeginExtract(t) \/ BeginPersist(t) \/ BeginReadBack(t)
      BY <1>2, <2>1 DEF BeginOpen, BeginExtract, BeginPersist, BeginReadBack, Steps
    <2>2. CASE CompleteOpen(t) \/ CompleteExtract(t) \/ Persist(t) \/ ReadBack(t)
      BY <1>1, <2>2 DEF CompleteOpen, CompleteExtract, Persist, ReadBack, Steps
    <2>3. CASE Look(t) \/ Fetch(t) \/ Verify(t) \/ ReadSources(t) \/ Return(t)
      BY <1>5, <2>3 DEF Look, Fetch, Verify, ReadSources, Return, stored
    <2> QED
      BY <1>7, <2>1, <2>2, <2>3 DEF Serving
  <1>8. ASSUME NEW t \in Threads, PersistFails(t)
        PROVE  step'[s] = "COMPLETED"
    BY <1>3, <1>4, <1>8 DEF PersistFails, Good, At, Steps
  <1>9. ASSUME NEW t \in Threads,
               \/ Acquire(t) \/ Checkpoint(t) \/ TimesOut(t)
               \/ BackendFails(t) \/ AnswerUnusable(t) \/ Stops(t) \/ Lapse(t)
        PROVE  step'[s] = "COMPLETED"
    BY <1>5, <1>9 DEF Acquire, Checkpoint, TimesOut, BackendFails, AnswerUnusable, Stops, Lapse, stored
  <1> QED
    BY <1>5, <1>6, <1>7, <1>8, <1>9 DEF Next, Disturbance, Change, stored, vars

\* A step that an attempt completed is completed for all that follow, as long as no thread
\* goes on without the lease.
THEOREM CompletedStepsStay == Spec => CompletedStays
  <1>1. TypeOK /\ Alone /\ [Next]_vars => Alone'
    BY TypeParts, NextAlone, InvocationAssumption
  <1>2. TypeOK /\ Alone /\ [Next]_vars =>
          [\A s \in Steps : step[s] = "COMPLETED" /\ ~ overlapped => step'[s] = "COMPLETED"]_vars
    BY TypeParts, StepsStay
  <1> QED
    BY <1>1, <1>2, InitAlone, TypeCorrect, PTL DEF Spec, CompletedStays

\* Nothing is written to a call once SEARCH is completed: only an open call is.
LEMMA AnswerStays ==
    ASSUME Stores, Threaded, Alone, [Next]_vars, ~ overlapped, step["SEARCH"] = "COMPLETED"
    PROVE  UNCHANGED calls /\ LatestAnswer' = LatestAnswer
  <1>1. ASSUME NEW t \in Threads, Call(t) PROVE FALSE
    BY <1>1, CallUnsearched
  <1>2. ASSUME NEW t \in Threads, Answered(t) \/ BackendFails(t) \/ AnswerUnusable(t)
        PROVE  FALSE
    BY <1>2 DEF Answered, BackendFails, AnswerUnusable, At, Alone, Good
  <1>3. UNCHANGED calls
    BY <1>1, <1>2 DEF Next, Acquire, Calling, BeginCall, Reuse, FailPlan, FailSearch,
       CompleteCall, Serving, BeginOpen, Look, Fetch, CompleteOpen, BeginExtract, Verify,
       CompleteExtract, BeginPersist, ReadSources, Persist, BeginReadBack, ReadBack, Return,
       Checkpoint, TimesOut, Disturbance, PersistFails, Stops, Lapse, Change, vars, stored
  <1> QED
    BY <1>3 DEF LatestAnswer

\* The answer of a model that was paid for is not asked for again.
THEOREM AnswersKept == Spec => AnswerIsKept
  <1>1. TypeOK /\ Alone /\ [Next]_vars => Alone'
    BY TypeParts, NextAlone, InvocationAssumption
  <1>2. TypeOK /\ Alone /\ [Next]_vars =>
          [step["SEARCH"] = "COMPLETED" /\ ~ overlapped => Len(calls') = Len(calls)]_vars
    BY TypeParts, AnswerStays
  <1> QED
    BY <1>1, <1>2, InitAlone, TypeCorrect, PTL DEF Spec, AnswerIsKept
-----------------------------------------------------------------------------
(* One thread at a time: the result is that of the last answer *)

\* The claims of an answer that the sources bear out, and how they are stored.
Borne(a, src) == {<<u, a[u]>> : u \in {v \in Urls : src[v] \in Contents /\ src[v] = a[v]}}
Stored(a, src) == {[url |-> u, text |-> src[u], hash |-> src[u]] :
                      u \in {v \in Urls : src[v] \in Contents /\ src[v] = a[v]}}

\* What a completed step says of the tables.
Ordered ==
    /\ step["OPEN_SOURCE"] = "COMPLETED" => step["SEARCH"] = "COMPLETED"
    /\ step["EXTRACT"] = "COMPLETED" =>
          step["OPEN_SOURCE"] = "COMPLETED" /\ extracted = Borne(LatestAnswer, sources)
    /\ step["PERSIST"] = "COMPLETED" =>
          step["EXTRACT"] = "COMPLETED" /\ claims = Stored(LatestAnswer, sources)
    /\ step["PERSIST"] # "COMPLETED" => claims = {}
    /\ job = "SUCCEEDED" => step["PERSIST"] = "COMPLETED"

Opened == {"EXTRACT", "verify", "complete EXTRACT", "PERSIST", "read", "persist",
           "READ_BACK", "read back", "return"}

\* What a thread holds that has the run for itself.
Precise(r, st, a, src) ==
    /\ r.pc \in {"latest", "calling", "complete PLAN", "complete SEARCH"} =>
          "SEARCH" \in r.execute \/ st["SEARCH"] = "COMPLETED"
    /\ r.pc \in {"OPEN_SOURCE", "acquire", "fetch"} => st["SEARCH"] = "COMPLETED"
    /\ r.pc \in Answering => r.answer = a
    /\ r.pc \in {"acquire", "fetch"} => st["OPEN_SOURCE"] # "COMPLETED"
    /\ r.pc \in Opened => st["OPEN_SOURCE"] = "COMPLETED"
    /\ r.pc \in {"complete EXTRACT", "PERSIST", "read", "persist"} => r.draft = Borne(a, src)
    /\ r.pc \in {"PERSIST", "read", "persist"} => st["EXTRACT"] = "COMPLETED"
    /\ r.pc = "persist" => r.read = src
    /\ r.pc \in {"READ_BACK", "read back", "return"} => st["PERSIST"] = "COMPLETED"

Exact ==
    ~ overlapped =>
        /\ Ordered
        /\ \A t \in Threads : Precise(thread[t], step, LatestAnswer, sources)

Settled == Stores /\ Threaded /\ Alone /\ Exact /\ ~ overlapped

\* What a busy thread may rely on, and what its step cannot undo.
LEMMA Relies ==
    ASSUME Settled, [Next]_vars, NEW t \in Threads, ~ At(t, "idle")
    PROVE  /\ Precise(thread[t], step, LatestAnswer, sources)
           /\ Good(thread[t], t, owner, step, Len(calls), LatestAnswer)
           /\ Ordered
           /\ \A x \in Threads \ {t} : thread[x] = Idle
           /\ \A s \in Steps : step[s] = "COMPLETED" => step'[s] = "COMPLETED"
           /\ step["SEARCH"] = "COMPLETED" => LatestAnswer' = LatestAnswer
  <1>1. \A s \in Steps : step[s] = "COMPLETED" => step'[s] = "COMPLETED"
    BY StepsStay DEF Settled
  <1>2. step["SEARCH"] = "COMPLETED" => LatestAnswer' = LatestAnswer
    BY AnswerStays DEF Settled
  <1>3. \A x \in Threads \ {t} : thread[x] = Idle
    BY OthersIdle, InvocationAssumption DEF Settled
  <1> QED
    BY <1>1, <1>2, <1>3 DEF Settled, Exact, Alone

LEMMA IdlePrecise ==
    \A st, a, src : Precise(Idle, st, a, src)
  BY DEF Idle, Precise, Answering, Opened

LEMMA ExactMoves ==
    ASSUME Threaded, NEW t \in Threads, NEW r, Becomes(t, r),
           \A x \in Threads \ {t} : thread[x] = Idle,
           Precise(r, step', LatestAnswer', sources'), Ordered'
    PROVE  Exact'
  <1>1. \A x \in Threads : thread'[x] = IF x = t THEN r ELSE Idle
    BY DEF Becomes, Threaded
  <1>2. ASSUME NEW x \in Threads
        PROVE  Precise(thread'[x], step', LatestAnswer', sources')
    <2>1. CASE x = t
      BY <1>1, <2>1
    <2>2. CASE x # t
      BY <1>1, <2>2, IdlePrecise
    <2> QED
      BY <2>1, <2>2
  <1> QED
    BY <1>2 DEF Exact

\* A step that completes none of the later steps and keeps what they rest on.
LEMMA OrderedStays ==
    ASSUME Settled, [Next]_vars,
           \A s \in {"OPEN_SOURCE", "EXTRACT", "PERSIST"} :
              step'[s] = "COMPLETED" => step[s] = "COMPLETED",
           UNCHANGED <<extracted, claims>>,
           step["OPEN_SOURCE"] = "COMPLETED" => sources' = sources,
           job' # "SUCCEEDED" \/ job' = job
    PROVE  Ordered'
  <1>1. \A s \in Steps : step[s] = "COMPLETED" => step'[s] = "COMPLETED"
    BY StepsStay DEF Settled
  <1>2. step["SEARCH"] = "COMPLETED" => LatestAnswer' = LatestAnswer
    BY AnswerStays DEF Settled
  <1>3. Ordered
    BY DEF Settled, Exact
  <1> QED
    BY <1>1, <1>2, <1>3 DEF Ordered, Steps

\* An attempt that ends without a result.
LEMMA ExactLeaves ==
    ASSUME Settled, [Next]_vars, NEW t \in Threads, ~ At(t, "idle"),
           NEW status, Leaves(t, status), Ordered'
    PROVE  Exact'
  BY Relies, IdlePrecise, ExactMoves DEF Leaves, Settled

LEMMA AcquireExact ==
    ASSUME Settled, [Next]_vars, NEW t \in Threads, Acquire(t)
    PROVE  Exact'
  <1> DEFINE r == [thread[t] EXCEPT !.pc = "PLAN"]
  <1>1. Becomes(t, r) /\ UNCHANGED <<step, extracted, claims, sources, job>>
    BY DEF Acquire, Goes, stored
  <1>2. r.pc = "PLAN"
    BY Mine DEF Settled, ThreadState
  <1> HIDE DEF r
  <1>3. Precise(r, step', LatestAnswer', sources')
    BY <1>2 DEF Precise, Answering, Opened
  <1>4. \A x \in Threads \ {t} : thread[x] = Idle
    BY OthersIdle, InvocationAssumption DEF Acquire, Settled
  <1>5. Ordered'
    BY <1>1, OrderedStays
  <1> QED
    BY <1>1, <1>3, <1>4, <1>5, ExactMoves DEF Settled

LEMMA BeginCallExact ==
    ASSUME Settled, [Next]_vars, NEW t \in Threads,
           BeginCall(t, "PLAN", "SEARCH") \/ BeginCall(t, "SEARCH", "latest")
    PROVE  Exact'
  <1>1. ~ At(t, "idle") /\ UNCHANGED <<extracted, claims, sources, job>>
    BY DEF BeginCall, At
  <1>2. thread[t] \in ThreadState
    BY Mine DEF Settled
  <1>3. ASSUME NEW s \in {"PLAN", "SEARCH"}, NEW next, BeginCall(t, s, next),
               next = "SEARCH" \/ (next = "latest" /\ s = "SEARCH")
        PROVE  Exact'
    <2> DEFINE e == [thread[t] EXCEPT !.pc = next, !.execute = @ \union {s}]
               k == [thread[t] EXCEPT !.pc = next]
    <2>1. /\ e.pc = next /\ s \in e.execute
          /\ k.pc = next
      BY <1>2 DEF ThreadState
    <2>2. Begin(t, s, e, k) /\ s \in Steps
      BY <1>3 DEF BeginCall, Steps
    <2> HIDE DEF e, k
    <2>3. /\ \A z \in Steps \ {s} : step'[z] = step[z]
          /\ \/ step[s] = "COMPLETED" /\ step' = step /\ Becomes(t, k)
             \/ step[s] # "COMPLETED" /\ step'[s] = "RUNNING" /\ Becomes(t, e)
      BY <2>2, BeginStep DEF Settled
    <2>4. Ordered'
      BY <1>1, <2>3, OrderedStays DEF Steps
    <2>5. CASE step[s] = "COMPLETED" /\ step' = step /\ Becomes(t, k)
      <3>1. Precise(k, step', LatestAnswer', sources')
        BY <1>3, <2>1, <2>5 DEF Precise, Answering, Opened
      <3> QED
        BY <1>1, <2>4, <2>5, <3>1, Relies, ExactMoves DEF Settled
    <2>6. CASE step[s] # "COMPLETED" /\ step'[s] = "RUNNING" /\ Becomes(t, e)
      <3>1. Precise(e, step', LatestAnswer', sources')
        BY <1>3, <2>1 DEF Precise, Answering, Opened
      <3> QED
        BY <1>1, <2>4, <2>6, <3>1, Relies, ExactMoves DEF Settled
    <2> QED
      BY <2>3, <2>5, <2>6
  <1> QED
    BY <1>3

LEMMA ReuseExact ==
    ASSUME Settled, [Next]_vars, NEW t \in Threads, Reuse(t)
    PROVE  Exact'
  <1> DEFINE r == [thread[t] EXCEPT !.answer = LatestAnswer, !.pc = "OPEN_SOURCE"]
  <1>1. /\ Becomes(t, r) /\ ~ At(t, "idle")
        /\ UNCHANGED <<step, calls, extracted, claims, sources, job>>
    BY DEF Reuse, At, stored
  <1>2. r.pc = "OPEN_SOURCE" /\ r.answer = LatestAnswer
    BY Mine DEF Settled, ThreadState
  <1> HIDE DEF r
  <1>3. step["SEARCH"] = "COMPLETED"
    BY <1>1, Relies DEF Precise, Reuse, MustCall, At
  <1>4. LatestAnswer' = LatestAnswer
    BY <1>1 DEF LatestAnswer
  <1>5. Precise(r, step', LatestAnswer', sources')
    BY <1>1, <1>2, <1>3, <1>4 DEF Precise, Answering, Opened
  <1>6. Ordered'
    BY <1>1, OrderedStays
  <1> QED
    BY <1>1, <1>5, <1>6, Relies, ExactMoves DEF Settled

LEMMA CallExact ==
    ASSUME Settled, [Next]_vars, NEW t \in Threads, Call(t)
    PROVE  Exact'
  <1> DEFINE r == [thread[t] EXCEPT !.call = Len(calls'), !.pc = "calling"]
  <1>1. /\ Becomes(t, r) /\ ~ At(t, "idle")
        /\ UNCHANGED <<step, extracted, claims, sources, job>>
    BY DEF Call, At
  <1>2. r.pc = "calling" /\ r.execute = thread[t].execute
    BY Mine DEF Settled, ThreadState
  <1> HIDE DEF r
  <1>3. "SEARCH" \in r.execute \/ step'["SEARCH"] = "COMPLETED"
    BY <1>1, <1>2, Relies DEF Precise, Call, At
  <1>4. Precise(r, step', LatestAnswer', sources')
    BY <1>2, <1>3 DEF Precise, Answering, Opened
  <1>5. Ordered'
    BY <1>1, OrderedStays
  <1> QED
    BY <1>1, <1>4, <1>5, Relies, ExactMoves DEF Settled

LEMMA AnsweredExact ==
    ASSUME Settled, [Next]_vars, NEW t \in Threads, Answered(t)
    PROVE  Exact'
  <1>1. PICK a \in Answers :
          /\ calls' = [calls EXCEPT ![thread[t].call] = [status |-> "COMPLETED", answer |-> a]]
          /\ Becomes(t, [thread[t] EXCEPT !.answer = a, !.progress = TRUE, !.pc = "complete PLAN"])
    BY DEF Answered
  <1> DEFINE r == [thread[t] EXCEPT !.answer = a, !.progress = TRUE, !.pc = "complete PLAN"]
  <1>2. ~ At(t, "idle") /\ At(t, "calling") /\ UNCHANGED <<step, extracted, claims, sources, job>>
    BY DEF Answered, At
  <1>3. r.pc = "complete PLAN" /\ r.answer = a /\ r.execute = thread[t].execute
    BY Mine DEF Settled, ThreadState
  <1>4. Becomes(t, r)
    BY <1>1
  <1> HIDE DEF r
  <1>5. LatestAnswer' = a
    BY <1>1, <1>2, AnswerLatest DEF Settled
  <1>6. "SEARCH" \in r.execute \/ step'["SEARCH"] = "COMPLETED"
    BY <1>2, <1>3, Relies DEF Precise, At
  <1>7. Precise(r, step', LatestAnswer', sources')
    BY <1>3, <1>5, <1>6 DEF Precise, Opened
  <1>8. Ordered'
    BY <1>2, OrderedStays
  <1> QED
    BY <1>2, <1>4, <1>7, <1>8, Relies, ExactMoves DEF Settled

LEMMA FailsExact ==
    ASSUME Settled, [Next]_vars, NEW t \in Threads,
           BackendFails(t) \/ FailPlan(t)
    PROVE  Exact'
  <1>1. ~ At(t, "idle") /\ UNCHANGED <<extracted, claims, sources, job>>
    BY DEF BackendFails, FailPlan, At
  <1>2. PICK next \in {"fail PLAN", "fail SEARCH"} :
           Becomes(t, [thread[t] EXCEPT !.pc = next])
    BY DEF BackendFails, FailPlan, Goes
  <1> DEFINE r == [thread[t] EXCEPT !.pc = next]
  <1>3. r.pc = next /\ Becomes(t, r)
    BY <1>2, Mine DEF Settled, ThreadState
  <1> HIDE DEF r
  <1>4. Precise(r, step', LatestAnswer', sources')
    BY <1>3 DEF Precise, Answering, Opened
  <1>5. \A s \in {"OPEN_SOURCE", "EXTRACT", "PERSIST"} : step'[s] = step[s]
    BY DEF BackendFails, FailPlan, Fail, Settled, Stores, Steps
  <1>6. Ordered'
    BY <1>1, <1>5, OrderedStays
  <1> QED
    BY <1>1, <1>3, <1>4, <1>6, Relies, ExactMoves DEF Settled

LEMMA CompleteCallExact ==
    ASSUME Settled, [Next]_vars, NEW t \in Threads,
           CompleteCall(t, "PLAN", "complete SEARCH") \/ CompleteCall(t, "SEARCH", "OPEN_SOURCE")
    PROVE  Exact'
  <1>1. ~ At(t, "idle") /\ UNCHANGED <<calls, extracted, claims, sources, job>>
    BY DEF CompleteCall, At
  <1>2. thread[t] \in ThreadState /\ LatestAnswer' = LatestAnswer
    BY <1>1, Mine DEF Settled, LatestAnswer
  <1>3. Precise(thread[t], step, LatestAnswer, sources)
    BY <1>1, Relies
  <1>4. ASSUME NEW s \in {"PLAN", "SEARCH"}, NEW next, CompleteCall(t, s, next),
               \/ s = "PLAN" /\ next = "complete SEARCH" /\ At(t, "complete PLAN")
               \/ s = "SEARCH" /\ next = "OPEN_SOURCE" /\ At(t, "complete SEARCH")
        PROVE  Exact'
    <2> DEFINE r == [thread[t] EXCEPT !.execute = @ \ {s}, !.call = 0, !.pc = next]
    <2>1. Becomes(t, r)
      BY <1>4 DEF CompleteCall
    <2>2. r.pc = next /\ r.execute = thread[t].execute \ {s} /\ r.answer = thread[t].answer
      BY <1>2 DEF ThreadState
    <2> HIDE DEF r
    <2>3. \/ s \notin thread[t].execute /\ step' = step
          \/ s \in thread[t].execute /\ step' = [step EXCEPT ![s] = "COMPLETED"]
      BY <1>4 DEF CompleteCall, Executed, Complete
    <2>4. \A z \in Steps \ {s} : step'[z] = step[z]
      BY <2>3 DEF Settled, Stores
    <2>5. Ordered'
      BY <1>1, <2>4, OrderedStays DEF Steps
    <2>6. r.answer = LatestAnswer'
      BY <1>2, <1>3, <1>4, <2>2 DEF Precise, Answering, At
    <2>7. "SEARCH" \in r.execute \/ step'["SEARCH"] = "COMPLETED"
      <3>1. "SEARCH" \in thread[t].execute \/ step["SEARCH"] = "COMPLETED"
        BY <1>3, <1>4 DEF Precise, At
      <3>2. CASE s = "PLAN"
        BY <2>2, <2>4, <3>1, <3>2 DEF Steps
      <3>3. CASE s = "SEARCH"
        BY <2>3, <3>1, <3>3 DEF Settled, Stores, Steps
      <3> QED
        BY <3>2, <3>3
    <2>8. Precise(r, step', LatestAnswer', sources')
      <3>1. CASE s = "PLAN"
        BY <1>4, <2>2, <2>6, <2>7, <3>1 DEF Precise, Opened
      <3>2. CASE s = "SEARCH"
        BY <1>4, <2>2, <2>6, <2>7, <3>2 DEF Precise, Opened
      <3> QED
        BY <3>1, <3>2
    <2> QED
      BY <1>1, <2>1, <2>5, <2>8, Relies, ExactMoves DEF Settled
  <1> QED
    BY <1>4 DEF CompleteCall

\* Begin, in a phase of the service.
LEMMA BeginLater ==
    ASSUME Settled, NEW t, NEW s \in Steps \ {"PLAN", "SEARCH"}, NEW e, NEW k, Begin(t, s, e, k)
    PROVE  /\ \A z \in Steps : step'[z] = "COMPLETED" => step[z] = "COMPLETED"
           /\ step'["SEARCH"] = step["SEARCH"]
           /\ \/ step[s] = "COMPLETED" /\ step' = step /\ Becomes(t, k)
              \/ step[s] # "COMPLETED" /\ step'[s] # "COMPLETED" /\ Becomes(t, e)
  <1>1. /\ \A z \in Steps \ {s} : step'[z] = step[z]
        /\ \/ step[s] = "COMPLETED" /\ step' = step /\ Becomes(t, k)
           \/ step[s] # "COMPLETED" /\ step'[s] = "RUNNING" /\ Becomes(t, e)
    BY BeginStep DEF Settled
  <1> QED
    BY <1>1 DEF Steps

LEMMA BeginOpenExact ==
    ASSUME Settled, [Next]_vars, NEW t \in Threads, BeginOpen(t)
    PROVE  Exact'
  <1> DEFINE e == [thread[t] EXCEPT !.pc = "acquire", !.left = Requested(t)]
             k == [thread[t] EXCEPT !.pc = "EXTRACT"]
  <1>1. ~ At(t, "idle") /\ UNCHANGED <<calls, extracted, claims, sources, job>>
    BY DEF BeginOpen, At
  <1>2. /\ e.pc = "acquire" /\ e.answer = thread[t].answer
        /\ k.pc = "EXTRACT" /\ k.answer = thread[t].answer
    BY Mine DEF Settled, ThreadState
  <1>3. Begin(t, "OPEN_SOURCE", e, k)
    BY DEF BeginOpen
  <1> HIDE DEF e, k
  <1>4. /\ \A z \in Steps : step'[z] = "COMPLETED" => step[z] = "COMPLETED"
        /\ step'["SEARCH"] = step["SEARCH"]
        /\ \/ step["OPEN_SOURCE"] = "COMPLETED" /\ step' = step /\ Becomes(t, k)
           \/ /\ step["OPEN_SOURCE"] # "COMPLETED" /\ step'["OPEN_SOURCE"] # "COMPLETED"
              /\ Becomes(t, e)
    BY <1>3, BeginLater DEF Steps
  <1>5. thread[t].answer = LatestAnswer' /\ step'["SEARCH"] = "COMPLETED"
    BY <1>1, <1>4, Relies DEF Precise, Answering, BeginOpen, At
  <1>6. Ordered'
    BY <1>1, <1>4, OrderedStays DEF Steps
  <1>7. CASE step["OPEN_SOURCE"] = "COMPLETED" /\ step' = step /\ Becomes(t, k)
    <2>1. Precise(k, step', LatestAnswer', sources')
      BY <1>2, <1>5, <1>7 DEF Precise, Opened
    <2> QED
      BY <1>1, <1>6, <1>7, <2>1, Relies, ExactMoves DEF Settled
  <1>8. CASE step'["OPEN_SOURCE"] # "COMPLETED" /\ Becomes(t, e)
    <2>1. Precise(e, step', LatestAnswer', sources')
      BY <1>2, <1>5, <1>8 DEF Precise, Opened
    <2> QED
      BY <1>1, <1>6, <1>8, <2>1, Relies, ExactMoves DEF Settled
  <1> QED
    BY <1>4, <1>7, <1>8

LEMMA LookExact ==
    ASSUME Settled, [Next]_vars, NEW t \in Threads, Look(t)
    PROVE  Exact'
  <1>1. PICK u \in thread[t].left :
          Becomes(t, IF Known(u) THEN [thread[t] EXCEPT !.left = @ \ {u}, !.acquired = TRUE]
                                 ELSE [thread[t] EXCEPT !.url = u, !.pc = "fetch"])
    BY DEF Look
  <1> DEFINE k == [thread[t] EXCEPT !.left = @ \ {u}, !.acquired = TRUE]
             f == [thread[t] EXCEPT !.url = u, !.pc = "fetch"]
  <1>2. ~ At(t, "idle") /\ At(t, "acquire") /\ UNCHANGED <<calls, step, extracted, claims, sources, job>>
    BY DEF Look, At, stored
  <1>3. /\ k.pc = "acquire" /\ k.answer = thread[t].answer
        /\ f.pc = "fetch" /\ f.answer = thread[t].answer
    BY <1>2, Mine DEF Settled, ThreadState, At
  <1>4. Becomes(t, k) \/ Becomes(t, f)
    BY <1>1
  <1> HIDE DEF k, f
  <1>5. /\ thread[t].answer = LatestAnswer' /\ step'["SEARCH"] = "COMPLETED"
        /\ step'["OPEN_SOURCE"] # "COMPLETED"
    BY <1>2, Relies DEF Precise, Answering, At
  <1>6. Precise(k, step', LatestAnswer', sources')
    BY <1>3, <1>5 DEF Precise, Opened
  <1>7. Precise(f, step', LatestAnswer', sources')
    BY <1>3, <1>5 DEF Precise, Opened
  <1>8. Ordered'
    BY <1>2, OrderedStays
  <1> QED
    BY <1>2, <1>4, <1>6, <1>7, <1>8, Relies, ExactMoves DEF Settled

\* Pages are fetched before anything is verified.
LEMMA FetchExact ==
    ASSUME Settled, [Next]_vars, NEW t \in Threads, Fetch(t)
    PROVE  Exact'
  <1> DEFINE r == [thread[t] EXCEPT !.left = @ \ {thread[t].url}, !.acquired = TRUE,
                       !.progress = TRUE, !.url = None, !.pc = "acquire"]
  <1>1. /\ ~ At(t, "idle") /\ At(t, "fetch") /\ Becomes(t, r)
        /\ UNCHANGED <<calls, step, extracted, claims, job>>
    BY DEF Fetch, At
  <1>2. r.pc = "acquire" /\ r.answer = thread[t].answer
    BY Mine DEF Settled, ThreadState
  <1> HIDE DEF r
  <1>3. /\ thread[t].answer = LatestAnswer' /\ step'["SEARCH"] = "COMPLETED"
        /\ step["OPEN_SOURCE"] # "COMPLETED"
    BY <1>1, Relies DEF Precise, Answering, At
  <1>4. Precise(r, step', LatestAnswer', sources')
    BY <1>1, <1>2, <1>3 DEF Precise, Opened
  <1>5. Ordered'
    BY <1>1, <1>3, OrderedStays
  <1> QED
    BY <1>1, <1>4, <1>5, Relies, ExactMoves DEF Settled

LEMMA CompleteOpenExact ==
    ASSUME Settled, [Next]_vars, NEW t \in Threads, CompleteOpen(t)
    PROVE  Exact'
  <1> DEFINE r == [thread[t] EXCEPT !.acquired = FALSE, !.pc = "EXTRACT"]
  <1>1. /\ ~ At(t, "idle") /\ At(t, "acquire") /\ Becomes(t, r)
        /\ UNCHANGED <<calls, extracted, claims, sources, job>>
    BY DEF CompleteOpen, At
  <1>2. r.pc = "EXTRACT" /\ r.answer = thread[t].answer
    BY Mine DEF Settled, ThreadState
  <1> HIDE DEF r
  <1>3. step' = [step EXCEPT !["OPEN_SOURCE"] = "COMPLETED"]
    BY DEF CompleteOpen, Complete
  <1>4. /\ step'["OPEN_SOURCE"] = "COMPLETED"
        /\ \A s \in Steps \ {"OPEN_SOURCE"} : step'[s] = step[s]
    BY <1>3 DEF Settled, Stores, Steps
  <1>5. /\ thread[t].answer = LatestAnswer' /\ step["SEARCH"] = "COMPLETED"
        /\ step["OPEN_SOURCE"] # "COMPLETED" /\ Ordered
    BY <1>1, Relies DEF Precise, Answering, At
  <1>6. Precise(r, step', LatestAnswer', sources')
    BY <1>2, <1>4, <1>5 DEF Precise, Opened
  <1>7. Ordered'
    BY <1>1, <1>4, <1>5 DEF Ordered, Steps
  <1> QED
    BY <1>1, <1>6, <1>7, Relies, ExactMoves DEF Settled

\* The output of a completed EXTRACT is what verification would give again.
LEMMA BeginExtractExact ==
    ASSUME Settled, [Next]_vars, NEW t \in Threads, BeginExtract(t)
    PROVE  Exact'
  <1> DEFINE e == [thread[t] EXCEPT !.pc = "verify"]
             k == [thread[t] EXCEPT !.pc = "PERSIST", !.draft = Restored, !.answer = None]
  <1>1. ~ At(t, "idle") /\ UNCHANGED <<calls, extracted, claims, sources, job>>
    BY DEF BeginExtract, At
  <1>2. /\ e.pc = "verify" /\ e.answer = thread[t].answer
        /\ k.pc = "PERSIST" /\ k.draft = extracted
    BY Mine DEF Settled, ThreadState, Restored
  <1>3. Begin(t, "EXTRACT", e, k)
    BY DEF BeginExtract
  <1> HIDE DEF e, k
  <1>4. /\ \A z \in Steps : step'[z] = "COMPLETED" => step[z] = "COMPLETED"
        /\ \/ step["EXTRACT"] = "COMPLETED" /\ step' = step /\ Becomes(t, k)
           \/ step["EXTRACT"] # "COMPLETED" /\ Becomes(t, e)
    BY <1>3, BeginLater DEF Steps
  <1>5. LatestAnswer' = LatestAnswer
    BY <1>1 DEF LatestAnswer
  <1>6. /\ thread[t].answer = LatestAnswer /\ step["OPEN_SOURCE"] = "COMPLETED"
        /\ step'["OPEN_SOURCE"] = "COMPLETED" /\ Ordered
    BY <1>1, Relies DEF Precise, Answering, Opened, BeginExtract, At, Steps
  <1>7. Ordered'
    BY <1>1, <1>4, OrderedStays DEF Steps
  <1>8. CASE step["EXTRACT"] = "COMPLETED" /\ step' = step /\ Becomes(t, k)
    <2>1. k.draft = Borne(LatestAnswer', sources')
      BY <1>1, <1>2, <1>5, <1>6, <1>8 DEF Ordered
    <2>2. Precise(k, step', LatestAnswer', sources')
      BY <1>2, <1>6, <1>8, <2>1 DEF Precise, Answering
    <2> QED
      BY <1>1, <1>7, <1>8, <2>2, Relies, ExactMoves DEF Settled
  <1>9. CASE Becomes(t, e)
    <2>1. Precise(e, step', LatestAnswer', sources')
      BY <1>2, <1>5, <1>6 DEF Precise, Opened
    <2> QED
      BY <1>1, <1>7, <1>9, <2>1, Relies, ExactMoves DEF Settled
  <1> QED
    BY <1>4, <1>8, <1>9

LEMMA VerifiedBorne ==
    ASSUME NEW t, NEW a, thread[t].answer = a
    PROVE  Verified(t) = Borne(a, sources)
  <1>1. ASSUME NEW u \in Urls
        PROVE  u \in {v \in Requested(t) : Matches(v, thread[t].answer[v])}
                 <=> sources[u] \in Contents /\ sources[u] = a[u]
    BY InvocationAssumption DEF Requested, Matches
  <1>2. {v \in Requested(t) : Matches(v, thread[t].answer[v])}
          = {v \in Urls : sources[v] \in Contents /\ sources[v] = a[v]}
    BY <1>1 DEF Requested
  <1> QED
    BY <1>2 DEF Verified, Borne

LEMMA VerifyExact ==
    ASSUME Settled, [Next]_vars, NEW t \in Threads, Verify(t)
    PROVE  Exact'
  <1> DEFINE r == [thread[t] EXCEPT !.draft = Verified(t), !.answer = None,
                       !.pc = "complete EXTRACT"]
  <1>1. /\ ~ At(t, "idle") /\ At(t, "verify") /\ Becomes(t, r)
        /\ UNCHANGED <<calls, step, extracted, claims, sources, job>>
    BY DEF Verify, At, stored
  <1>2. r.pc = "complete EXTRACT" /\ r.draft = Verified(t)
    BY Mine DEF Settled, ThreadState
  <1> HIDE DEF r
  <1>3. LatestAnswer' = LatestAnswer
    BY <1>1 DEF LatestAnswer
  <1>4. thread[t].answer = LatestAnswer /\ step["OPEN_SOURCE"] = "COMPLETED"
    BY <1>1, Relies DEF Precise, Answering, Opened, At
  <1>5. r.draft = Borne(LatestAnswer', sources')
    BY <1>1, <1>2, <1>3, <1>4, VerifiedBorne
  <1>6. Precise(r, step', LatestAnswer', sources')
    BY <1>1, <1>2, <1>4, <1>5 DEF Precise, Answering
  <1>7. Ordered'
    BY <1>1, OrderedStays
  <1> QED
    BY <1>1, <1>6, <1>7, Relies, ExactMoves DEF Settled

LEMMA CompleteExtractExact ==
    ASSUME Settled, [Next]_vars, NEW t \in Threads, CompleteExtract(t)
    PROVE  Exact'
  <1> DEFINE r == [thread[t] EXCEPT !.progress = TRUE, !.pc = "PERSIST"]
  <1>1. /\ ~ At(t, "idle") /\ At(t, "complete EXTRACT") /\ Becomes(t, r)
        /\ extracted' = thread[t].draft /\ UNCHANGED <<calls, claims, sources, job>>
    BY DEF CompleteExtract, At
  <1>2. r.pc = "PERSIST" /\ r.draft = thread[t].draft
    BY Mine DEF Settled, ThreadState
  <1> HIDE DEF r
  <1>3. step' = [step EXCEPT !["EXTRACT"] = "COMPLETED"]
    BY DEF CompleteExtract, Complete
  <1>4. /\ step'["EXTRACT"] = "COMPLETED"
        /\ \A s \in Steps \ {"EXTRACT"} : step'[s] = step[s]
    BY <1>3 DEF Settled, Stores, Steps
  <1>5. LatestAnswer' = LatestAnswer
    BY <1>1 DEF LatestAnswer
  <1>6. /\ thread[t].draft = Borne(LatestAnswer', sources')
        /\ step'["OPEN_SOURCE"] = "COMPLETED" /\ Ordered
    BY <1>1, <1>5, Relies DEF Precise, Opened, At, Steps
  <1>7. Precise(r, step', LatestAnswer', sources')
    BY <1>2, <1>4, <1>6 DEF Precise, Answering
  <1>8. Ordered'
    BY <1>1, <1>4, <1>5, <1>6 DEF Ordered, Steps
  <1> QED
    BY <1>1, <1>7, <1>8, Relies, ExactMoves DEF Settled

LEMMA BeginPersistExact ==
    ASSUME Settled, [Next]_vars, NEW t \in Threads, BeginPersist(t)
    PROVE  Exact'
  <1> DEFINE e == [thread[t] EXCEPT !.pc = "read", !.progress = FALSE]
             k == [Idle EXCEPT !.pc = "READ_BACK"]
  <1>1. ~ At(t, "idle") /\ UNCHANGED <<calls, extracted, claims, sources, job>>
    BY DEF BeginPersist, At
  <1>2. e.pc = "read" /\ e.draft = thread[t].draft
    BY Mine DEF Settled, ThreadState
  <1>3. k.pc = "READ_BACK"
    BY DEF Idle
  <1>4. Begin(t, "PERSIST", e, k)
    BY DEF BeginPersist
  <1> HIDE DEF e, k
  <1>5. /\ \A z \in Steps : step'[z] = "COMPLETED" => step[z] = "COMPLETED"
        /\ \/ step["PERSIST"] = "COMPLETED" /\ step' = step /\ Becomes(t, k)
           \/ step["PERSIST"] # "COMPLETED" /\ Becomes(t, e)
    BY <1>4, BeginLater DEF Steps
  <1>6. LatestAnswer' = LatestAnswer
    BY <1>1 DEF LatestAnswer
  <1>7. /\ thread[t].draft = Borne(LatestAnswer', sources')
        /\ step'["OPEN_SOURCE"] = "COMPLETED" /\ step'["EXTRACT"] = "COMPLETED"
    BY <1>1, <1>6, Relies DEF Precise, Opened, BeginPersist, At, Steps
  <1>8. Ordered'
    BY <1>1, <1>5, OrderedStays DEF Steps
  <1>9. CASE step["PERSIST"] = "COMPLETED" /\ step' = step /\ Becomes(t, k)
    <2>1. Precise(k, step', LatestAnswer', sources')
      BY <1>3, <1>7, <1>9 DEF Precise, Answering
    <2> QED
      BY <1>1, <1>8, <1>9, <2>1, Relies, ExactMoves DEF Settled
  <1>10. CASE Becomes(t, e)
    <2>1. Precise(e, step', LatestAnswer', sources')
      BY <1>2, <1>7 DEF Precise, Answering
    <2> QED
      BY <1>1, <1>8, <1>10, <2>1, Relies, ExactMoves DEF Settled
  <1> QED
    BY <1>5, <1>9, <1>10

LEMMA ReadSourcesExact ==
    ASSUME Settled, [Next]_vars, NEW t \in Threads, ReadSources(t)
    PROVE  Exact'
  <1> DEFINE r == [thread[t] EXCEPT !.read = sources, !.pc = "persist"]
  <1>1. /\ ~ At(t, "idle") /\ At(t, "read") /\ Becomes(t, r)
        /\ UNCHANGED <<calls, step, extracted, claims, sources, job>>
    BY DEF ReadSources, At, stored
  <1>2. r.pc = "persist" /\ r.draft = thread[t].draft /\ r.read = sources
    BY Mine DEF Settled, ThreadState
  <1> HIDE DEF r
  <1>3. LatestAnswer' = LatestAnswer
    BY <1>1 DEF LatestAnswer
  <1>4. /\ thread[t].draft = Borne(LatestAnswer', sources')
        /\ step["OPEN_SOURCE"] = "COMPLETED" /\ step["EXTRACT"] = "COMPLETED"
    BY <1>1, <1>3, Relies DEF Precise, Opened, At
  <1>5. Precise(r, step', LatestAnswer', sources')
    BY <1>1, <1>2, <1>4 DEF Precise, Answering
  <1>6. Ordered'
    BY <1>1, OrderedStays
  <1> QED
    BY <1>1, <1>5, <1>6, Relies, ExactMoves DEF Settled

\* All that the answer claims and the sources bear out is stored, in one transaction.
LEMMA PersistStores ==
    ASSUME NEW t, NEW a, thread[t].read = sources, thread[t].draft = Borne(a, sources),
           claims = {}, Persist(t)
    PROVE  claims' = Stored(a, sources)
  <1>1. Supported(t) = Borne(a, sources)
    <2>1. ASSUME NEW d \in Borne(a, sources)
          PROVE  sources[d[1]] \in Contents
      BY <2>1 DEF Borne
    <2> QED
      BY <2>1 DEF Supported
  <1>2. claims' = {[url |-> d[1], text |-> d[2], hash |-> sources[d[1]]] : d \in Supported(t)}
    <2>1. {d \in Supported(t) : \E c \in claims : c.url = d[1] /\ c.text = d[2]} = {}
      OBVIOUS
    <2>2. PICK same \in SUBSET {} :
            claims' = claims \union
              {[url |-> d[1], text |-> d[2], hash |-> thread[t].read[d[1]]] :
                  d \in Supported(t) \ same}
      BY <2>1 DEF Persist
    <2>3. Supported(t) \ same = Supported(t) /\ thread[t].read = sources /\ claims = {}
      BY <2>2
    <2> QED
      BY <2>2, <2>3
  <1>3. {[url |-> d[1], text |-> d[2], hash |-> sources[d[1]]] : d \in Borne(a, sources)}
          = Stored(a, sources)
    <2> DEFINE U == {v \in Urls : sources[v] \in Contents /\ sources[v] = a[v]}
               pair(u) == <<u, a[u]>>
               row(d) == [url |-> d[1], text |-> d[2], hash |-> sources[d[1]]]
               claim(u) == [url |-> u, text |-> sources[u], hash |-> sources[u]]
    <2>1. \A u \in U : row(pair(u)) = claim(u)
      OBVIOUS
    <2>2. Borne(a, sources) = {pair(u) : u \in U}
      BY DEF Borne
    <2>3. Stored(a, sources) = {claim(u) : u \in U}
      BY DEF Stored
    <2> HIDE DEF U, pair, row, claim
    <2>4. {row(d) : d \in Borne(a, sources)} = Stored(a, sources)
      BY <2>1, <2>2, <2>3, Zenon
    <2> QED
      BY <2>4 DEF row
  <1> QED
    BY <1>1, <1>2, <1>3

LEMMA PersistExact ==
    ASSUME Settled, [Next]_vars, NEW t \in Threads, Persist(t)
    PROVE  Exact'
  <1> DEFINE r == [Idle EXCEPT !.pc = "READ_BACK"]
  <1>1. /\ ~ At(t, "idle") /\ At(t, "persist") /\ Becomes(t, r)
        /\ UNCHANGED <<calls, extracted, sources, job>>
    BY DEF Persist, At
  <1>2. r.pc = "READ_BACK"
    BY DEF Idle
  <1> HIDE DEF r
  <1>3. step' = [step EXCEPT !["PERSIST"] = "COMPLETED"]
    BY DEF Persist, Complete
  <1>4. /\ step'["PERSIST"] = "COMPLETED"
        /\ \A s \in Steps \ {"PERSIST"} : step'[s] = step[s]
    BY <1>3 DEF Settled, Stores, Steps
  <1>5. LatestAnswer' = LatestAnswer
    BY <1>1 DEF LatestAnswer
  <1>6. /\ thread[t].draft = Borne(LatestAnswer, sources) /\ thread[t].read = sources
        /\ step["OPEN_SOURCE"] = "COMPLETED" /\ step["EXTRACT"] = "COMPLETED"
        /\ step["PERSIST"] # "COMPLETED" /\ Ordered
    BY <1>1, Relies DEF Precise, Opened, Good, At
  <1>7. claims' = Stored(LatestAnswer', sources')
    BY <1>1, <1>5, <1>6, PersistStores DEF Ordered
  <1>8. Precise(r, step', LatestAnswer', sources')
    BY <1>2, <1>4, <1>6 DEF Precise, Answering, Steps
  <1>9. Ordered'
    BY <1>1, <1>4, <1>5, <1>6, <1>7 DEF Ordered, Steps
  <1> QED
    BY <1>1, <1>8, <1>9, Relies, ExactMoves DEF Settled

LEMMA ReadBackExact ==
    ASSUME Settled, [Next]_vars, NEW t \in Threads, BeginReadBack(t) \/ ReadBack(t)
    PROVE  Exact'
  <1> DEFINE e == [thread[t] EXCEPT !.pc = "read back"]
             k == [thread[t] EXCEPT !.pc = "return"]
  <1>1. ~ At(t, "idle") /\ UNCHANGED <<calls, extracted, claims, sources, job>>
    BY DEF BeginReadBack, ReadBack, At
  <1>2. Becomes(t, e) \/ Becomes(t, k)
    BY DEF BeginReadBack, ReadBack, Begin, Goes
  <1>3. e.pc = "read back" /\ k.pc = "return"
    BY Mine DEF Settled, ThreadState
  <1> HIDE DEF e, k
  <1>4. /\ step'["OPEN_SOURCE"] = "COMPLETED" /\ step'["PERSIST"] = "COMPLETED"
    BY <1>1, Relies DEF Precise, Opened, BeginReadBack, ReadBack, At, Steps
  <1>5. \A s \in {"OPEN_SOURCE", "EXTRACT", "PERSIST"} : step'[s] = step[s]
    BY DEF BeginReadBack, ReadBack, Begin, Complete, Settled, Stores, Steps
  <1>6. Ordered'
    BY <1>1, <1>5, OrderedStays
  <1>7. Precise(e, step', LatestAnswer', sources')
    BY <1>3, <1>4 DEF Precise, Answering
  <1>8. Precise(k, step', LatestAnswer', sources')
    BY <1>3, <1>4 DEF Precise, Answering
  <1> QED
    BY <1>1, <1>2, <1>6, <1>7, <1>8, Relies, ExactMoves DEF Settled

\* A result is only returned once the claims are stored.
LEMMA ReturnExact ==
    ASSUME Settled, [Next]_vars, NEW t \in Threads, Return(t)
    PROVE  Exact'
  <1>1. /\ ~ At(t, "idle") /\ Leaves(t, "SUCCEEDED")
        /\ UNCHANGED <<calls, step, extracted, claims, sources>>
    BY DEF Return, At, stored
  <1>2. step["PERSIST"] = "COMPLETED" /\ Ordered
    BY <1>1, Relies DEF Precise, Return, At
  <1>3. LatestAnswer' = LatestAnswer
    BY <1>1 DEF LatestAnswer
  <1>4. Ordered'
    BY <1>1, <1>2, <1>3 DEF Ordered
  <1> QED
    BY <1>1, <1>4, ExactLeaves

LEMMA EndExact ==
    ASSUME Settled, [Next]_vars, NEW t \in Threads,
           \/ Checkpoint(t) \/ TimesOut(t) \/ Stops(t) \/ PersistFails(t)
           \/ AnswerUnusable(t) \/ FailSearch(t)
    PROVE  Exact'
  <1>1. ~ At(t, "idle") /\ UNCHANGED <<extracted, claims, sources>>
    BY DEF Checkpoint, TimesOut, Stops, PersistFails, AnswerUnusable, FailSearch, At, stored
  <1>2. PICK status \in {"open", "FAILED", "TIMED_OUT"} : Leaves(t, status)
    BY DEF Checkpoint, TimesOut, Stops, PersistFails, AnswerUnusable, FailSearch
  <1>3. job' # "SUCCEEDED" \/ job' = job
    BY <1>2 DEF Leaves
  <1>4. \A s \in Steps : step'[s] = "COMPLETED" => step[s] = "COMPLETED"
    BY DEF Checkpoint, TimesOut, Stops, PersistFails, AnswerUnusable, FailSearch, Fail, stored,
           Settled, Stores
  <1>5. Ordered'
    BY <1>1, <1>3, <1>4, OrderedStays DEF Steps
  <1> QED
    BY <1>1, <1>2, <1>5, ExactLeaves

LEMMA NextExact ==
    ASSUME Stores, Threaded, Alone, Exact, [Next]_vars
    PROVE  Exact'
  <1>1. CASE overlapped'
    BY <1>1 DEF Exact
  <1>2. CASE ~ overlapped'
    <2>1. Settled
      BY <1>2, OverlapStays DEF Settled
    <2>2. ASSUME NEW t \in Threads, Calling(t)
          PROVE  Exact'
      BY <2>1, <2>2, BeginCallExact, ReuseExact, CallExact, AnsweredExact, FailsExact, EndExact,
         CompleteCallExact DEF Calling
    <2>3. ASSUME NEW t \in Threads, Serving(t)
          PROVE  Exact'
      BY <2>1, <2>3, BeginOpenExact, LookExact, FetchExact, CompleteOpenExact, BeginExtractExact,
         VerifyExact, CompleteExtractExact, BeginPersistExact, ReadSourcesExact, PersistExact,
         ReadBackExact, ReturnExact DEF Serving
    <2>4. ASSUME NEW t \in Threads,
                 Acquire(t) \/ Checkpoint(t) \/ TimesOut(t) \/ Disturbance(t)
          PROVE  Exact'
      BY <1>2, <2>1, <2>4, AcquireExact, EndExact, FailsExact DEF Disturbance, Lapse
    <2>5. CASE UNCHANGED <<stored, job, thread, overlapped>>
      BY <2>5 DEF Exact, Ordered, LatestAnswer, stored
    <2> QED
      BY <2>2, <2>3, <2>4, <2>5 DEF Next, Change, vars
  <1> QED
    BY <1>1, <1>2

LEMMA InitExact == ASSUME Init PROVE Exact
  BY IdlePrecise DEF Init, Exact, Ordered, Steps

\* However often it was interrupted, a job that one thread at a time worked on succeeds with
\* the claims of its last answer that the pages bear out, all of them and no others.
THEOREM ResultsExact == Spec => []ResultIsExact
  <1>1. TypeOK /\ Alone /\ [Next]_vars => Alone'
    BY TypeParts, NextAlone, InvocationAssumption
  <1>2. TypeOK /\ Alone /\ Exact /\ [Next]_vars => Exact'
    BY TypeParts, NextExact
  <1>3. Exact => ResultIsExact
    BY DEF Exact, Ordered, ResultIsExact, Stored
  <1> QED
    BY <1>1, <1>2, <1>3, InitAlone, InitExact, TypeCorrect, PTL DEF Spec
=============================================================================
