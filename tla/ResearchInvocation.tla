-------------------------- MODULE ResearchInvocation --------------------------
(***************************************************************************)
(* One research run, executed by the worker thread that holds its job: one *)
(* call of the model, whose answer claims things about pages, and then     *)
(* phases of the service.  It fetches the pages, matches every claim with  *)
(* the content it fetched, and stores what matches.  Every phase is a step *)
(* row that a later attempt finds completed, or does again.                *)
(*                                                                         *)
(* ResearchJobs has the job and its attempts, and ParentResearch the       *)
(* status of the run.  CROSS_CHECK and VALIDATE, whose outputs no later    *)
(* phase reads, are left out.                                              *)
(***************************************************************************)
EXTENDS Naturals, Sequences

CONSTANTS
    Threads,
    Urls,
    Contents,     \* what a page can say, and a claim can say of it
    Answers,      \* what the model may answer: a claim about each page, or None
    None,
    Disturbances  \* bound: crashes, errors, lost leases, changes of a page

Steps == {"PLAN", "SEARCH", "OPEN_SOURCE", "EXTRACT", "PERSIST", "READ_BACK"}

ASSUME InvocationAssumption ==
    /\ Answers \subseteq [Urls -> Contents \union {None}]
    /\ None \notin Threads \union Contents \union Answers
    /\ Contents \intersect {"none", "REJECTED"} = {}
    /\ Disturbances \in Nat

VARIABLES
    page,       \* external: what a fetch of the page gives now
    step,       \* research_run_steps: the status of each
    extracted,  \* the output of EXTRACT: its accepted claims
    calls,      \* research_backend_invocations, in the order they were begun
    sources,    \* research_sources: the content fetched, REJECTED, or no row
    claims,     \* research_claims that are accepted, with their evidence
    job,        \* how the job ended: SUCCEEDED is any result, NO_DATA as well
    owner,      \* the thread that holds its lease
    thread,     \* what each thread is doing
    fetched,    \* history: every content a page was fetched with
    overlapped, \* history: a thread lost the lease and went on
    disturbed   \* disturbances so far

stored == <<step, extracted, calls, sources, claims>>
vars == <<page, stored, job, owner, thread, fetched, overlapped, disturbed>>

SourceRow == Contents \union {"none", "REJECTED"}
Invocation == [status : {"ATTEMPTED", "ABORTED", "COMPLETED"}, answer : Answers \union {None}]

\* Where a thread is when it has an answer in hand.
Answering == {"complete PLAN", "complete SEARCH", "OPEN_SOURCE", "acquire", "fetch", "EXTRACT", "verify"}

Phases == Answering \union
    {"idle", "PLAN", "SEARCH", "latest", "calling", "fail PLAN", "fail SEARCH",
     "complete EXTRACT", "PERSIST", "read", "persist", "READ_BACK", "read back", "return"}

ThreadState ==
    [pc       : Phases,
     execute  : SUBSET {"PLAN", "SEARCH"},  \* the steps of the call that it executes
     call     : Nat,                        \* its row in calls
     answer   : Answers \union {None},
     left     : SUBSET Urls,                \* requests it has not acquired
     url      : Urls \union {None},         \* the one it is fetching
     acquired : BOOLEAN,                    \* this attempt has acquired a source
     progress : BOOLEAN,                    \* history: it has done something, which is stored
     draft    : SUBSET (Urls \X Contents),  \* its verified claims
     read     : [Urls -> SourceRow] \union {None}]

Idle == [pc |-> "idle", execute |-> {}, call |-> 0, answer |-> None, left |-> {},
         url |-> None, acquired |-> FALSE, progress |-> FALSE, draft |-> {}, read |-> None]

Init ==
    /\ page \in [Urls -> Contents \union {"REJECTED"}]
    /\ step = [s \in Steps |-> "none"]
    /\ extracted = {}
    /\ calls = <<>>
    /\ sources = [u \in Urls |-> "none"]
    /\ claims = {}
    /\ job = "open"
    /\ owner = None
    /\ thread = [t \in Threads |-> Idle]
    /\ fetched = {}
    /\ overlapped = FALSE
    /\ disturbed = 0

Disturb == disturbed < Disturbances /\ disturbed' = disturbed + 1

history == <<fetched, overlapped, disturbed>>

-----------------------------------------------------------------------------
(* The steps of a thread *)

At(t, pc) == thread[t].pc = pc
Becomes(t, state) == thread' = [thread EXCEPT ![t] = state]
Goes(t, pc) == Becomes(t, [thread[t] EXCEPT !.pc = pc])

\* The thread returns to its worker, which may write the job while it has the lease.
Leaves(t, status) ==
    /\ Becomes(t, Idle)
    /\ IF owner = t THEN owner' = None /\ job' = status ELSE UNCHANGED <<owner, job>>

\* Mutant of Begin: a completed step is begun again.
BeginAgain(t, s, repeated, skipped) ==
    step' = [step EXCEPT ![s] = "RUNNING"] /\ Becomes(t, repeated)

\* begin_step: a completed step is skipped, any other one begins, whoever runs it.
Begin(t, s, executed, skipped) ==
    IF step[s] = "COMPLETED"
    THEN UNCHANGED step /\ Becomes(t, skipped)
    ELSE step' = [step EXCEPT ![s] = "RUNNING"] /\ Becomes(t, executed)

\* complete_step and fail_step write the row whatever its status is.
Complete(s) == step' = [step EXCEPT ![s] = "COMPLETED"]
Fail(s) == step' = [step EXCEPT ![s] = "FAILED"]

\* A worker acquires the job.
Acquire(t) ==
    /\ job = "open" /\ owner = None /\ At(t, "idle")
    /\ owner' = t
    /\ Goes(t, "PLAN")
    /\ UNCHANGED <<page, stored, job, history>>

\* PLAN and SEARCH begin before anything is known of an answer.
BeginCall(t, s, next) ==
    /\ At(t, s)
    /\ Begin(t, s, [thread[t] EXCEPT !.pc = next, !.execute = @ \union {s}],
                   [thread[t] EXCEPT !.pc = next])
    /\ UNCHANGED <<page, extracted, calls, sources, claims, job, owner, history>>

\* Mutant of LatestAnswer: the rows in ascending order.
FirstAnswer == IF calls = <<>> THEN None ELSE calls[1].answer

\* latest_backend_invocation: an attempt that is open or aborted has no payload.
LatestAnswer == IF calls = <<>> THEN None ELSE calls[Len(calls)].answer

MustCall(t) == thread[t].execute # {} \/ LatestAnswer = None

\* Both steps completed, and their answer is there: it is used again.
Reuse(t) ==
    /\ At(t, "latest") /\ ~ MustCall(t)
    /\ Becomes(t, [thread[t] EXCEPT !.answer = LatestAnswer, !.pc = "OPEN_SOURCE"])
    /\ UNCHANGED <<page, stored, job, owner, history>>

Call(t) ==
    /\ At(t, "latest") /\ MustCall(t)
    /\ calls' = Append(calls, [status |-> "ATTEMPTED", answer |-> None])
    /\ Becomes(t, [thread[t] EXCEPT !.call = Len(calls'), !.pc = "calling"])
    /\ UNCHANGED <<page, step, extracted, sources, claims, job, owner, history>>

\* record_backend_invocation
Answered(t) ==
    /\ At(t, "calling")
    /\ \E a \in Answers :
         /\ calls' = [calls EXCEPT ![thread[t].call] = [status |-> "COMPLETED", answer |-> a]]
         /\ Becomes(t, [thread[t] EXCEPT !.answer = a, !.progress = TRUE, !.pc = "complete PLAN"])
    /\ UNCHANGED <<page, step, extracted, sources, claims, job, owner, history>>

\* The backend raises: the attempt is aborted, and then the steps of this thread fail.
BackendFails(t) ==
    /\ At(t, "calling")
    /\ Disturb
    /\ calls' = [calls EXCEPT ![thread[t].call].status = "ABORTED"]
    /\ Goes(t, "fail PLAN")
    /\ UNCHANGED <<page, step, extracted, sources, claims, job, owner, fetched, overlapped>>

\* The answer cannot be used, or its tool events are those of a loop: the attempt is
\* aborted, its steps are left running, and the job is not retried.
AnswerUnusable(t) ==
    /\ At(t, "calling")
    /\ Disturb
    /\ calls' = [calls EXCEPT ![thread[t].call].status = "ABORTED"]
    /\ Leaves(t, "FAILED")
    /\ UNCHANGED <<page, step, extracted, sources, claims, fetched, overlapped>>

\* begin_step told this thread to execute the step.
Executed(t, s) == s \in thread[t].execute

FailPlan(t) ==
    /\ At(t, "fail PLAN")
    /\ IF Executed(t, "PLAN") THEN Fail("PLAN") ELSE UNCHANGED step
    /\ Goes(t, "fail SEARCH")
    /\ UNCHANGED <<page, extracted, calls, sources, claims, job, owner, history>>

\* The worker retries the job or closes it, as the error tells.
FailSearch(t) ==
    /\ At(t, "fail SEARCH")
    /\ IF Executed(t, "SEARCH") THEN Fail("SEARCH") ELSE UNCHANGED step
    /\ \E status \in {"open", "FAILED"} : Leaves(t, status)
    /\ UNCHANGED <<page, extracted, calls, sources, claims, history>>

CompleteCall(t, s, next) ==
    /\ At(t, IF s = "PLAN" THEN "complete PLAN" ELSE "complete SEARCH")
    /\ IF Executed(t, s) THEN Complete(s) ELSE UNCHANGED step
    /\ Becomes(t, [thread[t] EXCEPT !.execute = @ \ {s}, !.call = 0, !.pc = next])
    /\ UNCHANGED <<page, extracted, calls, sources, claims, job, owner, history>>

-----------------------------------------------------------------------------
(* The phases of the service *)

\* _acquisition_requests: every page a claim is about.
Requested(t) == {u \in Urls : thread[t].answer[u] # None}

BeginOpen(t) ==
    /\ At(t, "OPEN_SOURCE")
    /\ Begin(t, "OPEN_SOURCE", [thread[t] EXCEPT !.pc = "acquire", !.left = Requested(t)],
                               [thread[t] EXCEPT !.pc = "EXTRACT"])
    /\ UNCHANGED <<page, extracted, calls, sources, claims, job, owner, history>>

\* Mutant of Known: a source of an earlier attempt is fetched again.
KnownNever(u) == FALSE

\* research_source_for_url
Known(u) == sources[u] # "none"

\* acquire: a page that has a row, fetched or rejected, is not fetched again.
Look(t) ==
    /\ At(t, "acquire")
    /\ \E u \in thread[t].left :
         Becomes(t, IF Known(u) THEN [thread[t] EXCEPT !.left = @ \ {u}, !.acquired = TRUE]
                                ELSE [thread[t] EXCEPT !.url = u, !.pc = "fetch"])
    /\ UNCHANGED <<page, stored, job, owner, history>>

\* persist_research_source overwrites what another thread has fetched meanwhile.
Fetch(t) ==
    /\ At(t, "fetch")
    /\ LET u == thread[t].url
       IN  /\ sources' = [sources EXCEPT ![u] = page[u]]
           /\ fetched' = IF page[u] \in Contents THEN fetched \union {<<u, page[u]>>} ELSE fetched
           /\ Becomes(t, [thread[t] EXCEPT !.left = @ \ {u}, !.acquired = TRUE,
                             !.progress = TRUE, !.url = None, !.pc = "acquire"])
    /\ UNCHANGED <<page, step, extracted, calls, claims, job, owner, overlapped, disturbed>>

CompleteOpen(t) ==
    /\ At(t, "acquire") /\ thread[t].left = {}
    /\ Complete("OPEN_SOURCE")
    /\ Becomes(t, [thread[t] EXCEPT !.acquired = FALSE, !.pc = "EXTRACT"])
    /\ UNCHANGED <<page, extracted, calls, sources, claims, job, owner, history>>

\* Mutant of Restored: the output of a completed EXTRACT is not read.
RestoredNever == {}

Restored == extracted

BeginExtract(t) ==
    /\ At(t, "EXTRACT")
    /\ Begin(t, "EXTRACT", [thread[t] EXCEPT !.pc = "verify"],
                           [thread[t] EXCEPT !.pc = "PERSIST", !.draft = Restored, !.answer = None])
    /\ UNCHANGED <<page, extracted, calls, sources, claims, job, owner, history>>

\* Mutant of Matches: it is enough that the page was requested.
MatchesAny(u, text) == sources[u] # "none"

\* match_evidence: the page was fetched, and says what the claim says.
Matches(u, text) == sources[u] \in Contents /\ sources[u] = text

Verified(t) == {<<u, thread[t].answer[u]>> : u \in
                   {v \in Requested(t) : Matches(v, thread[t].answer[v])}}

\* verify_claims
Verify(t) ==
    /\ At(t, "verify")
    /\ Becomes(t, [thread[t] EXCEPT !.draft = Verified(t), !.answer = None,
                                     !.pc = "complete EXTRACT"])
    /\ UNCHANGED <<page, stored, job, owner, history>>

CompleteExtract(t) ==
    /\ At(t, "complete EXTRACT")
    /\ Complete("EXTRACT")
    /\ extracted' = thread[t].draft
    /\ Becomes(t, [thread[t] EXCEPT !.progress = TRUE, !.pc = "PERSIST"])
    /\ UNCHANGED <<page, calls, sources, claims, job, owner, history>>

BeginPersist(t) ==
    /\ At(t, "PERSIST")
    /\ Begin(t, "PERSIST", [thread[t] EXCEPT !.pc = "read", !.progress = FALSE],
                           [Idle EXCEPT !.pc = "READ_BACK"])
    /\ UNCHANGED <<page, extracted, calls, sources, claims, job, owner, history>>

\* persist_claims reads the sources before it begins its transaction ...
ReadSources(t) ==
    /\ At(t, "read")
    /\ Becomes(t, [thread[t] EXCEPT !.read = sources, !.pc = "persist"])
    /\ UNCHANGED <<page, stored, job, owner, history>>

\* _validated_evidence: what the read finds fetched.
Supported(t) == {d \in thread[t].draft : thread[t].read[d[1]] \in Contents}

\* ... which stores the claims, with the hashes of that read, and completes the step.
\* A claim that another thread has stored from the same fetch keeps its evidence.
Persist(t) ==
    /\ At(t, "persist")
    /\ \E same \in SUBSET {d \in Supported(t) : \E c \in claims : c.url = d[1] /\ c.text = d[2]} :
         claims' = claims \union
             {[url |-> d[1], text |-> d[2], hash |-> thread[t].read[d[1]]] :
                 d \in Supported(t) \ same}
    /\ Complete("PERSIST")
    /\ Becomes(t, [Idle EXCEPT !.pc = "READ_BACK"])
    /\ UNCHANGED <<page, extracted, calls, sources, job, owner, history>>

\* _record_persist_failure, after the rollback: an error that is not retried.
PersistFails(t) ==
    /\ At(t, "persist")
    /\ Disturb
    /\ Fail("PERSIST")
    /\ Leaves(t, "FAILED")
    /\ UNCHANGED <<page, extracted, calls, sources, claims, fetched, overlapped>>

BeginReadBack(t) ==
    /\ At(t, "READ_BACK")
    /\ Begin(t, "READ_BACK", [thread[t] EXCEPT !.pc = "read back"],
                             [thread[t] EXCEPT !.pc = "return"])
    /\ UNCHANGED <<page, extracted, calls, sources, claims, job, owner, history>>

ReadBack(t) ==
    /\ At(t, "read back")
    /\ Complete("READ_BACK")
    /\ Goes(t, "return")
    /\ UNCHANGED <<page, extracted, calls, sources, claims, job, owner, history>>

Return(t) ==
    /\ At(t, "return")
    /\ Leaves(t, "SUCCEEDED")
    /\ UNCHANGED <<page, stored, history>>

-----------------------------------------------------------------------------
(* The deadline of an attempt *)

\* _checkpoint_or_deadline: the job is continued, before OPEN_SOURCE and PERSIST whether
\* or not this attempt has done anything yet.
Checkpoint(t) ==
    /\ \/ At(t, "OPEN_SOURCE") \/ At(t, "PERSIST")
       \/ At(t, "acquire") /\ thread[t].left # {} /\ thread[t].acquired
    /\ Leaves(t, "open")
    /\ UNCHANGED <<page, stored, history>>

\* _deadline_result: the job is not retried.
TimesOut(t) ==
    /\ \/ At(t, "latest") /\ MustCall(t)
       \/ At(t, "acquire") /\ thread[t].left # {} /\ ~ thread[t].acquired
    /\ Leaves(t, "TIMED_OUT")
    /\ UNCHANGED <<page, stored, history>>

-----------------------------------------------------------------------------
(* Disturbances *)

\* The process dies and the job is recovered, or something raises and the worker
\* retries the job or closes it.
Stops(t) ==
    /\ ~ At(t, "idle")
    /\ Disturb
    /\ \E status \in {"open", "FAILED"} : Leaves(t, status)
    /\ UNCHANGED <<page, stored, fetched, overlapped>>

\* The lease expires under a thread that goes on.
Lapse(t) ==
    /\ owner = t
    /\ Disturb
    /\ owner' = None
    /\ overlapped' = TRUE
    /\ UNCHANGED <<page, stored, job, thread, fetched>>

\* External: a page is edited, disappears or comes back.
Change(u) ==
    /\ Disturb
    /\ \E now \in Contents \union {"REJECTED"} :
         page[u] # now /\ page' = [page EXCEPT ![u] = now]
    /\ UNCHANGED <<stored, job, owner, thread, fetched, overlapped>>

-----------------------------------------------------------------------------
Calling(t) ==
    \/ BeginCall(t, "PLAN", "SEARCH") \/ BeginCall(t, "SEARCH", "latest")
    \/ Reuse(t) \/ Call(t) \/ Answered(t) \/ FailPlan(t) \/ FailSearch(t)
    \/ CompleteCall(t, "PLAN", "complete SEARCH") \/ CompleteCall(t, "SEARCH", "OPEN_SOURCE")

Serving(t) ==
    \/ BeginOpen(t) \/ Look(t) \/ Fetch(t) \/ CompleteOpen(t)
    \/ BeginExtract(t) \/ Verify(t) \/ CompleteExtract(t)
    \/ BeginPersist(t) \/ ReadSources(t) \/ Persist(t)
    \/ BeginReadBack(t) \/ ReadBack(t) \/ Return(t)

Disturbance(t) ==
    BackendFails(t) \/ AnswerUnusable(t) \/ PersistFails(t) \/ Stops(t) \/ Lapse(t)

Next ==
    \/ \E t \in Threads : \/ Acquire(t) \/ Calling(t) \/ Serving(t)
                          \/ Checkpoint(t) \/ TimesOut(t) \/ Disturbance(t)
    \/ \E u \in Urls : Change(u)

Spec == Init /\ [][Next]_vars

\* The workers poll for the job, and a thread goes on: the watchdog bounds a call.
Fairness == \A t \in Threads : WF_vars(Acquire(t)) /\ WF_vars(Calling(t) \/ Serving(t))

\* The deadline is long enough: in the end it meets no attempt that has only skipped what
\* others had completed.  A pace below that is continued for ever.
Productive == \A t \in Threads : <>[][Checkpoint(t) => thread[t].progress]_vars

FairSpec == Spec /\ Fairness /\ Productive

-----------------------------------------------------------------------------
(* Properties *)

\* Everything is well formed.  A call in flight has its row, and a thread has what
\* its phase works on.
TypeOK ==
    /\ page \in [Urls -> Contents \union {"REJECTED"}]
    /\ step \in [Steps -> {"none", "RUNNING", "COMPLETED", "FAILED"}]
    /\ extracted \subseteq Urls \X Contents
    /\ calls \in Seq(Invocation)
    /\ sources \in [Urls -> SourceRow]
    /\ claims \subseteq [url : Urls, text : Contents, hash : Contents]
    /\ job \in {"open", "SUCCEEDED", "TIMED_OUT", "FAILED"}
    /\ owner \in Threads \union {None}
    /\ thread \in [Threads -> ThreadState]
    /\ fetched \subseteq Urls \X Contents
    /\ overlapped \in BOOLEAN
    /\ disturbed \in 0 .. Disturbances
    /\ \A t \in Threads :
         /\ At(t, "calling") => thread[t].call \in 1 .. Len(calls)
         /\ thread[t].pc \in Answering => thread[t].answer \in Answers
         /\ At(t, "fetch") => thread[t].url \in Urls
         /\ At(t, "persist") => thread[t].read \in [Urls -> SourceRow]

\* An accepted claim says what a page said when the service fetched it, whatever
\* threads run the same job, and whatever the pages have become.
ClaimIsBacked == \A c \in claims : <<c.url, c.text>> \in fetched

\* A job succeeds with exactly the claims of the answer it paid for last that the
\* fetched pages bear out, each with the hash of the content it was matched with,
\* however often it was interrupted.
ResultIsExact ==
    job = "SUCCEEDED" /\ ~ overlapped =>
        claims = {[url |-> u, text |-> sources[u], hash |-> sources[u]] :
                     u \in {v \in Urls : sources[v] \in Contents /\ sources[v] = LatestAnswer[v]}}

\* The model is not asked again once SEARCH is completed: a later attempt finds the
\* answer, unless two threads have worked on the run.
AnswerIsKept == [][step["SEARCH"] = "COMPLETED" /\ ~ overlapped => Len(calls') = Len(calls)]_vars

\* A completed step stays completed for every later attempt, unless two threads have
\* worked on the run.
CompletedStays ==
    [][\A s \in Steps : step[s] = "COMPLETED" /\ ~ overlapped => step'[s] = "COMPLETED"]_vars

\* The research ends: an attempt that meets its deadline leaves less for the next one.
ResearchEnds == <>(job # "open")

\* Documented (persistent-ai-and-temporal-architecture.md:30): the content hash of an
\* evidence row is that of the content its claim was matched with.
EvidenceIsMatched == \A c \in claims : c.hash = c.text
=============================================================================
