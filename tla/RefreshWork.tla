----------------------------- MODULE RefreshWork -----------------------------
(***************************************************************************)
(* The refresh work of one symbol: consumers request sections, requests    *)
(* attach to rows of market_context_sync_refresh_work or queue a new       *)
(* generation, and a worker leases one row at a time, publishes a snapshot *)
(* and only then, in another transaction, completes the row.               *)
(*                                                                         *)
(* A transaction is a step.  request_refresh reads the manifest before its *)
(* transaction, save_next computes its revision before its own, and the    *)
(* worker saves and completes separately: each is two steps here.          *)
(*                                                                         *)
(* Every refresh publishes a whole snapshot, so the check that the result  *)
(* has all requested sections always holds and is left out, and so is the  *)
(* audit status of snapshots.                                              *)
(***************************************************************************)
EXTENDS Naturals, FiniteSets, Sequences

CONSTANTS
    Requests,     \* (consumer_id, request_id) pairs
    Wants,        \* required_sections of a request
    Reason,       \* reason of a request
    Material,     \* MATERIAL_TRIGGER_REASONS
    Sections,     \* SECTION_NAMES
    Runners,      \* processes whose scheduler runs the refresh job
    None,
    Disturbances  \* bound: failures, crashes, lapses and foreign snapshots

ASSUME RequestAssumption ==
    /\ IsFiniteSet(Requests)
    /\ Wants \in [Requests -> (SUBSET Sections) \ {{}}]
ASSUME RunnerAssumption == None \notin Runners
ASSUME BoundAssumption == Disturbances \in Nat

Reasons == {Reason[q] : q \in Requests}

\* One row at most per request.
Ids == 1 .. Cardinality(Requests)

VARIABLES
    snapshots,  \* by revision: the work row it was saved for, 0 for other publishers
    work,       \* rows of market_context_sync_refresh_work in insertion order
    client,     \* the manifest revision that a call of request_refresh has read
    waiter,     \* rows of market_context_sync_waiters
    runner,     \* run_once of each process
    disturbed   \* disturbances so far

vars == <<snapshots, work, client, waiter, runner, disturbed>>

-----------------------------------------------------------------------------
(* Rows *)

WorkRow == [status    : {"PENDING", "RUNNING", "WAITING_BACKOFF", "COMPLETED"},
            generation: Nat \ {0},
            sections  : SUBSET Sections,
            reasons   : SUBSET Reasons,
            parent    : Nat,
            owner     : Runners \union {None},
            lease     : {"null", "live", "expired"},
            due       : BOOLEAN,             \* next_retry_at has passed
            result    : Nat]                 \* target_snapshot_revision

\* late is history: whether the row was RUNNING when the waiter attached.
WaiterRow == [work : Nat, late : BOOLEAN]

RunnerState == [pc       : {"idle", "refreshing", "saving", "saved", "failing"},
                work     : Nat,
                sections : SUBSET Sections,    \* the row as it was claimed
                reasons  : SUBSET Reasons,
                base     : Nat,                \* revision at save_next's preflight
                saved    : Nat,
                lost     : BOOLEAN]            \* the heartbeat's lost event

Revision == Len(snapshots)

Idle == [pc |-> "idle", work |-> 0, sections |-> {}, reasons |-> {}, base |-> 0,
         saved |-> 0, lost |-> FALSE]

\* Mutant of Owns: any runner may write a RUNNING row.
OwnsUnfenced(r) == work[runner[r].work].status = "RUNNING"

\* WHERE work_id=? AND status='RUNNING' AND lease_owner=?  The token of a run is
\* a fresh uuid; a runner has one run at a time, so its name serves as the token.
Owns(r) == LET row == work[runner[r].work]
           IN  row.status = "RUNNING" /\ row.owner = r

Goto(r, pc) == runner' = [runner EXCEPT ![r].pc = pc]

Disturb == disturbed < Disturbances /\ disturbed' = disturbed + 1

Init ==
    /\ snapshots = <<0>>
    /\ work = <<>>
    /\ client = [q \in Requests |-> 0]
    /\ waiter = [q \in Requests |-> [work |-> 0, late |-> FALSE]]
    /\ runner = [r \in Runners |-> Idle]
    /\ disturbed = 0

-----------------------------------------------------------------------------
(* Consumers *)

\* Committed data satisfies the request: it is answered READY without work.
Ready(q, known, available) ==
    /\ available
    /\ Reason[q] \in Material => known \in 1 .. Revision - 1

\* Read the manifest.  Whether the wanted sections are available in it, and
\* which revision the consumer holds (0 for none), is up to the environment.
ReadManifest(q) ==
    /\ client[q] = 0
    /\ \E known \in 0 .. Revision, available \in BOOLEAN : ~ Ready(q, known, available)
    /\ client' = [client EXCEPT ![q] = Revision]
    /\ UNCHANGED <<snapshots, work, waiter, runner, disturbed>>

\* Mutant of Mergeable: the inputs of a running row change as well.
MergeableRunning(q, i) ==
    \/ work[i].status = "PENDING"
    \/ work[i].status \in {"WAITING_BACKOFF", "RUNNING"} /\ Wants[q] \intersect work[i].sections # {}

\* A row that has not started takes the request's sections and reason in.
Mergeable(q, i) ==
    \/ work[i].status = "PENDING"
    \/ work[i].status = "WAITING_BACKOFF" /\ Wants[q] \intersect work[i].sections # {}

\* A running row that has the sections and the reason already takes a waiter.
Equivalent(q, i) ==
    /\ work[i].status = "RUNNING"
    /\ Wants[q] \subseteq work[i].sections
    /\ Reason[q] \in work[i].reasons

\* The first row that takes the request, ORDER BY generation DESC.
Joins(q, i) ==
    /\ Mergeable(q, i) \/ Equivalent(q, i)
    /\ \A k \in DOMAIN work : k > i => ~ (Mergeable(q, k) \/ Equivalent(q, k))

\* Mutant of Merged: the row keeps the last request only.
MergedLast(row, q) == [row EXCEPT !.sections = Wants[q], !.reasons = {Reason[q]}]

Merged(row, q) == [row EXCEPT !.sections = @ \union Wants[q], !.reasons = @ \union {Reason[q]}]

Attach(q, i, late) ==
    waiter' = [waiter EXCEPT ![q] = [work |-> i, late |-> late]]

Join(q) ==
    \E i \in DOMAIN work :
        /\ Joins(q, i)
        /\ work' = IF Mergeable(q, i) THEN [work EXCEPT ![i] = Merged(@, q)] ELSE work
        /\ Attach(q, i, work[i].status = "RUNNING")

Largest(S) == CHOOSE x \in S : \A y \in S : y <= x

\* Mutant of NextGeneration: the generations already queued are not counted.
NextRevision == Revision + 1

NextGeneration ==
    Largest({Revision} \union {work[i].generation : i \in DOMAIN work}) + 1

\* The running row that a new one complements: the latest.
RunningRow == Largest({0} \union {i \in DOMAIN work : work[i].status = "RUNNING"})

\* What the running row does not cover, or everything when it covers it all.
Residual(q) ==
    LET left == IF RunningRow = 0 THEN Wants[q] ELSE Wants[q] \ work[RunningRow].sections
    IN  IF left = {} THEN Wants[q] ELSE left

Queue(q) ==
    /\ \A i \in DOMAIN work : ~ Joins(q, i)
    /\ work' = Append(work, [status |-> "PENDING", generation |-> NextGeneration,
                             sections |-> Residual(q), reasons |-> {Reason[q]},
                             parent |-> RunningRow, owner |-> None, lease |-> "null",
                             due |-> FALSE, result |-> 0])
    /\ Attach(q, Len(work) + 1, FALSE)

\* Mutant of Submit: a repeated request_id is not looked up.
SubmitAgain(q) ==
    /\ client[q] # 0
    /\ Join(q) \/ Queue(q)
    /\ UNCHANGED <<snapshots, client, runner, disturbed>>

\* The transaction of request_refresh.  The call may be repeated at any time,
\* since an answer may be lost; it then finds its waiter, whatever the manifest.
Submit(q) ==
    /\ client[q] # 0
    /\ IF waiter[q].work # 0 THEN UNCHANGED <<work, waiter>> ELSE Join(q) \/ Queue(q)
    /\ UNCHANGED <<snapshots, client, runner, disturbed>>

-----------------------------------------------------------------------------
(* Worker *)

\* Mutant of Reclaimable: a row whose worker died is not reclaimed.
ReclaimableBackoff(i) == work[i].status = "WAITING_BACKOFF" /\ work[i].due

Reclaimable(i) == \/ work[i].status = "RUNNING" /\ work[i].lease = "expired"
                  \/ work[i].status = "WAITING_BACKOFF" /\ work[i].due

Requeued(row) == [row EXCEPT !.status = "PENDING", !.owner = None, !.lease = "null",
                             !.due = FALSE]

\* claim_next_refresh_work: reclaim, then lease the lowest pending generation.
Claim(r) ==
    /\ runner[r].pc = "idle"
    /\ LET pending == {i \in DOMAIN work : work[i].status = "PENDING" \/ Reclaimable(i)}
       IN  \E i \in pending :
             /\ \A k \in pending : i <= k
             /\ work' = [k \in DOMAIN work |->
                           IF k = i
                           THEN [Requeued(work[k]) EXCEPT !.status = "RUNNING", !.owner = r,
                                                          !.lease = "live"]
                           ELSE IF Reclaimable(k) THEN Requeued(work[k]) ELSE work[k]]
             /\ runner' = [runner EXCEPT ![r] =
                             [Idle EXCEPT !.pc = "refreshing", !.work = i,
                                          !.sections = work[i].sections,
                                          !.reasons = work[i].reasons]]
    /\ UNCHANGED <<snapshots, client, waiter, disturbed>>

\* The refresh returned: assert_owned, then the preflight of save_next.
Refreshed(r) ==
    /\ runner[r].pc = "refreshing"
    /\ runner' = [runner EXCEPT ![r] =
                    IF runner[r].lost THEN [@ EXCEPT !.pc = "failing"]
                    ELSE [@ EXCEPT !.pc = "saving", !.base = Revision]]
    /\ UNCHANGED <<snapshots, work, client, waiter, disturbed>>

\* No committed components, an exception of the runtime, or of the preflight.
RefreshFails(r) ==
    /\ runner[r].pc \in {"refreshing", "saving"}
    /\ Disturb
    /\ Goto(r, "failing")
    /\ UNCHANGED <<snapshots, work, client, waiter>>

\* The transaction of save_next: it raises when another snapshot came between.
Save(r) ==
    /\ runner[r].pc = "saving"
    /\ IF runner[r].base = Revision
       THEN /\ snapshots' = Append(snapshots, runner[r].work)
            /\ runner' = [runner EXCEPT ![r].pc = "saved", ![r].saved = Revision + 1]
       ELSE /\ Goto(r, "failing")
            /\ UNCHANGED snapshots
    /\ UNCHANGED <<work, client, waiter, disturbed>>

\* assert_owned and complete_refresh_work.
Complete(r) ==
    /\ runner[r].pc = "saved"
    /\ LET i == runner[r].work
       IN  IF /\ ~ runner[r].lost
              /\ Owns(r)
              /\ runner[r].saved >= work[i].generation
           THEN /\ work' = [work EXCEPT ![i].status = "COMPLETED", ![i].owner = None,
                                        ![i].lease = "null", ![i].result = runner[r].saved]
                /\ runner' = [runner EXCEPT ![r] = Idle]
           ELSE /\ Goto(r, "failing")
                /\ UNCHANGED work
    /\ UNCHANGED <<snapshots, client, waiter, disturbed>>

\* The except block: a run that lost its lease leaves the row alone.
Fail(r) ==
    /\ runner[r].pc = "failing"
    /\ work' = IF ~ runner[r].lost /\ Owns(r)
               THEN [work EXCEPT ![runner[r].work] =
                       [@ EXCEPT !.status = "WAITING_BACKOFF", !.owner = None,
                                 !.lease = "null", !.due = FALSE]]
               ELSE work
    /\ runner' = [runner EXCEPT ![r] = Idle]
    /\ UNCHANGED <<snapshots, client, waiter, disturbed>>

Beating(r) == runner[r].pc \in {"refreshing", "saving", "saved"} /\ ~ runner[r].lost

\* The heartbeat thread renews the lease, also one that has expired meanwhile.
Heartbeat(r) ==
    /\ Beating(r)
    /\ Owns(r)
    /\ work' = [work EXCEPT ![runner[r].work].lease = "live"]
    /\ UNCHANGED <<snapshots, client, waiter, runner, disturbed>>

\* It finds the row taken over, or dies on any other exception.
HeartbeatFails(r) ==
    /\ Beating(r)
    /\ IF Owns(r) THEN Disturb ELSE UNCHANGED disturbed
    /\ runner' = [runner EXCEPT ![r].lost = TRUE]
    /\ UNCHANGED <<snapshots, work, client, waiter>>

-----------------------------------------------------------------------------
(* Clock, crashes and other publishers *)

\* The process dies and starts again, or backoff_refresh_work itself raises.
Crash(r) ==
    /\ runner[r].pc # "idle"
    /\ Disturb
    /\ runner' = [runner EXCEPT ![r] = Idle]
    /\ UNCHANGED <<snapshots, work, client, waiter>>

Attended(i) == \E r \in Runners : runner[r].work = i /\ Owns(r) /\ Beating(r)

\* A lease that somebody renews lapses only when the heartbeat is late.
LeaseExpires(i) ==
    /\ work[i].status = "RUNNING"
    /\ work[i].lease = "live"
    /\ IF Attended(i) THEN Disturb ELSE UNCHANGED disturbed
    /\ work' = [work EXCEPT ![i].lease = "expired"]
    /\ UNCHANGED <<snapshots, client, waiter, runner>>

BackoffDue(i) ==
    /\ work[i].status = "WAITING_BACKOFF"
    /\ ~ work[i].due
    /\ work' = [work EXCEPT ![i].due = TRUE]
    /\ UNCHANGED <<snapshots, client, waiter, runner, disturbed>>

\* The full pipeline, the due resolver or a parent materialisation publishes.
OtherPublish ==
    /\ Disturb
    /\ snapshots' = Append(snapshots, 0)
    /\ UNCHANGED <<work, client, waiter, runner>>

Run(r) == Refreshed(r) \/ Save(r) \/ Complete(r) \/ Fail(r)

Next == \/ \E q \in Requests : ReadManifest(q) \/ Submit(q)
        \/ \E r \in Runners : \/ Claim(r) \/ Run(r) \/ RefreshFails(r)
                              \/ Heartbeat(r) \/ HeartbeatFails(r) \/ Crash(r)
        \/ \E i \in DOMAIN work : LeaseExpires(i) \/ BackoffDue(i)
        \/ OtherPublish

Spec == Init /\ [][Next]_vars

\* The scheduler runs the job every interval and a run ends by its timeouts; a
\* retry falls due, and a lease that nobody renews lapses.
Fairness == /\ \A r \in Runners : WF_vars(Claim(r)) /\ WF_vars(Run(r))
            /\ \A i \in Ids : /\ WF_vars(i \in DOMAIN work /\ BackoffDue(i))
                              /\ WF_vars(i \in DOMAIN work /\ ~ Attended(i) /\ LeaseExpires(i))

FairSpec == Spec /\ Fairness

-----------------------------------------------------------------------------
(* Properties *)

\* Rows refer to rows, and generations grow in insertion order:
\* UNIQUE(symbol, generation) never fires, and ORDER BY generation is the order
\* in which claim_next_refresh_work and request_refresh take rows.
WellFormed ==
    /\ snapshots \in Seq(Nat)
    /\ work \in Seq(WorkRow)
    /\ client \in [Requests -> Nat]
    /\ waiter \in [Requests -> WaiterRow]
    /\ runner \in [Runners -> RunnerState]
    /\ disturbed \in 0 .. Disturbances
    /\ \A q \in Requests : waiter[q].work <= Len(work)
    /\ \A r \in Runners : /\ runner[r].work <= Len(work)
                          /\ runner[r].pc # "idle" => runner[r].work # 0
    /\ \A i \in DOMAIN work : work[i].parent < i
    /\ \A i, k \in DOMAIN work : i < k => work[i].generation < work[k].generation

\* Duplicate requests never multiply work: a request adds at most one row, and
\* every row, every disturbance and every result that a generation refuses adds
\* at most one snapshot to the first one.
Frugal ==
    /\ Len(work) <= Cardinality(Requests)
    /\ Revision \in 1 .. 1 + 2 * Cardinality(Requests) + Disturbances

TypeOK == WellFormed /\ Frugal

\* Whatever was merged, split off or retried in between, the row a request waits
\* for and the running row it complements cover all that the request wants.
WaiterCovered ==
    \A q \in Requests :
        LET i == waiter[q].work
            parent == work[i].parent
        IN  i # 0 => Wants[q] \subseteq
                        work[i].sections \union (IF parent = 0 THEN {} ELSE work[parent].sections)

\* A request that was queued, not attached to a running refresh, is answered
\* with a snapshot newer than the one its consumer was shown, also when a run
\* that lost its lease had published for the same row before.
QueuedServedByNewer ==
    \A q \in Requests :
        LET i == waiter[q].work
        IN  i # 0 /\ ~ waiter[q].late /\ work[i].status = "COMPLETED"
            => work[i].result > client[q]

\* "If a generation is already running, its inputs are immutable": the owner of
\* a row works on the sections and reasons that the row has.
OwnedInputsFrozen ==
    \A r \in Runners :
        runner[r].work # 0 /\ Owns(r)
        => /\ runner[r].sections = work[runner[r].work].sections
           /\ runner[r].reasons = work[runner[r].work].reasons

\* The rows, leases and generations implement the promise of OwedRefresh: an
\* accepted request stays owed until its row completes, and its answer stays,
\* through retries of the call, crashes and reclaimed rows.
OwedRequests == {q \in Requests : waiter[q].work # 0 /\ work[waiter[q].work].status # "COMPLETED"}
Answers == [q \in Requests |-> IF waiter[q].work = 0 THEN 0 ELSE work[waiter[q].work].result]

Owed == INSTANCE OwedRefresh WITH
            owed <- OwedRequests, answer <- Answers, Revisions <- Nat \ {0}
ImplementsOwed == Owed!Spec

\* Every accepted request is answered once failures stop: rows of dead workers
\* are reclaimed, retries fall due, and a result refused because generations
\* ran ahead of revisions is followed by one that is accepted.
EveryRequestServed ==
    \A q \in Requests : (q \in OwedRequests) ~> (Answers[q] # 0)

\* docs/market-context-sync-contract.md: "Material work arriving during
\* generation N is never inserted retroactively into N and must remain queued
\* for N+1", so that its answer is newer than what the consumer had seen.
MaterialServedByNewer ==
    \A q \in Requests :
        LET i == waiter[q].work
        IN  i # 0 /\ Reason[q] \in Material /\ work[i].status = "COMPLETED"
            => work[i].result > client[q]
=============================================================================
