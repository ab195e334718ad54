-------------------------- MODULE CalendarCatchup --------------------------
(***************************************************************************)
(* The catch-up of the event calendar: a tick counts the due rows of       *)
(* DatumLifecycle, scans them in batches, provider only, and writes what   *)
(* is left to a checkpoint that operators and the next tick read.  The     *)
(* scheduled scanners run beside it.                                       *)
(***************************************************************************)
EXTENDS DatumLifecycle

CONSTANTS BatchSize, MaxPerTick   \* event_calendar_catchup_batch_size, .._max_per_tick

ASSUME TickAssumption == BatchSize \in Nat \ {0} /\ MaxPerTick \in Nat \ {0}

VARIABLES
    tick,       \* the running tick of the catch-up
    checkpoint  \* provider_state 'event_calendar_lifecycle_catchup'

vars == <<lifecycleVars, tick, checkpoint>>

Completion == {"IN_PROGRESS", "WAITING_BACKOFF", "PARTIAL", "EXHAUSTED_NO_DATA",
               "COMPLETED_WITH_GAPS", "COMPLETED"}

\* open is history: the retries that were ahead when the tick began.
TickState == [pc : {"idle", "ticking", "scanning"}, claimed : 0 .. MaxPerTick,
              resolved : BOOLEAN, residual : BOOLEAN, open : SUBSET Keys]

NoTick == [pc |-> "idle", claimed |-> 0, resolved |-> FALSE, residual |-> FALSE, open |-> {}]

-----------------------------------------------------------------------------
(* What a tick counts; its own clock stands still, so "new" times are ahead *)

\* count_due(now=the tick's clock)
DueAtTick(rows) == {k \in Keys : DueBy(rows[k], {"due"})}

\* Leases and retries that are ahead, with the gaps that stay retryable.
PendingRow(r) ==
    \/ r.status = "LEASED" /\ r.lease = "live"
    \/ r.status \in {"BACKOFF", "UNRESOLVED"} /\ NextAt(r) \notin {"due", "null"}

PendingRetry(rows) == {k \in Keys : PendingRow(rows[k])}
TerminalGaps == {k \in Keys : row[k].status \in {"DISABLED", "NO_DATA"}}

\* completion_status, from the counts at the end of a tick.
Verdict ==
    IF DueAtTick(row) # {} THEN "IN_PROGRESS"
    ELSE IF PendingRetry(row) # {} THEN "WAITING_BACKOFF"
    ELSE IF tick.resolved /\ (tick.residual \/ TerminalGaps # {}) THEN "PARTIAL"
    ELSE IF TerminalGaps # {} /\ \A k \in TerminalGaps : row[k].status = "NO_DATA"
    THEN "EXHAUSTED_NO_DATA"
    ELSE IF TerminalGaps # {} \/ tick.residual THEN "COMPLETED_WITH_GAPS"
    ELSE "COMPLETED"

\* The tick reads the clock: what has passed has passed for it.
AtTick(r) == [r EXCEPT !.retry = IF @ = "new" THEN "due" ELSE @,
                       !.refresh = IF @ = "new" THEN "due" ELSE @]

CatchupInit ==
    /\ LifecycleInit
    /\ tick = NoTick
    /\ checkpoint = "none"

-----------------------------------------------------------------------------
(* The tick *)

\* With nothing due a tick only reports: ALREADY_COMPLETE and an unchanged
\* backoff write nothing, another backoff updates the checkpoint.
TickStart ==
    /\ tick.pc = "idle"
    /\ scan[CatchUp].pc = "idle"
    /\ row' = [k \in Keys |-> AtTick(row[k])]
    /\ LET due == DueAtTick(row')
       IN  IF due = {} /\ PendingRetry(row') # {}
           THEN checkpoint' = "WAITING_BACKOFF" /\ UNCHANGED tick
           ELSE IF due = {} /\ checkpoint = "COMPLETED"
           THEN UNCHANGED <<checkpoint, tick>>
           ELSE tick' = [NoTick EXCEPT !.pc = "ticking", !.open = PendingRetry(row')]
                /\ UNCHANGED checkpoint
    /\ UNCHANGED <<phase, feed, snapshot, scan, other, disturbed>>

\* One batch: scan_due_items of the catch-up, until it is idle again.
TickScan ==
    /\ tick.pc = "ticking"
    /\ tick.claimed < MaxPerTick
    /\ DueAtTick(row) # {}
    /\ LET room == MaxPerTick - tick.claimed
       IN  Claim(CatchUp, IF BatchSize < room THEN BatchSize ELSE room)
    /\ tick' = [tick EXCEPT !.pc = "scanning", !.claimed = @ + Cardinality(scan'[CatchUp].todo)]
    /\ UNCHANGED checkpoint

\* The steps of that scan, and what the tick keeps of its result.  A snapshot
\* that came in between ends the tick with the scan.
TickStep ==
    /\ Step(CatchUp)
    /\ LET now == scan'[CatchUp]
           item == scan[CatchUp].todo \ now.todo
           found == {k \in item \ now.partial : now.resolved[k] # 0}
           failed == IF disturbed' # disturbed THEN item ELSE {}
       IN  tick' = IF now.pc = "idle" /\ scan[CatchUp].pc = "saving" THEN NoTick
                   ELSE [tick EXCEPT !.resolved = @ \/ found # {},
                                     !.residual = @ \/ item \ (found \union failed) # {},
                                     !.pc = IF now.pc = "idle" THEN "ticking" ELSE @]
    /\ UNCHANGED checkpoint

\* The bound is reached, or nothing is due any more.
TickEnd ==
    /\ tick.pc = "ticking"
    /\ tick.claimed >= MaxPerTick \/ DueAtTick(row) = {}
    /\ checkpoint' = Verdict
    /\ tick' = NoTick
    /\ UNCHANGED lifecycleVars

-----------------------------------------------------------------------------
ScanStep(s) ==
    /\ s # CatchUp
    /\ Claim(s, Cardinality(Keys)) \/ Step(s) \/ Abort(s)
    /\ UNCHANGED <<tick, checkpoint>>

CatchupFails ==
    /\ Abort(CatchUp)
    /\ tick' = NoTick
    /\ UNCHANGED checkpoint

Outside ==
    /\ World
    /\ tick' = IF scan'[CatchUp].pc = "idle" /\ tick.pc = "scanning" THEN NoTick ELSE tick
    /\ UNCHANGED checkpoint

Next ==
    \/ TickStart \/ TickScan \/ TickStep \/ TickEnd \/ CatchupFails
    \/ \E s \in Scanners : ScanStep(s)
    \/ Outside

Spec == CatchupInit /\ [][Next]_vars

\* The loop of the catch-up ticks every interval, the scheduler starts the other
\* scans, and time passes.  A due row is claimed in the end: claims are ordered by
\* impact and then by due time, and far fewer rows fall due while a tick runs than
\* it claims.  Whether and when a provider publishes is not known.
Fairness ==
    /\ WF_vars(TickStart) /\ WF_vars(TickScan) /\ WF_vars(TickStep) /\ WF_vars(TickEnd)
    /\ \A s \in Scanners : WF_vars(ScanStep(s) /\ ~ Abort(s))
    /\ \A k \in Keys : SF_vars(TickScan /\ k \in scan'[CatchUp].todo)
    /\ \A k \in Keys :
         /\ WF_vars(Outside /\ Release(k)) /\ WF_vars(Outside /\ Deadline(k))
         /\ WF_vars(Outside /\ FallDue(k))
         /\ WF_vars(Outside /\ LeaseExpires(k) /\ UNCHANGED disturbed)

FairSpec == Spec /\ Fairness

-----------------------------------------------------------------------------
(* Properties *)

\* Every row and every scan is well formed; a row is LEASED exactly while it has
\* an owner and a lease, whatever upserts and projections write in between.
TypeOK ==
    /\ phase \in [Keys -> {"scheduled", "released", "expired"}]
    /\ feed \in [Keys -> Actual]
    /\ row \in [Keys -> Row]
    /\ snapshot \in [Keys -> Actual]
    /\ scan \in [Scanners -> ScanState]
    /\ other \in [Keys -> Actual] \union {None}
    /\ disturbed \in 0 .. Disturbances
    /\ tick \in TickState
    /\ checkpoint \in Completion \union {"none"}
    /\ \A k \in Keys : LET leased == row[k].status = "LEASED"
                       IN  leased = (row[k].owner # None) /\ leased = (row[k].lease # "none")

\* An occurrence is given up as NO_DATA only after its retry deadline, from
\* whatever copy a scan writes its row back.
GivesUpLate == \A k \in Keys : row[k].status = "NO_DATA" => phase[k] = "expired"

\* A row that a result left PARTIAL, which nobody claims again, is finished by
\* the scan that has the result, unless that scan dies.
PartialIsTransient ==
    \A k \in Keys : row[k].status = "PARTIAL" =>
        disturbed > 0 \/ \E s \in Scanners : k \in scan[s].residual \intersect scan[s].partial

Handled(k) == row[k].actual # 0 \/ row[k].status \in {"QUEUED", "DISABLED", "NO_DATA"}

\* Every released occurrence gets its actual, or is handed to AI, or ends as a
\* terminal gap, and stays so, whatever scans die, lose their leases, race for a
\* revision or overwrite each other's rows.  With temporary provider failures
\* the docs promise it still; the code does not keep it.
ReachesOutcome == \A k \in Keys : (phase[k] # "scheduled") ~> []Handled(k)

\* The same, but for the rows that lost their event to a temporary failure.
ReachesOutcomeOrLost ==
    \A k \in Keys : (phase[k] # "scheduled") ~> [](Handled(k) \/ ~ row[k].event)

\* COMPLETED is written only when the retries that were ahead when the tick
\* began have their actual.
CompletedIsEarned ==
    [][checkpoint' = "COMPLETED" /\ checkpoint # "COMPLETED"
        => \A k \in tick.open : row[k].actual # 0]_vars
=============================================================================
