--------------------------- MODULE DatumLifecycle ---------------------------
(***************************************************************************)
(* The lifecycle rows of scheduled occurrences (macro_actual, fomc): a row *)
(* of datum_lifecycle_items says when an occurrence is looked at again and *)
(* what is known of it.  Scanners lease due rows, ask the deterministic    *)
(* resolver for the published actual, and store it, in a new snapshot of   *)
(* the market context or, when no consumer would see a change, in the row  *)
(* alone.  Every snapshot projects all its occurrences back onto the rows. *)
(*                                                                         *)
(* A transaction is a step.  Times are only told apart by whether they     *)
(* have passed; "new" marks one that passed after the running catch-up     *)
(* tick had read its clock (module CalendarCatchup).                       *)
(***************************************************************************)
EXTENDS Naturals, FiniteSets

CONSTANTS
    Keys,         \* occurrences, by entity_key
    Scanners,     \* owners of scans: scheduled scans, and the catch-up
    CatchUp,      \* the owner that scans without AI and coalesces its results
    AgentOn,      \* occurrences whose research agent is enabled
    Gaps,         \* occurrences whose provider leaves requested fields open
    Temporary,    \* whether providers may fail temporarily
    MaxFeed,      \* bound: actuals, the first and its revisions, of an occurrence
    None,
    Disturbances  \* bound: crashes, lapses of held leases, temporary failures,
                  \* and snapshots of other publishers

ASSUME KeysAssumption == IsFiniteSet(Keys) /\ AgentOn \subseteq Keys /\ Gaps \subseteq Keys
ASSUME ScannerAssumption == CatchUp \in Scanners /\ None \notin Scanners \union Keys
ASSUME BoundsAssumption == /\ MaxFeed \in Nat \ {0} /\ Disturbances \in Nat
                           /\ Temporary \in BOOLEAN

VARIABLES
    phase,     \* of each occurrence: scheduled, released, retry deadline passed
    feed,      \* the last actual its official provider has, 0 for none
    row,       \* datum_lifecycle_items
    snapshot,  \* the actual of each occurrence in the latest components
    scan,      \* scan_due_items of each owner
    other,     \* what another publisher of snapshots has read
    disturbed  \* disturbances so far

lifecycleVars == <<phase, feed, row, snapshot, scan, other, disturbed>>

-----------------------------------------------------------------------------
(* Rows *)

Actual == 0 .. MaxFeed
Times == {"null", "event", "later", "new", "due"}
Passed == {"new", "due"}

\* UNRESOLVED is IDLE with the reason of a retryable gap; event says whether
\* event_at and the occurrence's identity are still in the row.
Row == [status : {"READY", "LEASED", "BACKOFF", "COMPLETED", "PARTIAL", "QUEUED",
                  "IDLE", "UNRESOLVED", "DISABLED", "NO_DATA"},
        event  : BOOLEAN,
        actual : Actual,
        retry  : Times,                     \* next_retry_at
        refresh: Times,                     \* next_refresh_at
        owner  : Scanners \union {None},
        lease  : {"none", "live", "lapsed"}]

\* INSERT ... ON CONFLICT DO UPDATE: the whole row, and no lease survives it.
Written(status, event, actual, retry, refresh) ==
    [status |-> status, event |-> event, actual |-> actual, retry |-> retry,
     refresh |-> refresh, owner |-> None, lease |-> "none"]

\* An admitted official actual: nothing to refresh.
Stored(status, v) == Written(status, TRUE, v, "null", "null")

\* What a snapshot says of an occurrence: with no actual it waits for its release
\* or is due at once; with one it lasts for its time to live (aged: it is over).
Projected(k, v, aged) ==
    IF v = 0
    THEN IF phase[k] = "scheduled" THEN Written("IDLE", TRUE, 0, "null", "event")
                                   ELSE Written("READY", TRUE, 0, "new", "new")
    ELSE IF aged THEN Written("READY", TRUE, v, "null", "new")
                 ELSE Written("IDLE", TRUE, v, "null", "later")

\* COALESCE(next_retry_at, next_refresh_at)
NextAt(r) == IF r.retry # "null" THEN r.retry ELSE r.refresh

\* Mutant of DueBy: a lapsed lease is not taken over.
DueByHeld(r, passed) ==
    \/ r.status \in {"COMPLETED", "IDLE", "UNRESOLVED"} /\ NextAt(r) \in passed
    \/ r.status = "BACKOFF" /\ r.retry \in passed
    \/ r.status = "READY" /\ NextAt(r) \in passed \union {"null"}

\* The WHERE of claim_due and count_due, for the times that have passed.
DueBy(r, passed) ==
    \/ r.status \in {"COMPLETED", "IDLE", "UNRESOLVED"} /\ NextAt(r) \in passed
    \/ r.status = "BACKOFF" /\ r.retry \in passed
    \/ /\ r.status = "READY" \/ (r.status = "LEASED" /\ r.lease = "lapsed")
       /\ NextAt(r) \in passed \union {"null"}

Claimable == {k \in Keys : DueBy(row[k], Passed)}

-----------------------------------------------------------------------------
(* Scans *)

ScanPhases ==
    {"idle", "scanning", "missing", "failing", "projecting", "saving", "flushing", "finishing"}

ScanState == [pc      : ScanPhases,
              todo    : SUBSET Keys,          \* claimed and not yet resolved
              copy    : [Keys -> [event : BOOLEAN, actual : Actual]],  \* as claimed
              missed  : Keys \union {None},    \* without an answer, not yet written back
              resolved: [Keys -> Actual],     \* results on their way to a snapshot
              results : SUBSET Keys,          \* those that go into the next snapshot
              partial : SUBSET Keys,          \* finalised as PARTIAL
              residual: SUBSET Keys,          \* left to AI or to a terminal status
              spent   : SUBSET Keys,          \* those past the retry deadline
              seen    : [Keys -> Actual],     \* components that were read
              raced   : BOOLEAN]              \* a snapshot came since the preflight

Nothing == [k \in Keys |-> 0]
IdleScan == [pc |-> "idle", todo |-> {}, copy |-> [k \in Keys |-> [event |-> FALSE, actual |-> 0]],
             missed |-> None, resolved |-> Nothing, results |-> {}, partial |-> {}, residual |-> {},
             spent |-> {}, seen |-> Nothing, raced |-> FALSE]

Disturb == disturbed < Disturbances /\ disturbed' = disturbed + 1

LifecycleInit ==
    /\ phase = [k \in Keys |-> "scheduled"]
    /\ feed = Nothing
    /\ row = [k \in Keys |-> Written("IDLE", TRUE, 0, "null", "event")]
    /\ snapshot = Nothing
    /\ scan = [s \in Scanners |-> IdleScan]
    /\ other = None
    /\ disturbed = 0

\* claim_due leases as many due rows as the limit allows.  It orders them by
\* impact and date, which is data here: any choice of rows.
Claim(s, limit) ==
    /\ scan[s].pc = "idle"
    /\ \E due \in SUBSET Claimable :
         /\ due # {}
         /\ Cardinality(due) <= limit
         /\ due = Claimable \/ Cardinality(due) = limit
         /\ row' = [k \in Keys |-> IF k \in due THEN [row[k] EXCEPT !.status = "LEASED", !.owner = s,
                                                                    !.lease = "live"]
                                                ELSE row[k]]
         /\ scan' = [scan EXCEPT ![s] =
                       [IdleScan EXCEPT !.pc = "scanning", !.todo = due,
                          !.copy = [k \in Keys |-> IF k \in due
                                                   THEN [event |-> row[k].event, actual |-> row[k].actual]
                                                   ELSE IdleScan.copy[k]]]]
    /\ UNCHANGED <<phase, feed, snapshot, other, disturbed>>

\* Mutant of Upsert: the lease of the row survives the new status.
UpsertKeepsLease(k, r) ==
    row' = [row EXCEPT ![k] = [r EXCEPT !.owner = row[k].owner, !.lease = row[k].lease]]

\* upsert: whoever holds the row now.
Upsert(k, r) == row' = [row EXCEPT ![k] = r]

\* The resolver ran on the claimed copy of k and has the value v for it, which
\* waits for the end of the scan or is projected at once on the components.
Deliver(s, k, v, partial) ==
    /\ LET done == [scan[s] EXCEPT !.todo = @ \ {k}, !.copy[k] = IdleScan.copy[k], !.resolved[k] = v]
       IN  scan' = [scan EXCEPT ![s] =
                      IF s = CatchUp /\ ~ partial THEN done
                      ELSE [done EXCEPT !.pc = "projecting", !.results = {k}, !.seen = snapshot,
                              !.partial = IF partial THEN @ \union {k} ELSE @,
                              !.residual = IF partial THEN @ \union {k} ELSE @]]
    /\ UNCHANGED disturbed

\* The committed payload has an actual that is still fresh.
ResolveCommitted(s, k) ==
    /\ scan[s].copy[k].actual # 0
    /\ Deliver(s, k, scan[s].copy[k].actual, FALSE)

\* The official provider has an actual for the exact occurrence.
ResolveActual(s, k) ==
    /\ scan[s].copy[k].event
    /\ feed[k] # 0
    /\ Deliver(s, k, feed[k], k \in Gaps)

\* Mutant of Terminal: the first miss is final.
TerminalAtOnce(s, k) == scan[s].copy[k].event

\* The retry deadline of the occurrence, by the event_at that was claimed.
Terminal(s, k) == scan[s].copy[k].event /\ phase[k] = "expired"

\* The provider has nothing yet, or the copy no longer says which occurrence it
\* is.  Without AI the row is written back next, else it is a residual.
ResolveNothing(s, k) ==
    /\ ~ scan[s].copy[k].event \/ feed[k] = 0
    /\ scan' = [scan EXCEPT ![s] =
                  IF s = CatchUp
                  THEN [scan[s] EXCEPT !.todo = @ \ {k}, !.pc = "missing", !.missed = k]
                  ELSE [scan[s] EXCEPT !.todo = @ \ {k}, !.residual = @ \union {k},
                          !.spent = IF Terminal(s, k) THEN @ \union {k} ELSE @,
                          !.copy[k] = IdleScan.copy[k]]]
    /\ UNCHANGED disturbed

\* A timeout or a rate limit.
ResolveFails(s, k) ==
    /\ Temporary
    /\ Disturb
    /\ scan' = [scan EXCEPT ![s].todo = @ \ {k}, ![s].pc = "failing", ![s].missed = k]

Resolve(s) ==
    /\ scan[s].pc = "scanning"
    /\ \E k \in scan[s].todo :
         ResolveCommitted(s, k) \/ ResolveActual(s, k) \/ ResolveNothing(s, k) \/ ResolveFails(s, k)
    /\ UNCHANGED <<phase, feed, row, snapshot, other>>

\* After the answer the row is overwritten, whoever wrote it since: the claimed
\* copy to try again or as a terminal gap; after a failure a payload that is only
\* its reason, without the event.
WriteBack(s) ==
    /\ scan[s].pc \in {"missing", "failing"}
    /\ LET k == scan[s].missed
           copy == scan[s].copy[k]
       IN  /\ Upsert(k, IF scan[s].pc = "failing" THEN Written("BACKOFF", FALSE, 0, "later", "later")
                        ELSE Written(IF Terminal(s, k) THEN "NO_DATA" ELSE "BACKOFF",
                                     copy.event, copy.actual, "later", "later"))
           /\ scan' = [scan EXCEPT ![s] = [scan[s] EXCEPT !.pc = "scanning", !.missed = None,
                                              !.copy[k] = IdleScan.copy[k]]]
    /\ UNCHANGED <<phase, feed, snapshot, other, disturbed>>

\* All items are resolved: the batch is next, or what is left of the scan.
EndOfItems(s) ==
    /\ scan[s].pc = "scanning"
    /\ scan[s].todo = {}
    /\ LET batch == {k \in Keys : scan[s].resolved[k] # 0}
       IN  scan' = [scan EXCEPT ![s] =
                      IF batch # {}
                      THEN [scan[s] EXCEPT !.pc = "projecting", !.results = batch, !.seen = snapshot]
                      ELSE [scan[s] EXCEPT !.pc = "finishing"]]
    /\ UNCHANGED <<phase, feed, row, snapshot, other, disturbed>>

\* Whether the consumer's context changes decides between a snapshot and the row.
Project(s) ==
    /\ scan[s].pc = "projecting"
    /\ scan' = [scan EXCEPT ![s] =
                  IF \E k \in scan[s].results : scan[s].seen[k] # scan[s].resolved[k]
                  THEN [scan[s] EXCEPT !.pc = "saving", !.raced = FALSE]
                  ELSE [scan[s] EXCEPT !.pc = "flushing", !.seen = Nothing]]
    /\ UNCHANGED <<phase, feed, row, snapshot, other, disturbed>>

FinalStatus(s, k) == IF k \in scan[s].partial THEN "PARTIAL" ELSE "COMPLETED"

Delivered(state, done) ==
    [state EXCEPT !.pc = IF state.results \subseteq done THEN "scanning" ELSE @,
                  !.results = @ \ done,
                  !.seen = IF state.results \subseteq done THEN Nothing ELSE @,
                  !.raced = FALSE,
                  !.resolved = [k \in Keys |-> IF k \in done THEN 0 ELSE @[k]]]

\* No consumer sees a change: the rows alone, one by one.
Flush(s) ==
    /\ scan[s].pc = "flushing"
    /\ \E k \in scan[s].results :
         /\ Upsert(k, Stored(FinalStatus(s, k), scan[s].resolved[k]))
         /\ scan' = [scan EXCEPT ![s] = Delivered(@, {k})]
    /\ UNCHANGED <<phase, feed, snapshot, other, disturbed>>

\* What a snapshot with these actuals writes to the rows of all its occurrences.
ProjectRows(actuals) ==
    \E aged \in BOOLEAN : row' = [k \in Keys |-> Projected(k, actuals[k], aged)]

\* Every preflight that is under way has a revision that is taken now.
Outrun(state) == [s \in Scanners |-> [state[s] EXCEPT !.raced = (state[s].pc = "saving")]]

\* save_next: the components that were read, with the results, become the next
\* snapshot; the occurrences in it are projected on their rows, then the results
\* are written.  It raises when another snapshot came since its preflight, and
\* the scan ends there, with the leases it has.
Save(s) ==
    /\ scan[s].pc = "saving"
    /\ IF scan[s].raced
       THEN /\ scan' = [scan EXCEPT ![s] = IdleScan]
            /\ UNCHANGED <<row, snapshot>>
       ELSE LET results == scan[s].results
            IN  /\ snapshot' = [k \in Keys |-> IF k \in results THEN scan[s].resolved[k]
                                                                ELSE scan[s].seen[k]]
                /\ \E aged \in BOOLEAN :
                     row' = [k \in Keys |->
                               IF k \in results THEN Stored(FinalStatus(s, k), snapshot'[k])
                                                ELSE Projected(k, snapshot'[k], aged)]
                /\ scan' = Outrun([scan EXCEPT ![s] = Delivered(@, results)])
    /\ UNCHANGED <<phase, feed, other, disturbed>>

\* Where an occurrence ends that the resolver could not complete.
Residual(s, k) ==
    IF s # CatchUp /\ k \in AgentOn \ scan[s].spent THEN "QUEUED"
    ELSE IF k \in scan[s].spent THEN "NO_DATA"
    ELSE IF k \in AgentOn THEN "UNRESOLVED" ELSE "DISABLED"

\* Mutant of MayFinish: the partial row of the own result is not finished.
MayFinishLeased(s, k) == row[k].status = "LEASED" /\ row[k].owner = s

\* transition: only the holder of the lease; transition_finalized: a partial row.
MayFinish(s, k) ==
    \/ row[k].status = "LEASED" /\ row[k].owner = s
    \/ k \in scan[s].partial /\ row[k].status = "PARTIAL"

\* AI jobs are enqueued once, then the rows that are left change one by one.
Finish(s) ==
    /\ scan[s].pc = "finishing"
    /\ IF scan[s].residual = {}
       THEN scan' = [scan EXCEPT ![s] = IdleScan] /\ UNCHANGED row
       ELSE \E k \in scan[s].residual :
              /\ scan' = [scan EXCEPT ![s].residual = @ \ {k}]
              /\ IF MayFinish(s, k)
                 THEN Upsert(k, Written(Residual(s, k), row[k].event, row[k].actual, "null",
                                        IF Residual(s, k) = "QUEUED" THEN row[k].refresh ELSE "later"))
                 ELSE UNCHANGED row
    /\ UNCHANGED <<phase, feed, snapshot, other, disturbed>>

-----------------------------------------------------------------------------
(* Clock, providers, failures and other publishers *)

\* Times that have passed since.
Elapsed(r, from) == [r EXCEPT !.retry = IF @ = from THEN "new" ELSE @,
                              !.refresh = IF @ = from THEN "new" ELSE @]

Release(k) ==
    /\ phase[k] = "scheduled"
    /\ phase' = [phase EXCEPT ![k] = "released"]
    /\ row' = [row EXCEPT ![k] = Elapsed(@, "event")]
    /\ UNCHANGED <<feed, snapshot, scan, other, disturbed>>

\* The official feed has the first actual, or a revision of it.
Publish(k) ==
    /\ phase[k] # "scheduled"
    /\ feed[k] < MaxFeed
    /\ feed' = [feed EXCEPT ![k] = @ + 1]
    /\ UNCHANGED <<phase, row, snapshot, scan, other, disturbed>>

Deadline(k) ==
    /\ phase[k] = "released"
    /\ phase' = [phase EXCEPT ![k] = "expired"]
    /\ UNCHANGED <<feed, row, snapshot, scan, other, disturbed>>

FallDue(k) ==
    /\ "later" \in {row[k].retry, row[k].refresh}
    /\ row' = [row EXCEPT ![k] = Elapsed(@, "later")]
    /\ UNCHANGED <<phase, feed, snapshot, scan, other, disturbed>>

\* The scan s still has something to do with k.
Working(s, k) ==
    k \in scan[s].todo \union scan[s].residual \union {scan[s].missed} \/ scan[s].resolved[k] # 0

\* Nobody renews a lease: it outlives its scan, or a slow scan outlives it.
LeaseExpires(k) ==
    /\ row[k].lease = "live"
    /\ IF Working(row[k].owner, k) THEN Disturb ELSE UNCHANGED disturbed
    /\ row' = [row EXCEPT ![k].lease = "lapsed"]
    /\ UNCHANGED <<phase, feed, snapshot, scan, other>>

\* The process dies and starts again.
Crash ==
    /\ \E s \in Scanners : scan[s].pc # "idle"
    /\ Disturb
    /\ scan' = [s \in Scanners |-> IdleScan]
    /\ other' = None
    /\ UNCHANGED <<phase, feed, row, snapshot>>

\* A scan ends in an exception.
Abort(s) ==
    /\ scan[s].pc # "idle"
    /\ Disturb
    /\ scan' = [scan EXCEPT ![s] = IdleScan]
    /\ UNCHANGED <<phase, feed, row, snapshot, other>>

\* The refresh worker or the full pipeline reads the components ...
OtherRead ==
    /\ other = None
    /\ Disturb
    /\ other' = snapshot
    /\ UNCHANGED <<phase, feed, row, snapshot, scan>>

\* ... and publishes them later, with what it has acquired itself in between.
OtherSave ==
    /\ other # None
    /\ \E acquired \in SUBSET Keys :
         snapshot' = [k \in Keys |-> IF k \in acquired THEN feed[k] ELSE other[k]]
    /\ ProjectRows(snapshot')
    /\ scan' = Outrun(scan)
    /\ other' = None
    /\ UNCHANGED <<phase, feed, disturbed>>

World ==
    \/ \E k \in Keys : Release(k) \/ Publish(k) \/ Deadline(k) \/ FallDue(k) \/ LeaseExpires(k)
    \/ Crash \/ OtherRead \/ OtherSave

Step(s) == Resolve(s) \/ WriteBack(s) \/ EndOfItems(s) \/ Project(s) \/ Flush(s) \/ Save(s) \/ Finish(s)
=============================================================================
