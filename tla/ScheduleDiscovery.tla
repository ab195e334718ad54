-------------------------- MODULE ScheduleDiscovery --------------------------
(***************************************************************************)
(* How scheduled occurrences get into the event calendar.  A ledger says   *)
(* of each coverage target (a provider and its scope) and calendar date    *)
(* whether the date was proven complete, and when it is looked at again.   *)
(* A seed takes the persistent lease, asks the providers for the dates     *)
(* that are due, records the occurrences one by one and then the dates one *)
(* by one, and publishes a snapshot whose calendar unites what the         *)
(* database has with what the calendar had.  An occurrence that a complete *)
(* answer leaves out is kept, marked as an unconfirmed removal.            *)
(*                                                                         *)
(* save_next raises when another snapshot came since it read the revision: *)
(* a publication ends every preflight that is under way.                   *)
(***************************************************************************)
EXTENDS Naturals, FiniteSets

CONSTANTS
    Targets,      \* coverage targets
    Days,         \* the dates of the three week window
    Events,       \* occurrences
    CellOf,       \* the target that lists an occurrence, and its date
    Seeders,      \* processes with a catch-up loop
    MaxEdition,   \* bound: times the source of an occurrence changes
    None,
    Disturbances  \* bound: withdrawals, failed calls, seeds that die or outlive
                  \* their lease, snapshots of other publishers

Cells == Targets \X Days

ASSUME CellAssumption == CellOf \in [Events -> Cells] /\ IsFiniteSet(Events)
ASSUME SeederAssumption == None \notin Seeders
ASSUME EditionAssumption == MaxEdition \in Nat \ {0} /\ Disturbances \in Nat

VARIABLES
    source,    \* what the providers list now, in rows that are accepted, and the edition of
               \* each occurrence
    history,   \* economic_events_history: the edition that is recorded, 0 for none
    coverage,  \* event_calendar_coverage
    calendar,  \* event_calendar of the latest components
    lifecycle, \* occurrences with a row of datum_lifecycle_items
    lease,     \* provider_state 'provider_first_schedule_catchup'
    seed,      \* _seed_canonical_schedule_gaps of each process
    preflight, \* publishers whose next revision is still free
    other,     \* the calendar another publisher has read
    disturbed

discoveryVars ==
    <<source, history, coverage, calendar, lifecycle, lease, seed, preflight, other, disturbed>>

Editions == 0 .. MaxEdition
Nothing == [e \in Events |-> 0]

\* listed is history: what the source listed when the date was proven.
CoverageRow == [status : {"UNKNOWN", "PARTIAL", "PROVIDER_UNAVAILABLE", "VERIFIED"},
                due    : BOOLEAN,
                listed : SUBSET Events]

\* removed: UNCONFIRMED_REMOVAL.
Calendar == [Events -> [edition : Editions, removed : BOOLEAN]]

SeedState == [pc       : {"idle", "leased", "asking", "unavailable", "writing",
                          "reading", "preparing", "saving", "closing"},
              ask      : SUBSET Cells,       \* due dates that are left to do
              asked    : SUBSET Cells,       \* those the providers were asked about
              failed   : BOOLEAN,
              found    : [Events -> Editions],
              left     : SUBSET Events,      \* found and not yet written
              fresh    : SUBSET Events,      \* found and without a lifecycle row
              proven   : SUBSET Cells,
              view     : Calendar,           \* what is going to be published
              backoff  : BOOLEAN,            \* the seed ends with a retry time
              outlived : BOOLEAN]            \* history: its lease lapsed under it

Unseen == [e \in Events |-> [edition |-> 0, removed |-> FALSE]]
IdleSeed == [pc |-> "idle", ask |-> {}, asked |-> {}, failed |-> FALSE, found |-> Nothing,
             left |-> {}, fresh |-> {}, proven |-> {}, view |-> Unseen, backoff |-> FALSE,
             outlived |-> FALSE]

\* What is left of a seed that is done, or failed.
Closing(s, backoff) ==
    [IdleSeed EXCEPT !.pc = "closing", !.backoff = backoff, !.outlived = seed[s].outlived]

Disturb == disturbed < Disturbances /\ disturbed' = disturbed + 1

DiscoveryInit ==
    /\ source = [listed |-> {}, edition |-> Nothing]
    /\ history = Nothing
    /\ coverage = [c \in Cells |-> [status |-> "UNKNOWN", due |-> TRUE, listed |-> {}]]
    /\ calendar = Unseen
    /\ lifecycle = {}
    /\ lease = [owner |-> None, live |-> FALSE, backoff |-> FALSE]
    /\ seed = [s \in Seeders |-> IdleSeed]
    /\ preflight = {}
    /\ other = None
    /\ disturbed = 0

-----------------------------------------------------------------------------
(* The ledger *)

\* missing_dates: unknown dates, and those whose retry, validity or revision check
\* has come.
Due == {c \in Cells : coverage[c].due}

\* Dates that every target has proven.
Authoritative == {d \in Days : \A t \in Targets : coverage[<<t, d>>].status = "VERIFIED"}

\* What the providers list on these dates is added to what was found.
Listing(found, cells) ==
    [e \in Events |-> IF CellOf[e] \in cells /\ e \in source.listed THEN source.edition[e] ELSE found[e]]

Unavailable == [status |-> "PROVIDER_UNAVAILABLE", due |-> FALSE, listed |-> {}]

\* record_day with the answer: complete proof or not.
Recorded(c, found, proven) ==
    [status |-> IF c \in proven THEN "VERIFIED" ELSE "PARTIAL", due |-> FALSE,
     listed |-> {e \in Events : CellOf[e] = c /\ found[e] # 0}]

-----------------------------------------------------------------------------
(* A seed *)

\* Mutant of Free: the lease of a dead seed is never taken over.
FreeHeld(l) == ~ l.backoff /\ l.owner = None

\* The lease can be had: no retry time ahead, no live owner.
Free(l) == ~ l.backoff /\ (l.owner = None \/ ~ l.live)

\* _canonical_schedule_has_due_dates, then _acquire_schedule_seed_lease.  Without a date that
\* is due, the same code runs without the lease, at the same instant: it asks nobody, finds
\* nothing and returns before it would publish, and so it is no step.
SeedStart(s) ==
    /\ seed[s].pc = "idle"
    /\ Due # {}
    /\ Free(lease)
    /\ lease' = [owner |-> s, live |-> TRUE, backoff |-> FALSE]
    /\ seed' = [seed EXCEPT ![s] = [IdleSeed EXCEPT !.pc = "leased"]]
    /\ UNCHANGED <<source, history, coverage, calendar, lifecycle, preflight, other, disturbed>>

\* The dates that are due now; none if somebody else did them meanwhile.
SeedLook(s) ==
    /\ seed[s].pc = "leased"
    /\ seed' = [seed EXCEPT ![s] = IF Due = {} THEN Closing(s, FALSE)
                                   ELSE [seed[s] EXCEPT !.pc = "asking", !.ask = Due, !.asked = Due]]
    /\ UNCHANGED <<source, history, coverage, calendar, lifecycle, lease, preflight, other, disturbed>>

\* One provider is asked about its due dates: it answers, with a complete proof for
\* some of them, or fails.  A row that is rejected (quarantined) is not found, and takes the
\* proof from its date.
AskTarget(s) ==
    /\ seed[s].pc = "asking"
    /\ \E t \in Targets :
         LET cells == {c \in seed[s].ask : c[1] = t}
         IN  /\ cells # {}
             /\ \/ /\ \E proven \in SUBSET cells :
                        seed' = [seed EXCEPT ![s] =
                                   [seed[s] EXCEPT !.ask = @ \ cells, !.proven = @ \union proven,
                                             !.found = Listing(@, cells)]]
                   /\ UNCHANGED disturbed
                \/ /\ Disturb
                   /\ seed' = [seed EXCEPT ![s] = [seed[s] EXCEPT !.ask = @ \ cells, !.failed = TRUE]]
    /\ UNCHANGED <<source, history, coverage, calendar, lifecycle, lease, preflight, other>>

Found(s) == {e \in Events : seed[s].found[e] # 0}

\* With a failure and no row at all every date that was asked is unavailable.
AskedAll(s) ==
    /\ seed[s].pc = "asking"
    /\ seed[s].ask = {}
    /\ seed' = [seed EXCEPT ![s] =
                  IF seed[s].failed /\ Found(s) = {}
                  THEN [seed[s] EXCEPT !.pc = "unavailable", !.ask = seed[s].asked]
                  ELSE [seed[s] EXCEPT !.pc = "writing", !.ask = seed[s].asked,
                                          !.left = Found(s), !.fresh = Found(s) \ lifecycle]]
    /\ UNCHANGED <<source, history, coverage, calendar, lifecycle, lease, preflight, other, disturbed>>

\* record_day of one date.
RecordUnavailable(s) ==
    /\ seed[s].pc = "unavailable"
    /\ \E c \in seed[s].ask :
         /\ coverage' = [coverage EXCEPT ![c] = Unavailable]
         /\ seed' = [seed EXCEPT ![s] = IF seed[s].ask = {c} THEN Closing(s, TRUE)
                                                           ELSE [seed[s] EXCEPT !.ask = @ \ {c}]]
    /\ UNCHANGED <<source, history, calendar, lifecycle, lease, preflight, other, disturbed>>

\* upsert_economic_event of one occurrence: the last writer of its schedule.
WriteEvent(s) ==
    /\ seed[s].pc = "writing"
    /\ \E e \in seed[s].left :
         /\ history' = [history EXCEPT ![e] = seed[s].found[e]]
         /\ seed' = [seed EXCEPT ![s].left = @ \ {e}]
    /\ UNCHANGED <<source, coverage, calendar, lifecycle, lease, preflight, other, disturbed>>

\* Mutant of Written: the dates do not wait for the last occurrence.
WrittenOnce(s) == Cardinality(seed[s].left) <= 1

\* The dates come after the occurrences.
Written(s) == seed[s].left = {}

\* record_day of one date.
RecordDay(s) ==
    /\ seed[s].pc = "writing"
    /\ Written(s)
    /\ \E c \in seed[s].ask :
         /\ coverage' = [coverage EXCEPT ![c] = Recorded(c, seed[s].found, seed[s].proven)]
         /\ seed' = [seed EXCEPT ![s] = [seed[s] EXCEPT !.ask = @ \ {c},
                                                  !.pc = IF seed[s].ask = {c} THEN "reading" ELSE @]]
    /\ UNCHANGED <<source, history, calendar, lifecycle, lease, preflight, other, disturbed>>

\* Occurrences whose date is proven and that this seed did not find.
NotListed(s) == {e \in Events : CellOf[e][2] \in Authoritative /\ e \notin Found(s)}

\* The calendar of the next snapshot: the recorded occurrences over those it has,
\* and a mark on those that were not listed.
Discovered(s) ==
    [e \in Events |->
       LET known == IF history[e] # 0 THEN [edition |-> history[e], removed |-> FALSE] ELSE calendar[e]
       IN  IF known.edition # 0 /\ e \in NotListed(s) THEN [known EXCEPT !.removed = TRUE] ELSE known]

\* A marked occurrence loses its mark first: that alone is a change.
Changed(s) == \E e \in Events : \/ Discovered(s)[e] # calendar[e]
                                \/ history[e] # 0 /\ calendar[e].removed

\* _rematerialize_schedule_discovery reads the database ...
Rematerialize(s) ==
    /\ seed[s].pc = "reading"
    /\ seed' = [seed EXCEPT ![s] =
                  IF Changed(s) \/ seed[s].fresh # {}
                  THEN [IdleSeed EXCEPT !.pc = "preparing", !.asked = seed[s].asked,
                          !.view = Discovered(s), !.outlived = seed[s].outlived]
                  ELSE Closing(s, FALSE)]
    /\ UNCHANGED <<source, history, coverage, calendar, lifecycle, lease, preflight, other, disturbed>>

\* ... and if there is something to save, save_next reads the next revision.
SeedPreflight(s) ==
    /\ seed[s].pc = "preparing"
    /\ seed' = [seed EXCEPT ![s].pc = "saving"]
    /\ preflight' = preflight \union {s}
    /\ UNCHANGED <<source, history, coverage, calendar, lifecycle, lease, other, disturbed>>

\* The transaction of save_next: the calendar, and a row for each of its occurrences.
Publish(view) ==
    /\ calendar' = view
    /\ lifecycle' = lifecycle \union {e \in Events : view[e].edition # 0}
    /\ preflight' = {}

SeedSave(s) ==
    /\ seed[s].pc = "saving"
    /\ seed' = [seed EXCEPT ![s] = Closing(s, s \notin preflight)]
    /\ IF s \in preflight THEN Publish(seed[s].view)
                         ELSE UNCHANGED <<calendar, lifecycle, preflight>>
    /\ UNCHANGED <<source, history, coverage, lease, other, disturbed>>

\* Mutant of Closed: whoever owns the lease now loses it.
ClosedUnfenced(s) == [owner |-> None, live |-> FALSE, backoff |-> seed[s].backoff]

\* _complete_schedule_seed_lease: only the owner's.
Closed(s) ==
    IF lease.owner = s THEN [owner |-> None, live |-> FALSE, backoff |-> seed[s].backoff] ELSE lease

SeedClose(s) ==
    /\ seed[s].pc = "closing"
    /\ lease' = Closed(s)
    /\ seed' = [seed EXCEPT ![s] = IdleSeed]
    /\ UNCHANGED <<source, history, coverage, calendar, lifecycle, preflight, other, disturbed>>

\* An exception of the seed closes it with a retry time.
SeedFails(s) ==
    /\ seed[s].pc \notin {"idle", "closing"}
    /\ Disturb
    /\ seed' = [seed EXCEPT ![s] = Closing(s, TRUE)]
    /\ preflight' = preflight \ {s}
    /\ UNCHANGED <<source, history, coverage, calendar, lifecycle, lease, other>>

SeedStep(s) ==
    \/ SeedLook(s) \/ AskTarget(s) \/ AskedAll(s) \/ RecordUnavailable(s) \/ WriteEvent(s)
    \/ RecordDay(s) \/ Rematerialize(s) \/ SeedPreflight(s)
    \/ SeedSave(s) \/ SeedClose(s)

-----------------------------------------------------------------------------
(* Providers, clock, failures and other publishers *)

\* An occurrence is announced or revised, ...
Revise(e) ==
    /\ source.edition[e] < MaxEdition
    /\ source' = [listed |-> source.listed \union {e}, edition |-> [source.edition EXCEPT ![e] = @ + 1]]
    /\ UNCHANGED <<history, coverage, calendar, lifecycle, lease, seed, preflight, other, disturbed>>

\* ... or left out.
Withdraw(e) ==
    /\ e \in source.listed
    /\ Disturb
    /\ source' = [source EXCEPT !.listed = @ \ {e}]
    /\ UNCHANGED <<history, coverage, calendar, lifecycle, lease, seed, preflight, other>>

FallDue(c) ==
    /\ ~ coverage[c].due
    /\ coverage' = [coverage EXCEPT ![c].due = TRUE]
    /\ UNCHANGED <<source, history, calendar, lifecycle, lease, seed, preflight, other, disturbed>>

BackoffEnds ==
    /\ lease.backoff
    /\ lease' = [lease EXCEPT !.backoff = FALSE]
    /\ UNCHANGED <<source, history, coverage, calendar, lifecycle, seed, preflight, other, disturbed>>

\* The lease of a dead seed, or of one that takes longer than five minutes.
LeaseLapses ==
    /\ lease.live
    /\ IF seed[lease.owner].pc = "idle" THEN UNCHANGED <<seed, disturbed>>
       ELSE Disturb /\ seed' = [seed EXCEPT ![lease.owner].outlived = TRUE]
    /\ lease' = [lease EXCEPT !.live = FALSE]
    /\ UNCHANGED <<source, history, coverage, calendar, lifecycle, preflight, other>>

SeedDies(s) ==
    /\ seed[s].pc # "idle"
    /\ Disturb
    /\ seed' = [seed EXCEPT ![s] = IdleSeed]
    /\ preflight' = preflight \ {s}
    /\ UNCHANGED <<source, history, coverage, calendar, lifecycle, lease, other>>

\* The refresh worker or another pipeline reads the components ...
OtherRead ==
    /\ other = None
    /\ Disturb
    /\ other' = calendar
    /\ UNCHANGED <<source, history, coverage, calendar, lifecycle, lease, seed, preflight>>

\* ... and publishes that calendar later.
OtherSave ==
    /\ other # None
    /\ Publish(other)
    /\ other' = None
    /\ UNCHANGED <<source, history, coverage, lease, seed, disturbed>>
=============================================================================
