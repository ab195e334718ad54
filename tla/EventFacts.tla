----------------------------- MODULE EventFacts -----------------------------
(***************************************************************************)
(* One scheduled release: its row in economic_events_history, the facts    *)
(* kept about it in market_facts, and everybody who writes them: refreshes *)
(* and seeds that upsert the event they have read or fetched, research     *)
(* workers, forced refreshes, and the audit that precedes a snapshot.      *)
(* Every transaction opens BEGIN IMMEDIATE; what an actor holds between    *)
(* two of them may be old.                                                 *)
(***************************************************************************)
EXTENDS Naturals

CONSTANTS
    None,
    Times,       \* when a release may be scheduled; a date without a time is None
    Values,      \* actual values, official or reported by a calendar aggregator
    Refreshers,  \* calls that upsert the event, or audit it
    Workers,     \* research worker threads
    SameKey,     \* is the occurrence id a force files under the row's canonical key?
    MaxRounds    \* bound: how often anybody starts anything

ASSUME TimesAssumption == Times \subseteq Nat /\ None \notin Times
ASSUME ValuesAssumption == None \notin Values
ASSUME KeyAssumption == SameKey \in BOOLEAN
ASSUME RoundsAssumption == MaxRounds \in Nat

VARIABLES
    now,       \* the clock, as far as it passes a release time
    row,       \* economic_events_history
    fact,      \* market_facts: of official answers, of forces, of research
    pass,      \* what a refresher holds
    job,       \* what a worker holds
    force,     \* the reconciliation a force has prepared
    rounds

vars == <<now, row, fact, pass, job, force, rounds>>

Maybe == Values \union {None}
Statuses == {"PRE_RELEASE", "AWAITING_ACTUAL", "RELEASED", "ACTUAL_UNAVAILABLE", "QUARANTINED"}
Origins == {"official", "forced", "research"}

\* at: release_at; official: actual_source is set; surprise: the actual it was computed from;
\* hidden: temporal_audit_status, untrusted: source_audit_status is QUARANTINED.
Row == [at : Times \union {None}, actual : Maybe, official : BOOLEAN, surprise : Maybe,
        status : Statuses, hidden : BOOLEAN, untrusted : BOOLEAN]
Fact == [actual : Maybe, hidden : BOOLEAN]
Payload == [at : Times \union {None}, actual : Maybe, accepted : BOOLEAN, trusted : BOOLEAN]
Pass == {[kind |-> "idle"], [kind |-> "audit"]}
          \union [kind : {"upsert"}, payload : Payload]
Job == {[kind |-> "idle"], [kind |-> "field"], [kind |-> "stored"]}
         \union [kind : {"actual"}, actual : Values] \union [kind : {"restored"}, actual : Maybe]
Reconciliation == {[kind |-> "idle"]} \union [kind : {"prepared"}, actual : Maybe]

\* A row or fact that does not exist is None, which is no record.
ASSUME NoneAssumption == None \notin Row \union Fact

Idle == [kind |-> "idle"]

Init ==
    /\ now \in {0} \union Times
    /\ row = None
    /\ fact = [o \in Origins |-> None]
    /\ pass = [r \in Refreshers |-> Idle]
    /\ job = [w \in Workers |-> Idle]
    /\ force = Idle
    /\ rounds = 0

-----------------------------------------------------------------------------
(* Reading *)

\* The filter of the writers that answer for an official source.
Writable == row # None /\ ~ row.hidden /\ ~ row.untrusted

\* The filter of every reader.
Visible == Writable /\ row.status # "QUARANTINED"

\* An event without a release time is not released.
Past(t) == t # None /\ t <= now

\* What economic_event_payloads returns: the status is computed again on every read.
Shown == IF ~ Visible THEN "HIDDEN"
         ELSE IF ~ Past(row.at) THEN "PRE_RELEASE"
         ELSE IF row.actual = None THEN "AWAITING_ACTUAL"
         ELSE "RELEASED"

-----------------------------------------------------------------------------
(* upsert_economic_event *)

\* temporal_event_state: an accepted event that is not released has no actual yet.
Reported(p) == IF p.accepted /\ ~ Past(p.at) THEN None ELSE p.actual

StatusOf(p) == IF ~ p.accepted THEN "QUARANTINED"
               ELSE IF ~ Past(p.at) THEN "PRE_RELEASE"
               ELSE IF p.actual = None THEN "AWAITING_ACTUAL" ELSE "RELEASED"

Created(p) == [at |-> p.at, actual |-> Reported(p), official |-> FALSE, surprise |-> None,
               status |-> StatusOf(p), hidden |-> ~ p.accepted, untrusted |-> ~ p.trusted]

\* COALESCE(excluded.x, x)
Kept(new, old) == IF new = None THEN old ELSE new

Sticky == {"RELEASED", "ACTUAL_UNAVAILABLE", "QUARANTINED"}

\* Mutant of Merged: the verdict on this payload replaces the stored one.
MergedAnew(old, p) ==
    [old EXCEPT !.at = p.at,
                !.actual = Kept(Reported(p), old.actual),
                !.status = IF old.status \in Sticky THEN old.status ELSE StatusOf(p),
                !.hidden = ~ p.accepted,
                !.untrusted = old.untrusted \/ ~ p.trusted]

\* Mutant of Merged: the surprise is computed from whatever actual arrives.
MergedSurprise(old, p) ==
    [old EXCEPT !.at = p.at,
                !.actual = Kept(Reported(p), old.actual),
                !.surprise = Kept(Reported(p), old.surprise),
                !.hidden = old.hidden \/ ~ p.accepted,
                !.untrusted = old.untrusted \/ ~ p.trusted]

\* The payload and the row it meets: the time is the payload's, a terminal status and a
\* quarantine stay, and actual_source and the surprise are not columns of this statement.
Merged(old, p) ==
    [old EXCEPT !.at = p.at,
                !.actual = Kept(Reported(p), old.actual),
                !.status = IF old.hidden THEN "QUARANTINED"
                           ELSE IF old.status \in Sticky THEN old.status
                           ELSE StatusOf(p),
                !.hidden = old.hidden \/ ~ p.accepted,
                !.untrusted = old.untrusted \/ ~ p.trusted]

\* The facts that carry the canonical key of the row.
Filed == {"official", "research"} \union (IF SameKey THEN {"forced"} ELSE {})

Quarantined(f) == IF f = None THEN None ELSE [f EXCEPT !.hidden = TRUE]

QuarantinedFacts == [o \in Origins |-> IF o \in Filed THEN Quarantined(fact[o]) ELSE fact[o]]

\* A payload that changes nothing is not written; whether details that are not
\* modelled here differ is open.
Upsert(r) ==
    /\ pass[r].kind = "upsert"
    /\ LET p == pass[r].payload
           next == IF row = None THEN Created(p) ELSE Merged(row, p)
       IN  /\ row' = next
           /\ \E written \in BOOLEAN :
                /\ row' # row => written
                /\ fact' = IF written /\ next.hidden THEN QuarantinedFacts ELSE fact
    /\ pass' = [pass EXCEPT ![r] = Idle]
    /\ UNCHANGED <<now, job, force, rounds>>

-----------------------------------------------------------------------------
(* Refreshes and audits: read, then write *)

Start == rounds < MaxRounds /\ rounds' = rounds + 1

\* A provider lists the release, at the time it has or on a date only; calendars that are
\* seeded from carry no actual.
Fetch(r) ==
    /\ pass[r] = Idle
    /\ Start
    /\ \E at \in Times \union {None}, accepted, trusted \in BOOLEAN :
         pass' = [pass EXCEPT ![r] =
           [kind |-> "upsert",
            payload |-> [at |-> at, actual |-> None, accepted |-> accepted, trusted |-> trusted]]]
    /\ UNCHANGED <<now, row, fact, job, force>>

\* load_from_history: the time is the row's, and the actual if it is shown, else that of the enrichment, where
\* secondary calendars leave what they report.
Load(r) ==
    /\ pass[r] = Idle
    /\ Start
    /\ Visible
    /\ \E secondary \in Maybe, trusted \in BOOLEAN :
         pass' = [pass EXCEPT ![r] =
           [kind |-> "upsert",
            payload |-> [at |-> row.at,
                         actual |-> IF Shown = "RELEASED" THEN row.actual ELSE secondary,
                         accepted |-> TRUE, trusted |-> trusted]]]
    /\ UNCHANGED <<now, row, fact, job, force>>

\* The materializer reads the records it is about to audit, ...
ReadRecords(r) ==
    /\ pass[r] = Idle
    /\ Start
    /\ Visible
    /\ pass' = [pass EXCEPT ![r] = [kind |-> "audit"]]
    /\ UNCHANGED <<now, row, fact, job, force>>

\* ... and audit_economic_events hides the row of a record it rejects, not its facts.
Audit(r) ==
    /\ pass[r].kind = "audit"
    /\ \E rejected \in BOOLEAN :
         row' = IF rejected THEN [row EXCEPT !.status = "QUARANTINED", !.hidden = TRUE] ELSE row
    /\ pass' = [pass EXCEPT ![r] = Idle]
    /\ UNCHANGED <<now, fact, job, force, rounds>>

-----------------------------------------------------------------------------
(* Research workers *)

\* The semantic comparison with the consensus may fail: then there is no surprise.
Surprises(v) == {None, v}

Official(v, s) == [row EXCEPT !.actual = v, !.official = TRUE, !.surprise = s,
                              !.status = "RELEASED"]

\* A worker compares an actual with the release time of its request, if that has one, and
\* not with the row's.
Answer(w) ==
    /\ job[w] = Idle
    /\ Start
    /\ \/ \E v \in Values : job' = [job EXCEPT ![w] = [kind |-> "actual", actual |-> v]]
       \/ job' = [job EXCEPT ![w] = [kind |-> "field"]]
    /\ UNCHANGED <<now, row, fact, pass, force>>

\* apply_official_event_actual: row and fact in one transaction, or an error.
ApplyActual(w) ==
    /\ job[w].kind = "actual"
    /\ LET v == job[w].actual
       IN  IF Writable
           THEN /\ \E s \in Surprises(v) : row' = Official(v, s)
                /\ fact' = [fact EXCEPT !["official"] =
                     [actual |-> v, hidden |-> @ # None /\ @.hidden]]
           ELSE UNCHANGED <<row, fact>>
    /\ job' = [job EXCEPT ![w] = Idle]
    /\ UNCHANGED <<now, pass, force, rounds>>

\* apply_event_research_field: a forecast, consensus or previous value on the row, ...
ApplyField(w) ==
    /\ job[w].kind = "field"
    /\ job' = [job EXCEPT ![w] = IF Writable THEN [kind |-> "stored"] ELSE Idle]
    /\ UNCHANGED <<now, row, fact, pass, force, rounds>>

\* ... the row read back, whoever has written it since: another value is an error, ...
ReadBack(w) ==
    /\ job[w].kind = "stored"
    /\ \E same \in BOOLEAN :
         job' = [job EXCEPT ![w] =
                   IF same THEN [kind |-> "restored", actual |-> row.actual] ELSE Idle]
    /\ UNCHANGED <<now, row, fact, pass, force, rounds>>

\* ... and a fact with all its values.
StoreFact(w) ==
    /\ job[w].kind = "restored"
    /\ fact' = [fact EXCEPT !["research"] =
         [actual |-> job[w].actual, hidden |-> @ # None /\ @.hidden]]
    /\ job' = [job EXCEPT ![w] = Idle]
    /\ UNCHANGED <<now, row, pass, force, rounds>>

\* mark_event_actual_unavailable, when the official feed had nothing in time.
MarkUnavailable ==
    /\ Start
    /\ row' = IF Writable /\ row.actual = None
              THEN [row EXCEPT !.status = "ACTUAL_UNAVAILABLE"] ELSE row
    /\ UNCHANGED <<now, fact, pass, job, force>>

-----------------------------------------------------------------------------
(* Forced refreshes *)

\* prepare: an event of the contract that is released and lacks its actual is resolved
\* with its official source, which may fail.
Prepare ==
    /\ force = Idle
    /\ Start
    /\ Shown = "AWAITING_ACTUAL"
    /\ \E v \in Maybe : force' = [kind |-> "prepared", actual |-> v]
    /\ UNCHANGED <<now, row, fact, pass, job>>

\* Mutant of Unresolved: what was not found is cleared.
UnresolvedCleared == [row EXCEPT !.status = "AWAITING_ACTUAL", !.actual = None]

Unresolved == [row EXCEPT !.status = "AWAITING_ACTUAL"]

\* persist_actual_reconciliation_in_transaction, in the transaction of the snapshot,
\* which is rolled back if the event is hidden by then.
Reconcile ==
    /\ force.kind = "prepared"
    /\ LET v == force.actual
       IN  IF ~ Writable THEN UNCHANGED <<row, fact>>
           ELSE IF v = None THEN row' = Unresolved /\ UNCHANGED fact
           ELSE /\ \E s \in Surprises(v) : row' = Official(v, s)
                /\ fact' = [fact EXCEPT !["forced"] =
                     [actual |-> v, hidden |-> @ # None /\ @.hidden]]
    /\ force' = Idle
    /\ UNCHANGED <<now, pass, job, rounds>>

\* The snapshot is not saved.
Abandon ==
    /\ force.kind = "prepared"
    /\ force' = Idle
    /\ UNCHANGED <<now, row, fact, pass, job, rounds>>

-----------------------------------------------------------------------------
\* Time passes.
Release ==
    /\ \E t \in Times : now < t /\ now' = t
    /\ UNCHANGED <<row, fact, pass, job, force, rounds>>

Next ==
    \/ Release \/ MarkUnavailable \/ Prepare \/ Reconcile \/ Abandon
    \/ \E r \in Refreshers : Fetch(r) \/ Load(r) \/ Upsert(r) \/ ReadRecords(r) \/ Audit(r)
    \/ \E w \in Workers : Answer(w) \/ ApplyActual(w) \/ ApplyField(w) \/ ReadBack(w) \/ StoreFact(w)

Spec == Init /\ [][Next]_vars

-----------------------------------------------------------------------------
(* Properties *)

\* Types of the row, of the facts, and of what everybody holds.
EventTypeOK ==
    /\ now \in {0} \union Times
    /\ row \in Row \union {None}
    /\ fact \in [Origins -> Fact \union {None}]
    /\ pass \in [Refreshers -> Pass]
    /\ job \in [Workers -> Job]
    /\ force \in Reconciliation
    /\ rounds \in 0 .. MaxRounds

\* An actual is never lost, whatever was read before it came and is written after: an upsert
\* without an actual, a force that found nothing, a feed given up.  Only a payload with
\* another release time, later or none, shows a released event as open again, and the row
\* keeps the actual for when that time has passed; only a quarantine takes it from readers.
ReleasedReopensByTimeOnly ==
    [][Shown = "RELEASED" =>
         /\ row'.actual # None
         /\ Shown' \notin {"RELEASED", "HIDDEN"} => row'.at # row.at /\ ~ Past(row.at)']_vars

\* The strict form fails: time_utc and release_at are those of the last payload, and a
\* refresh with a stale time, or with a date only, opens the event again.
ReleasedStaysReleased ==
    [][Shown = "RELEASED" => Shown' \in {"RELEASED", "HIDDEN"}]_vars

\* A quarantined event stays quarantined: none of the writers, who have judged or read it
\* at some other time, makes it visible again.
QuarantineHolds ==
    [][row # None /\ ~ Visible => row' # None /\ ~ Visible']_vars

\* Readers of the row and of the facts agree on what is official: a row with a source for
\* its actual has a fact of an official answer or of a force, and its surprise was computed
\* from the actual of one of them, although aggregators write the same row.
SurpriseIsOfficial ==
    row # None =>
      /\ row.official => \E o \in {"official", "forced"} : fact[o] # None
      /\ row.surprise # None =>
           \E o \in {"official", "forced"} : fact[o] # None /\ fact[o].actual = row.surprise

\* README.md:134: discordant candidates never overwrite an official actual.
OfficialActualStands ==
    row # None /\ row.official =>
      \E o \in {"official", "forced"} : fact[o] # None /\ fact[o].actual = row.actual
=============================================================================
