-------------------------- MODULE ForcedGeneration --------------------------
(***************************************************************************)
(* A forced refresh of the market context next to the live seeds of        *)
(* ScheduleDiscovery.  One force at a time: it copies the database, seeds  *)
(* the copy, compares it with the live tables row by row, and publishes    *)
(* the rows that differ together with a snapshot, in one transaction.      *)
(***************************************************************************)
EXTENDS ScheduleDiscovery

CONSTANT Forces   \* requests with refresh=force

ASSUME ForceAssumption == None \notin Forces /\ Forces \intersect Seeders = {}

VARIABLES
    lock,   \* ForceGenerationLease: a thread lock and a file lock
    force   \* the request, its private copy and its plan

vars == <<discoveryVars, lock, force>>

Stage == [history : [Events -> Editions], coverage : [Cells -> CoverageRow],
          lease : [owner : Seeders \union {None}, live : BOOLEAN, backoff : BOOLEAN]]

\* A request without a copy has None in its place.
ASSUME StageAssumption == None \notin Stage

ForceState == [pc     : {"waiting", "copied", "seeded", "planned", "saving", "done"},
               stage  : Stage \union {None},
               events : SUBSET Events,     \* rows of the plan
               cells  : SUBSET Cells]

Waiting == [pc |-> "waiting", stage |-> None, events |-> {}, cells |-> {}]
Done == [Waiting EXCEPT !.pc = "done"]

ForceInit ==
    /\ DiscoveryInit
    /\ lock = None
    /\ force = [f \in Forces |-> Waiting]

-----------------------------------------------------------------------------
(* A force *)

\* Waiters queue for the lock, and copy the database when they have it.
ForceStart(f) ==
    /\ force[f].pc = "waiting"
    /\ lock = None
    /\ lock' = f
    /\ force' = [force EXCEPT ![f] = [Waiting EXCEPT !.pc = "copied",
                   !.stage = [history |-> history, coverage |-> coverage, lease |-> lease]]]
    /\ UNCHANGED discoveryVars

Released(f) == lock' = IF lock = f THEN None ELSE lock

\* The copy has the lease of a live seed: it never changes, and the force gives up.
ForceTimesOut(f) ==
    /\ force[f].pc = "copied"
    /\ LET stage == force[f].stage
       IN  /\ \E c \in Cells : stage.coverage[c].due
           /\ ~ stage.lease.backoff /\ ~ Free(stage.lease)
    /\ force' = [force EXCEPT ![f] = Done]
    /\ Released(f)
    /\ UNCHANGED discoveryVars

\* The seed of the copy, which nobody else sees: the providers are asked for its due
\* dates, unless it has nothing to do or a retry time ahead.
ForceSeed(f) ==
    /\ force[f].pc = "copied"
    /\ LET stage == force[f].stage
           due == {c \in Cells : stage.coverage[c].due}
       IN  IF due = {} \/ stage.lease.backoff
           THEN /\ force' = [force EXCEPT ![f].pc = "seeded"]
                /\ UNCHANGED disturbed
           ELSE /\ Free(stage.lease)
                /\ \E failed \in SUBSET Targets, proven \in SUBSET due :
                     LET answered == {c \in due : c[1] \notin failed}
                         found == Listing(Nothing, answered)
                     IN  /\ proven \subseteq answered
                         /\ IF failed = {} THEN UNCHANGED disturbed ELSE Disturb
                         /\ force' = [force EXCEPT ![f] =
                              [force[f] EXCEPT !.pc = "seeded",
                                 !.stage.history = [e \in Events |-> IF found[e] # 0 THEN found[e] ELSE @[e]],
                                 !.stage.coverage =
                                    [c \in Cells |->
                                       IF c \notin due THEN @[c]
                                       ELSE IF failed # {} /\ found = Nothing
                                       THEN Unavailable
                                       ELSE Recorded(c, found, proven)]]]
    /\ UNCHANGED <<source, history, coverage, calendar, lifecycle, lease, seed, preflight, other, lock>>

\* generation_plan: whatever differs from the live tables now.
ForcePlan(f) ==
    /\ force[f].pc = "seeded"
    /\ LET stage == force[f].stage
       IN  force' = [force EXCEPT ![f] =
                       [force[f] EXCEPT !.pc = "planned",
                          !.events = {e \in Events : stage.history[e] \notin {0, history[e]}},
                          !.cells = {c \in Cells : /\ stage.coverage[c].status # "UNKNOWN"
                                                   /\ stage.coverage[c] # coverage[c]}]]
    /\ UNCHANGED <<discoveryVars, lock>>

\* Nothing to write is the fixed point: the request returns the latest snapshot.
ForcePreflight(f) ==
    /\ force[f].pc = "planned"
    /\ IF force[f].events = {} /\ force[f].cells = {}
       THEN /\ force' = [force EXCEPT ![f] = Done]
            /\ Released(f)
            /\ UNCHANGED preflight
       ELSE /\ force' = [force EXCEPT ![f].pc = "saving"]
            /\ preflight' = preflight \union {f}
            /\ UNCHANGED lock
    /\ UNCHANGED <<source, history, coverage, calendar, lifecycle, lease, seed, other, disturbed>>

\* save_next raises when its revision is taken.  Else one transaction: the rows of
\* the plan as they are in the copy, and a snapshot of the calendar of the copy.
ForceSave(f) ==
    /\ force[f].pc = "saving"
    /\ LET stage == force[f].stage
       IN  IF f \in preflight
           THEN /\ history' = [e \in Events |-> IF e \in force[f].events THEN stage.history[e] ELSE history[e]]
                /\ coverage' = [c \in Cells |-> IF c \in force[f].cells THEN stage.coverage[c] ELSE coverage[c]]
                /\ Publish([e \in Events |-> [edition |-> stage.history[e], removed |-> FALSE]])
           ELSE UNCHANGED <<history, coverage, calendar, lifecycle, preflight>>
    /\ force' = [force EXCEPT ![f] = Done]
    /\ Released(f)
    /\ UNCHANGED <<source, lease, seed, other, disturbed>>

\* An exception, or the death of the process, leaves the lock and nothing else.
ForceFails(f) ==
    /\ force[f].stage # None
    /\ Disturb
    /\ force' = [force EXCEPT ![f] = Done]
    /\ Released(f)
    /\ preflight' = preflight \ {f}
    /\ UNCHANGED <<source, history, coverage, calendar, lifecycle, lease, seed, other>>

ForceStep(f) ==
    ForceTimesOut(f) \/ ForceSeed(f) \/ ForcePlan(f) \/ ForcePreflight(f) \/ ForceSave(f)

-----------------------------------------------------------------------------
LiveSeed(s) == SeedStart(s) \/ SeedStep(s)

\* Time passes for the same row of a copy as well.
TimePasses(c) ==
    /\ FallDue(c)
    /\ force' = [f \in Forces |->
                   IF force[f].stage # None /\ force[f].stage.coverage[c] = coverage[c]
                   THEN [force[f] EXCEPT !.stage.coverage[c] = coverage'[c]] ELSE force[f]]
    /\ UNCHANGED lock

Next ==
    \/ \E f \in Forces : ForceStart(f) \/ ForceStep(f) \/ ForceFails(f)
    \/ \E s \in Seeders : (LiveSeed(s) \/ SeedFails(s) \/ SeedDies(s)) /\ UNCHANGED <<lock, force>>
    \/ \E e \in Events : (Revise(e) \/ Withdraw(e)) /\ UNCHANGED <<lock, force>>
    \/ \E c \in Cells : TimePasses(c)
    \/ (BackoffEnds \/ LeaseLapses \/ OtherRead \/ OtherSave) /\ UNCHANGED <<lock, force>>

Spec == ForceInit /\ [][Next]_vars

\* The loop of the catch-up seeds whenever dates are due, its seeds and a force go
\* on, and time passes.
Fairness ==
    /\ \A s \in Seeders : WF_vars(LiveSeed(s) /\ UNCHANGED <<lock, force>>)
    /\ \A f \in Forces : WF_vars(ForceStep(f))
    /\ \A c \in Cells : WF_vars(TimePasses(c))
    /\ WF_vars(BackoffEnds /\ UNCHANGED <<lock, force>>)
    /\ WF_vars(LeaseLapses /\ UNCHANGED <<disturbed, lock, force>>)

FairSpec == Spec /\ Fairness

-----------------------------------------------------------------------------
(* Properties *)

\* Every table, seed and request is well formed; the lock belongs to the request
\* that has a copy, and a live lease to a seed.
TypeOK ==
    /\ source \in [listed : SUBSET Events, edition : [Events -> Editions]]
    /\ history \in [Events -> Editions]
    /\ coverage \in [Cells -> CoverageRow]
    /\ calendar \in Calendar
    /\ lifecycle \subseteq Events
    /\ lease \in [owner : Seeders \union {None}, live : BOOLEAN, backoff : BOOLEAN]
    /\ seed \in [Seeders -> SeedState]
    /\ preflight \subseteq Seeders \union Forces
    /\ other \in Calendar \union {None}
    /\ disturbed \in 0 .. Disturbances
    /\ lock \in Forces \union {None}
    /\ force \in [Forces -> ForceState]
    /\ \A f \in Forces : (lock = f) = (force[f].stage # None)
    /\ lease.live => lease.owner # None

\* The providers are asked by one live seed at a time: a seed that has not outlived
\* its lease still owns it, whatever seeds that did are still doing.
SingleFlight ==
    \A s \in Seeders : seed[s].pc # "idle" /\ ~ seed[s].outlived
        => lease.owner = s /\ lease.live

\* A date is proven only when every occurrence of the answer is recorded, so that
\* a seed that dies in between leaves the date due.
VerifiedIsBacked ==
    \A c \in Cells : coverage[c].status = "VERIFIED" => \A e \in coverage[c].listed : history[e] # 0

\* What the providers list in the end is recorded, is in the calendar and has a
\* lifecycle row, whatever calls fail, seeds die, publishers race or forces put back.
Discovery ==
    \A e \in Events :
        <>[](e \in source.listed =>
               history[e] = source.edition[e] /\ calendar[e].edition = history[e] /\ e \in lifecycle)

\* Documented (three-week-event-calendar-contract.md:246-251): an occurrence is
\* marked as removed only when a provider, asked about its date, left it out.
RemovalIsObserved ==
    [][\A e \in Events : calendar'[e].removed /\ ~ calendar[e].removed
         => \E s \in Seeders : CellOf[e] \in seed[s].asked]_vars

\* The recorded edition of an occurrence never goes back.
HistoryKeepsUp == [][\A e \in Events : history'[e] >= history[e]]_vars
=============================================================================
