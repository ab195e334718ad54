------------------------ MODULE ForcedGenerationProofs ------------------------
(***************************************************************************)
(* Proofs about ForcedGeneration and the seeds of ScheduleDiscovery in it, *)
(* for all sets of targets, dates, occurrences, processes and forces.      *)
(***************************************************************************)
EXTENDS ForcedGeneration, TLAPS

USE CellAssumption, SeederAssumption, EditionAssumption, ForceAssumption, StageAssumption

Leases == [owner : Seeders \union {None}, live : BOOLEAN, backoff : BOOLEAN]

\* The part of TypeOK about the tables and the seeds ...
DiscoveryOK ==
    /\ source \in [listed : SUBSET Events, edition : [Events -> Editions]]
    /\ history \in [Events -> Editions]
    /\ coverage \in [Cells -> CoverageRow]
    /\ calendar \in Calendar
    /\ lifecycle \subseteq Events
    /\ lease \in Leases
    /\ seed \in [Seeders -> SeedState]
    /\ preflight \subseteq Seeders \union Forces
    /\ other \in Calendar \union {None}
    /\ disturbed \in 0 .. Disturbances
    /\ lease.live => lease.owner # None

\* ... and the part about the forces, with what makes it inductive: a request has
\* a copy from its start to its end.
ForceOK ==
    /\ lock \in Forces \union {None}
    /\ force \in [Forces -> ForceState]
    /\ \A f \in Forces : (lock = f) = (force[f].stage # None)
    /\ \A f \in Forces : (force[f].pc \in {"waiting", "done"}) = (force[f].stage = None)

TypeInv == DiscoveryOK /\ ForceOK

\* Together they give the type invariant.
LEMMA TypeParts == TypeInv => TypeOK
  BY DEF TypeOK, TypeInv, DiscoveryOK, ForceOK, Leases

-----------------------------------------------------------------------------
(* The values the actions build *)

\* What the providers answered is an edition of each occurrence.
LEMMA ListingType ==
    ASSUME DiscoveryOK, NEW found \in [Events -> Editions], NEW cells
    PROVE  Listing(found, cells) \in [Events -> Editions]
  BY DEF DiscoveryOK, Listing

\* Ledger rows are well formed, with and without an answer.
LEMMA RowType ==
    ASSUME NEW c, NEW found, NEW proven
    PROVE  Recorded(c, found, proven) \in CoverageRow /\ Unavailable \in CoverageRow
  BY DEF Recorded, Unavailable, CoverageRow

\* So is a seed that has nothing to do.
LEMMA IdleType == IdleSeed \in SeedState /\ IdleSeed.pc = "idle" /\ ~ IdleSeed.outlived
  <1>1. Nothing \in [Events -> Editions] /\ Unseen \in Calendar
    BY DEF Nothing, Unseen, Calendar, Editions
  <1> QED
    BY <1>1 DEF IdleSeed, SeedState

\* And a seed that is about to give its lease back; it keeps what became of it.
LEMMA ClosingType ==
    ASSUME DiscoveryOK, NEW s \in Seeders, NEW backoff \in BOOLEAN
    PROVE  /\ Closing(s, backoff) \in SeedState
           /\ Closing(s, backoff).pc = "closing"
           /\ Closing(s, backoff).outlived = seed[s].outlived
  <1>1. seed[s].outlived \in BOOLEAN
    BY DEF DiscoveryOK, SeedState
  <1> QED
    BY <1>1, IdleType DEF Closing, SeedState

\* A seed that publishes the calendar it has read.
LEMMA DiscoveredType ==
    ASSUME DiscoveryOK, NEW s \in Seeders
    PROVE  Discovered(s) \in Calendar
  <1> DEFINE Known(e) == IF history[e] # 0 THEN [edition |-> history[e], removed |-> FALSE]
                                           ELSE calendar[e]
  <1>1. \A e \in Events : Known(e) \in [edition : Editions, removed : BOOLEAN]
    BY DEF DiscoveryOK, Calendar
  <1>2. \A e \in Events : [Known(e) EXCEPT !.removed = TRUE] \in [edition : Editions, removed : BOOLEAN]
    BY <1>1
  <1> HIDE DEF Known
  <1>3. Discovered(s) = [e \in Events |-> IF Known(e).edition # 0 /\ e \in NotListed(s)
                                          THEN [Known(e) EXCEPT !.removed = TRUE] ELSE Known(e)]
    BY DEF Discovered, Known
  <1> QED
    BY <1>1, <1>2, <1>3 DEF Calendar

\* Moving one seed to a well formed state keeps all of them well formed.
LEMMA SeedMoves ==
    ASSUME DiscoveryOK, NEW s \in Seeders, NEW r \in SeedState, seed' = [seed EXCEPT ![s] = r]
    PROVE  seed' \in [Seeders -> SeedState]
  BY DEF DiscoveryOK

-----------------------------------------------------------------------------
(* The steps of a seed *)

\* A provider is asked by a seed that stays well formed, and goes on asking.
LEMMA AskMoves ==
    ASSUME DiscoveryOK, NEW s \in Seeders, AskTarget(s)
    PROVE  \E r \in SeedState : /\ seed' = [seed EXCEPT ![s] = r]
                                /\ r.pc = "asking" /\ r.outlived = seed[s].outlived
  <1> DEFINE cells(t) == {c \in seed[s].ask : c[1] = t}
             Answered(t, proven) ==
               [seed[s] EXCEPT !.ask = @ \ cells(t), !.proven = @ \union proven,
                               !.found = Listing(@, cells(t))]
             Failed(t) == [seed[s] EXCEPT !.ask = @ \ cells(t), !.failed = TRUE]
             Asking(r) == r \in SeedState /\ r.pc = "asking" /\ r.outlived = seed[s].outlived
  <1>1. seed[s] \in SeedState /\ seed[s].pc = "asking"
    BY DEF DiscoveryOK, AskTarget
  <1>2. ASSUME NEW t \in Targets, NEW proven \in SUBSET cells(t)
        PROVE  Asking(Answered(t, proven))
    <2>1. Listing(seed[s].found, cells(t)) \in [Events -> Editions]
      BY <1>1, ListingType DEF SeedState
    <2>2. proven \subseteq Cells
      BY <1>1 DEF SeedState
    <2> QED
      BY <1>1, <2>1, <2>2 DEF SeedState
  <1>3. ASSUME NEW t \in Targets
        PROVE  Asking(Failed(t))
    BY <1>1 DEF SeedState
  <1>4. \E t \in Targets :
          \/ \E proven \in SUBSET cells(t) : seed' = [seed EXCEPT ![s] = Answered(t, proven)]
          \/ seed' = [seed EXCEPT ![s] = Failed(t)]
    BY DEF AskTarget
  <1> HIDE DEF cells, Answered, Failed
  <1> QED
    BY <1>2, <1>3, <1>4

\* So asking keeps everything well formed.
LEMMA AskType ==
    ASSUME DiscoveryOK, NEW s \in Seeders, AskTarget(s)
    PROVE  DiscoveryOK'
  <1>1. seed' \in [Seeders -> SeedState]
    BY AskMoves, SeedMoves
  <1>2. disturbed' \in 0 .. Disturbances
    <2>1. Disturb \/ UNCHANGED disturbed
      BY Zenon DEF AskTarget
    <2> QED
      BY <2>1 DEF Disturb, DiscoveryOK
  <1> QED
    BY <1>1, <1>2 DEF AskTarget, DiscoveryOK

\* So do the steps between the answer and the closing of the seed.
LEMMA SeedBodyType ==
    ASSUME DiscoveryOK, NEW s \in Seeders,
           \/ SeedLook(s) \/ AskedAll(s) \/ RecordUnavailable(s) \/ WriteEvent(s) \/ RecordDay(s)
           \/ Rematerialize(s) \/ SeedPreflight(s)
    PROVE  DiscoveryOK'
  <1>0. seed[s] \in SeedState
    BY DEF DiscoveryOK
  <1>1. CASE SeedLook(s)
    <2>1. [seed[s] EXCEPT !.pc = "asking", !.ask = Due, !.asked = Due] \in SeedState
      BY <1>0 DEF SeedState, Due
    <2>2. seed' \in [Seeders -> SeedState]
      BY <1>1, <2>1, ClosingType, SeedMoves DEF SeedLook
    <2> QED
      BY <1>1, <2>2 DEF SeedLook, DiscoveryOK
  <1>2. CASE AskedAll(s)
    <2>1. [seed[s] EXCEPT !.pc = "unavailable", !.ask = seed[s].asked] \in SeedState
      BY <1>0 DEF SeedState
    <2>2. [seed[s] EXCEPT !.pc = "writing", !.ask = seed[s].asked, !.left = Found(s),
                          !.fresh = Found(s) \ lifecycle] \in SeedState
      BY <1>0 DEF SeedState, Found
    <2>3. seed' \in [Seeders -> SeedState]
      BY <1>2, <2>1, <2>2, SeedMoves DEF AskedAll
    <2> QED
      BY <1>2, <2>3 DEF AskedAll, DiscoveryOK
  <1>3. CASE RecordUnavailable(s)
    <2>1. \A c : [seed[s] EXCEPT !.ask = @ \ {c}] \in SeedState
      BY <1>0 DEF SeedState
    <2>2. seed' \in [Seeders -> SeedState]
      BY <1>3, <2>1, ClosingType, SeedMoves DEF RecordUnavailable
    <2>3. coverage' \in [Cells -> CoverageRow]
      BY <1>3, RowType DEF RecordUnavailable, DiscoveryOK
    <2> QED
      BY <1>3, <2>2, <2>3 DEF RecordUnavailable, DiscoveryOK
  <1>4. CASE WriteEvent(s)
    <2>1. \A e : [seed[s] EXCEPT !.left = @ \ {e}] \in SeedState
      BY <1>0 DEF SeedState
    <2>2. PICK e \in seed[s].left : /\ history' = [history EXCEPT ![e] = seed[s].found[e]]
                                    /\ seed' = [seed EXCEPT ![s] = [seed[s] EXCEPT !.left = @ \ {e}]]
      BY <1>4 DEF WriteEvent, DiscoveryOK
    <2>3. seed' \in [Seeders -> SeedState]
      BY <2>1, <2>2, SeedMoves
    <2>4. history' \in [Events -> Editions]
      BY <1>0, <2>2 DEF SeedState, DiscoveryOK
    <2> QED
      BY <1>4, <2>3, <2>4 DEF WriteEvent, DiscoveryOK
  <1>5. CASE RecordDay(s)
    <2>1. \A c : [seed[s] EXCEPT !.ask = @ \ {c}, !.pc = IF seed[s].ask = {c} THEN "reading" ELSE @]
                   \in SeedState
      BY <1>0 DEF SeedState
    <2>2. PICK c \in seed[s].ask :
            /\ coverage' = [coverage EXCEPT ![c] = Recorded(c, seed[s].found, seed[s].proven)]
            /\ seed' = [seed EXCEPT ![s] = [seed[s] EXCEPT !.ask = @ \ {c},
                                              !.pc = IF seed[s].ask = {c} THEN "reading" ELSE @]]
      BY <1>5 DEF RecordDay
    <2>3. seed' \in [Seeders -> SeedState]
      BY <2>1, <2>2, SeedMoves
    <2>4. coverage' \in [Cells -> CoverageRow]
      BY <2>2, RowType DEF DiscoveryOK
    <2> QED
      BY <1>5, <2>3, <2>4 DEF RecordDay, DiscoveryOK
  <1>6. CASE Rematerialize(s)
    <2>1. [IdleSeed EXCEPT !.pc = "preparing", !.asked = seed[s].asked, !.view = Discovered(s),
                           !.outlived = seed[s].outlived] \in SeedState
      BY <1>0, IdleType, DiscoveredType DEF SeedState
    <2>2. seed' \in [Seeders -> SeedState]
      BY <1>6, <2>1, ClosingType, SeedMoves DEF Rematerialize
    <2> QED
      BY <1>6, <2>2 DEF Rematerialize, DiscoveryOK
  <1>7. CASE SeedPreflight(s)
    <2>1. [seed[s] EXCEPT !.pc = "saving"] \in SeedState
      BY <1>0 DEF SeedState
    <2>2. seed' = [seed EXCEPT ![s] = [seed[s] EXCEPT !.pc = "saving"]]
      BY <1>7 DEF SeedPreflight, DiscoveryOK
    <2>3. seed' \in [Seeders -> SeedState]
      BY <2>1, <2>2, SeedMoves
    <2> QED
      BY <1>7, <2>3 DEF SeedPreflight, DiscoveryOK
  <1> QED
    BY <1>1, <1>2, <1>3, <1>4, <1>5, <1>6, <1>7

\* Publishing writes well formed tables.
LEMMA PublishType ==
    ASSUME DiscoveryOK, NEW view \in Calendar, Publish(view)
    PROVE  calendar' \in Calendar /\ lifecycle' \subseteq Events /\ preflight' = {}
  BY DEF DiscoveryOK, Publish

\* Starting, saving and ending a seed, by itself, in an exception or with its process.
LEMMA SeedEdgeType ==
    ASSUME DiscoveryOK, NEW s \in Seeders,
           SeedStart(s) \/ SeedSave(s) \/ SeedClose(s) \/ SeedFails(s) \/ SeedDies(s)
    PROVE  DiscoveryOK'
  <1>0. seed[s] \in SeedState
    BY DEF DiscoveryOK
  <1>1. CASE SeedStart(s)
    <2>1. [IdleSeed EXCEPT !.pc = "leased"] \in SeedState
      BY IdleType DEF SeedState
    <2>2. seed' \in [Seeders -> SeedState]
      BY <1>1, <2>1, SeedMoves DEF SeedStart
    <2>3. lease' \in Leases /\ (lease'.live => lease'.owner # None)
      BY <1>1 DEF SeedStart, Leases
    <2> QED
      BY <1>1, <2>2, <2>3 DEF SeedStart, DiscoveryOK
  <1>2. CASE SeedSave(s)
    <2>1. seed' \in [Seeders -> SeedState]
      BY <1>2, ClosingType, SeedMoves DEF SeedSave
    <2>2. seed[s].view \in Calendar
      BY <1>0 DEF SeedState
    <2>3. /\ calendar' \in Calendar /\ lifecycle' \subseteq Events
          /\ preflight' \subseteq Seeders \union Forces
      BY <1>2, <2>2, PublishType DEF SeedSave, DiscoveryOK
    <2> QED
      BY <1>2, <2>1, <2>3 DEF SeedSave, DiscoveryOK
  <1>3. CASE SeedClose(s)
    <2>1. seed' \in [Seeders -> SeedState]
      BY <1>3, IdleType, SeedMoves DEF SeedClose
    <2>2. Closed(s) \in Leases /\ (Closed(s).live => Closed(s).owner # None)
      BY <1>0 DEF Closed, Leases, DiscoveryOK, SeedState
    <2> QED
      BY <1>3, <2>1, <2>2 DEF SeedClose, DiscoveryOK
  <1>4. CASE SeedFails(s)
    <2>1. seed' \in [Seeders -> SeedState]
      BY <1>4, ClosingType, SeedMoves DEF SeedFails
    <2>2. disturbed' \in 0 .. Disturbances
      BY <1>4 DEF SeedFails, Disturb, DiscoveryOK
    <2> QED
      BY <1>4, <2>1, <2>2 DEF SeedFails, DiscoveryOK
  <1>5. CASE SeedDies(s)
    <2>1. seed' \in [Seeders -> SeedState]
      BY <1>5, IdleType, SeedMoves DEF SeedDies
    <2> QED
      BY <1>5, <2>1 DEF SeedDies, Disturb, DiscoveryOK
  <1> QED
    BY <1>1, <1>2, <1>3, <1>4, <1>5

-----------------------------------------------------------------------------
(* The world around the seeds *)

\* The providers, the clock and other publishers keep the tables well formed.
LEMMA WorldType ==
    ASSUME DiscoveryOK,
           \/ \E e \in Events : Revise(e) \/ Withdraw(e)
           \/ \E c \in Cells : FallDue(c)
           \/ BackoffEnds \/ LeaseLapses \/ OtherRead \/ OtherSave
    PROVE  DiscoveryOK'
  <1>1. CASE \E e \in Events : Revise(e)
    <2>1. PICK e \in Events : Revise(e)
      BY <1>1
    <2>2. source.edition[e] + 1 \in Editions
      BY <2>1 DEF Revise, DiscoveryOK, Editions
    <2>3. source' \in [listed : SUBSET Events, edition : [Events -> Editions]]
      BY <2>1, <2>2 DEF Revise, DiscoveryOK
    <2> QED
      BY <2>1, <2>3 DEF Revise, DiscoveryOK
  <1>2. CASE \E e \in Events : Withdraw(e)
    <2>1. source' \in [listed : SUBSET Events, edition : [Events -> Editions]]
      BY <1>2 DEF Withdraw, DiscoveryOK
    <2> QED
      BY <1>2, <2>1 DEF Withdraw, Disturb, DiscoveryOK
  <1>3. CASE \E c \in Cells : FallDue(c)
    <2>1. PICK c \in Cells : FallDue(c)
      BY <1>3
    <2>2. coverage[c] \in CoverageRow /\ [coverage[c] EXCEPT !.due = TRUE] \in CoverageRow
      <3>1. coverage[c] \in CoverageRow
        BY DEF DiscoveryOK
      <3> QED
        BY <3>1 DEF CoverageRow
    <2>3. coverage' = [coverage EXCEPT ![c] = [coverage[c] EXCEPT !.due = TRUE]]
      BY <2>1 DEF FallDue, DiscoveryOK
    <2>4. coverage' \in [Cells -> CoverageRow]
      BY <2>2, <2>3 DEF DiscoveryOK
    <2> QED
      BY <2>1, <2>4 DEF FallDue, DiscoveryOK
  <1>4. CASE BackoffEnds
    BY <1>4 DEF BackoffEnds, DiscoveryOK, Leases
  <1>5. CASE LeaseLapses
    <2>1. lease.owner \in Seeders
      BY <1>5 DEF LeaseLapses, DiscoveryOK, Leases
    <2>2. [seed[lease.owner] EXCEPT !.outlived = TRUE] \in SeedState
      <3>1. seed[lease.owner] \in SeedState
        BY <2>1 DEF DiscoveryOK
      <3> QED
        BY <3>1 DEF SeedState
    <2>3. \/ UNCHANGED <<seed, disturbed>>
          \/ /\ Disturb
             /\ seed' = [seed EXCEPT ![lease.owner] = [seed[lease.owner] EXCEPT !.outlived = TRUE]]
      BY <1>5, <2>1 DEF LeaseLapses, DiscoveryOK
    <2>4. seed' \in [Seeders -> SeedState] /\ disturbed' \in 0 .. Disturbances
      BY <2>1, <2>2, <2>3, SeedMoves DEF DiscoveryOK, Disturb
    <2> QED
      BY <1>5, <2>4 DEF LeaseLapses, DiscoveryOK, Leases
  <1>6. CASE OtherRead
    BY <1>6 DEF OtherRead, Disturb, DiscoveryOK
  <1>7. CASE OtherSave
    <2>1. calendar' \in Calendar /\ lifecycle' \subseteq Events /\ preflight' = {} /\ other' = None
      BY <1>7, PublishType DEF OtherSave, DiscoveryOK
    <2> QED
      BY <1>7, <2>1 DEF OtherSave, DiscoveryOK
  <1> QED
    BY <1>1, <1>2, <1>3, <1>4, <1>5, <1>6, <1>7

-----------------------------------------------------------------------------
(* The forces *)

\* A force without a copy is well formed, whether it waits or is done.
LEMMA RequestType ==
    /\ Waiting \in ForceState /\ Waiting.stage = None /\ Waiting.pc = "waiting"
    /\ Done \in ForceState /\ Done.stage = None /\ Done.pc = "done"
  BY DEF Waiting, Done, ForceState

\* A force that goes on keeps its copy, and the lock.
LEMMA ForceMoves ==
    ASSUME ForceOK, NEW f \in Forces, NEW r \in ForceState, force' = [force EXCEPT ![f] = r],
           force[f].stage # None, r.stage # None, r.pc \notin {"waiting", "done"}, UNCHANGED lock
    PROVE  ForceOK'
  BY DEF ForceOK

\* A force that ends drops its copy and gives the lock back.
LEMMA ForceEnds ==
    ASSUME ForceOK, NEW f \in Forces, force' = [force EXCEPT ![f] = Done],
           force[f].stage # None, Released(f)
    PROVE  ForceOK'
  BY RequestType DEF ForceOK, Released

\* The copy of a force under way.
LEMMA StageKnown ==
    ASSUME ForceOK, NEW f \in Forces, force[f].pc \notin {"waiting", "done"} \/ force[f].stage # None
    PROVE  force[f].stage \in Stage /\ force[f].stage # None /\ force[f].pc \notin {"waiting", "done"}
  BY DEF ForceOK, ForceState

\* What the seed of a copy makes of it.
Copy(f) == force[f].stage
CopyDue(f) == {c \in Cells : Copy(f).coverage[c].due}
CopyFound(f, failed) == Listing(Nothing, {c \in CopyDue(f) : c[1] \notin failed})
CopyHistory(f, failed) ==
    [e \in Events |-> IF CopyFound(f, failed)[e] # 0 THEN CopyFound(f, failed)[e] ELSE Copy(f).history[e]]
CopyLedger(f, failed, proven) ==
    [c \in Cells |-> IF c \notin CopyDue(f) THEN Copy(f).coverage[c]
                     ELSE IF failed # {} /\ CopyFound(f, failed) = Nothing THEN Unavailable
                     ELSE Recorded(c, CopyFound(f, failed), proven)]
Seeded(f, failed, proven) ==
    [force[f] EXCEPT !.pc = "seeded", !.stage.history = CopyHistory(f, failed),
                     !.stage.coverage = CopyLedger(f, failed, proven)]
Unseeded(f) == [force[f] EXCEPT !.pc = "seeded"]

\* It has nothing to do, or leaves the copy as described.
LEMMA ForceSeedCases ==
    ASSUME NEW f \in Forces, ForceSeed(f)
    PROVE  \/ force' = [force EXCEPT ![f].pc = "seeded"] /\ UNCHANGED disturbed
           \/ \E failed \in SUBSET Targets, proven \in SUBSET CopyDue(f) :
                /\ force' = [force EXCEPT ![f] = Seeded(f, failed, proven)]
                /\ Disturb \/ UNCHANGED disturbed
  BY DEF ForceSeed, Seeded, CopyLedger, CopyHistory, CopyFound, CopyDue, Copy

\* The copy it leaves is well formed.
LEMMA SeededType ==
    ASSUME TypeInv, NEW f \in Forces, force[f].stage # None, NEW failed, NEW proven
    PROVE  /\ Seeded(f, failed, proven) \in ForceState
           /\ Seeded(f, failed, proven).pc = "seeded"
           /\ Seeded(f, failed, proven).stage # None
           /\ Seeded(f, failed, proven).stage.history = CopyHistory(f, failed)
           /\ Seeded(f, failed, proven).stage.coverage = CopyLedger(f, failed, proven)
  <1> DEFINE stage == [Copy(f) EXCEPT !.history = CopyHistory(f, failed),
                                      !.coverage = CopyLedger(f, failed, proven)]
  <1>1. force[f] \in ForceState /\ Copy(f) \in Stage
    BY StageKnown DEF TypeInv, ForceOK, Copy
  <1>2. CopyFound(f, failed) \in [Events -> Editions]
    BY ListingType DEF TypeInv, Nothing, Editions, CopyFound
  <1>3. CopyHistory(f, failed) \in [Events -> Editions]
    BY <1>1, <1>2 DEF Stage, CopyHistory
  <1>4. CopyLedger(f, failed, proven) \in [Cells -> CoverageRow]
    BY <1>1, RowType DEF Stage, CopyLedger
  <1>5. /\ stage \in Stage /\ stage.history = CopyHistory(f, failed)
        /\ stage.coverage = CopyLedger(f, failed, proven)
    BY <1>1, <1>3, <1>4 DEF Stage
  <1>6. Seeded(f, failed, proven) = [force[f] EXCEPT !.pc = "seeded", !.stage = stage]
    BY <1>1 DEF ForceState, Stage, Seeded, Copy
  <1> HIDE DEF stage
  <1> QED
    BY <1>1, <1>5, <1>6 DEF ForceState

\* So the seed of a copy keeps everything well formed.
LEMMA ForceSeedType ==
    ASSUME TypeInv, NEW f \in Forces, ForceSeed(f)
    PROVE  TypeInv'
  <1>1. force[f] \in ForceState /\ force[f].stage # None /\ UNCHANGED lock
    BY StageKnown DEF TypeInv, ForceOK, ForceSeed
  <1>2. Unseeded(f) \in ForceState /\ Unseeded(f).stage # None /\ Unseeded(f).pc = "seeded"
    BY <1>1 DEF ForceState, Unseeded
  <1>3. \/ force' = [force EXCEPT ![f] = Unseeded(f)]
        \/ \E failed, proven : force' = [force EXCEPT ![f] = Seeded(f, failed, proven)]
    BY ForceSeedCases DEF Unseeded, TypeInv, ForceOK
  <1>4. ForceOK'
    BY <1>1, <1>2, <1>3, SeededType, ForceMoves DEF TypeInv
  <1>5. disturbed' \in 0 .. Disturbances
    BY ForceSeedCases DEF TypeInv, DiscoveryOK, Disturb
  <1> QED
    BY <1>4, <1>5 DEF ForceSeed, TypeInv, DiscoveryOK

\* The other steps of a force.
LEMMA ForceStepType ==
    ASSUME TypeInv, NEW f \in Forces,
           \/ ForceStart(f) \/ ForceTimesOut(f) \/ ForcePlan(f) \/ ForcePreflight(f) \/ ForceSave(f)
           \/ ForceFails(f)
    PROVE  TypeInv'
  <1>0. DiscoveryOK /\ ForceOK /\ force[f] \in ForceState
    BY DEF TypeInv, ForceOK
  <1>1. CASE ForceStart(f)
    <2> DEFINE stage == [history |-> history, coverage |-> coverage, lease |-> lease]
               r == [Waiting EXCEPT !.pc = "copied", !.stage = stage]
    <2>1. stage \in Stage
      BY <1>0 DEF DiscoveryOK, Stage, Leases
    <2>2. r \in ForceState /\ r.stage # None /\ r.pc = "copied"
      BY <2>1 DEF Waiting, ForceState
    <2> HIDE DEF r
    <2>3. ForceOK'
      <3>1. force' = [force EXCEPT ![f] = r] /\ lock = None /\ lock' = f
        BY <1>1 DEF ForceStart, r
      <3> QED
        BY <1>0, <2>2, <3>1 DEF ForceOK
    <2> QED
      BY <1>0, <1>1, <2>3 DEF ForceStart, discoveryVars, DiscoveryOK, TypeInv
  <1>2. CASE ForceTimesOut(f)
    <2>1. ForceOK'
      BY <1>0, <1>2, StageKnown, ForceEnds DEF ForceTimesOut
    <2> QED
      BY <1>0, <1>2, <2>1 DEF ForceTimesOut, discoveryVars, DiscoveryOK, TypeInv
  <1>3. CASE ForcePlan(f)
    <2> DEFINE planned(E, C) == [force[f] EXCEPT !.pc = "planned", !.events = E, !.cells = C]
    <2>1. force[f].stage # None /\ UNCHANGED lock
      BY <1>0, <1>3, StageKnown DEF ForcePlan
    <2>2. \E E \in SUBSET Events, C \in SUBSET Cells : force' = [force EXCEPT ![f] = planned(E, C)]
      BY <1>3 DEF ForcePlan
    <2>3. \A E \in SUBSET Events, C \in SUBSET Cells :
            LET r == planned(E, C) IN r \in ForceState /\ r.stage # None /\ r.pc = "planned"
      BY <1>0, <2>1 DEF ForceState
    <2> HIDE DEF planned
    <2>4. ForceOK'
      BY <1>0, <2>1, <2>2, <2>3, ForceMoves
    <2> QED
      BY <1>0, <1>3, <2>4 DEF ForcePlan, discoveryVars, DiscoveryOK, TypeInv
  <1>4. CASE ForcePreflight(f)
    <2> DEFINE r == [force[f] EXCEPT !.pc = "saving"]
    <2>1. force[f].stage # None
      BY <1>0, <1>4, StageKnown DEF ForcePreflight
    <2>2. r \in ForceState /\ r.stage # None /\ r.pc = "saving"
      BY <1>0, <2>1 DEF ForceState
    <2>3. \/ force' = [force EXCEPT ![f] = Done] /\ Released(f)
          \/ force' = [force EXCEPT ![f] = r] /\ UNCHANGED lock
      BY <1>0, <1>4 DEF ForcePreflight, ForceOK
    <2> HIDE DEF r
    <2>4. ForceOK'
      BY <1>0, <2>1, <2>2, <2>3, ForceMoves, ForceEnds
    <2>5. preflight' \subseteq Seeders \union Forces
      BY <1>0, <1>4 DEF ForcePreflight, DiscoveryOK
    <2> QED
      BY <1>0, <1>4, <2>4, <2>5 DEF ForcePreflight, DiscoveryOK, TypeInv
  <1>5. CASE ForceSave(f)
    <2> DEFINE stage == force[f].stage
               view == [e \in Events |-> [edition |-> stage.history[e], removed |-> FALSE]]
    <2>1. stage \in Stage /\ stage # None
      BY <1>0, <1>5, StageKnown DEF ForceSave
    <2>2. ForceOK'
      BY <1>0, <1>5, <2>1, ForceEnds DEF ForceSave
    <2>3. view \in Calendar
      BY <2>1 DEF Stage, Calendar
    <2>4. /\ calendar' \in Calendar /\ lifecycle' \subseteq Events
          /\ preflight' \subseteq Seeders \union Forces
      BY <1>0, <1>5, <2>3, PublishType DEF ForceSave, DiscoveryOK
    <2>5. history' \in [Events -> Editions] /\ coverage' \in [Cells -> CoverageRow]
      <3>1. stage.history \in [Events -> Editions] /\ stage.coverage \in [Cells -> CoverageRow]
        BY <2>1 DEF Stage
      <3>2. CASE f \in preflight
        BY <1>0, <1>5, <3>1, <3>2 DEF ForceSave, DiscoveryOK
      <3>3. CASE f \notin preflight
        BY <1>0, <1>5, <3>3 DEF ForceSave, DiscoveryOK
      <3> QED
        BY <3>2, <3>3
    <2> QED
      BY <1>0, <1>5, <2>2, <2>4, <2>5 DEF ForceSave, DiscoveryOK, TypeInv
  <1>6. CASE ForceFails(f)
    <2>1. ForceOK'
      BY <1>0, <1>6, ForceEnds DEF ForceFails
    <2>2. disturbed' \in 0 .. Disturbances
      BY <1>0, <1>6 DEF ForceFails, Disturb, DiscoveryOK
    <2>3. preflight' \subseteq Seeders \union Forces
      BY <1>0, <1>6 DEF ForceFails, DiscoveryOK
    <2> QED
      BY <1>0, <1>6, <2>1, <2>2, <2>3 DEF ForceFails, DiscoveryOK, TypeInv
  <1> QED
    BY <1>1, <1>2, <1>3, <1>4, <1>5, <1>6

\* Time passes in the tables and in the copies.
LEMMA TimeType ==
    ASSUME TypeInv, NEW c \in Cells, TimePasses(c)
    PROVE  TypeInv'
  <1>1. DiscoveryOK'
    BY WorldType DEF TypeInv, TimePasses
  <1>2. ASSUME NEW f \in Forces, force[f].stage # None
        PROVE  LET r == [force[f] EXCEPT !.stage.coverage[c] = coverage'[c]]
               IN  r \in ForceState /\ r.stage # None /\ r.pc = force[f].pc
    <2> DEFINE stage == force[f].stage
               later == [stage EXCEPT !.coverage = [stage.coverage EXCEPT ![c] = coverage'[c]]]
    <2>1. stage \in Stage /\ force[f] \in ForceState
      BY <1>2, StageKnown DEF TypeInv, ForceOK
    <2>2. coverage'[c] \in CoverageRow
      BY <1>1 DEF DiscoveryOK
    <2>3. later \in Stage
      BY <2>1, <2>2 DEF Stage
    <2>4. [force[f] EXCEPT !.stage.coverage[c] = coverage'[c]] = [force[f] EXCEPT !.stage = later]
      BY <2>1 DEF ForceState, Stage
    <2> HIDE DEF later
    <2> DEFINE r == [force[f] EXCEPT !.stage = later]
    <2>5. r \in ForceState
      BY <2>1, <2>3 DEF ForceState
    <2>6. r.stage = later /\ r.pc = force[f].pc
      BY <2>1 DEF ForceState
    <2>7. later # None
      BY <2>3, StageAssumption
    <2> HIDE DEF r
    <2> QED
      BY <2>4, <2>5, <2>6, <2>7 DEF r
  <1>3. ForceOK'
    <2>1. ASSUME NEW f \in Forces
          PROVE  /\ force'[f] \in ForceState /\ force'[f].pc = force[f].pc
                 /\ (force'[f].stage # None) = (force[f].stage # None)
      <3>1. force[f] \in ForceState
        BY DEF TypeInv, ForceOK
      <3>2. CASE force'[f] = force[f]
        BY <3>1, <3>2
      <3>3. CASE force'[f] # force[f]
        <4> DEFINE r == [force[f] EXCEPT !.stage.coverage[c] = coverage'[c]]
        <4>1. force[f].stage # None /\ force'[f] = r
          BY <3>3 DEF TimePasses
        <4>2. r \in ForceState /\ r.stage # None /\ r.pc = force[f].pc
          BY <1>2, <4>1
        <4> HIDE DEF r
        <4> QED
          BY <4>1, <4>2
      <3> QED
        BY <3>2, <3>3
    <2>2. DOMAIN force' = Forces /\ force' = [f \in Forces |-> force'[f]] /\ UNCHANGED lock
      BY DEF TimePasses
    <2>3. ForceOK
      BY DEF TypeInv
    <2> QED
      BY <2>1, <2>2, <2>3 DEF ForceOK
  <1> QED
    BY <1>1, <1>3 DEF TypeInv

-----------------------------------------------------------------------------
(* Type correctness *)

\* The empty database satisfies the invariant ...
LEMMA InitType == ForceInit => TypeInv
  <1> SUFFICES ASSUME ForceInit PROVE TypeInv
    OBVIOUS
  <1>1. Nothing \in [Events -> Editions] /\ Unseen \in Calendar
    BY DEF Nothing, Unseen, Calendar, Editions
  <1>2. DiscoveryOK
    BY <1>1, IdleType DEF ForceInit, DiscoveryInit, DiscoveryOK, CoverageRow, Leases
  <1>3. ForceOK
    BY RequestType DEF ForceInit, ForceOK
  <1> QED
    BY <1>2, <1>3 DEF TypeInv

\* ... and every step preserves it.
LEMMA StepType == TypeInv /\ [Next]_vars => TypeInv'
  <1> SUFFICES ASSUME TypeInv, [Next]_vars PROVE TypeInv'
    OBVIOUS
  <1>0. DiscoveryOK /\ ForceOK
    BY DEF TypeInv
  <1>1. ASSUME NEW f \in Forces, ForceStart(f) \/ ForceStep(f) \/ ForceFails(f) PROVE TypeInv'
    BY <1>1, ForceSeedType, ForceStepType DEF ForceStep
  <1>2. ASSUME NEW s \in Seeders, (LiveSeed(s) \/ SeedFails(s) \/ SeedDies(s)) /\ UNCHANGED <<lock, force>>
        PROVE  TypeInv'
    <2>1. DiscoveryOK'
      BY <1>0, <1>2, AskType, SeedBodyType, SeedEdgeType DEF LiveSeed, SeedStep
    <2> QED
      BY <1>0, <1>2, <2>1 DEF ForceOK, TypeInv
  <1>3. ASSUME NEW e \in Events, (Revise(e) \/ Withdraw(e)) /\ UNCHANGED <<lock, force>>
        PROVE  TypeInv'
    <2>1. DiscoveryOK'
      BY <1>0, <1>3, WorldType
    <2> QED
      BY <1>0, <1>3, <2>1 DEF ForceOK, TypeInv
  <1>4. CASE \E c \in Cells : TimePasses(c)
    BY <1>4, TimeType
  <1>5. CASE (BackoffEnds \/ LeaseLapses \/ OtherRead \/ OtherSave) /\ UNCHANGED <<lock, force>>
    <2>1. DiscoveryOK'
      BY <1>0, <1>5, WorldType
    <2> QED
      BY <1>0, <1>5, <2>1 DEF ForceOK, TypeInv
  <1>6. CASE UNCHANGED vars
    BY <1>6 DEF vars, discoveryVars, TypeInv, DiscoveryOK, ForceOK
  <1> QED
    BY <1>1, <1>2, <1>3, <1>4, <1>5, <1>6 DEF Next

\* Every table, seed, request and copy stays well formed; the lock is with the one
\* request that has a copy.
THEOREM TypeCorrect == Spec => []TypeOK
  <1>1. Spec => []TypeInv
    BY InitType, StepType, PTL DEF Spec
  <1> QED
    BY <1>1, TypeParts, PTL

-----------------------------------------------------------------------------
(* One live seed at a time *)

\* Between its start and its end a seed moves alone, and keeps what became of its
\* lease.
LEMMA KeepsOutlived ==
    ASSUME DiscoveryOK, NEW s \in Seeders, NEW r, r.outlived = seed[s].outlived,
           seed' = [seed EXCEPT ![s] = r]
    PROVE  seed'[s].outlived = seed[s].outlived /\ \A q \in Seeders \ {s} : seed'[q] = seed[q]
  BY DEF DiscoveryOK

LEMMA SeedKeeps ==
    ASSUME DiscoveryOK, NEW s \in Seeders,
           \/ SeedLook(s) \/ AskTarget(s) \/ AskedAll(s) \/ RecordUnavailable(s) \/ WriteEvent(s)
           \/ RecordDay(s) \/ Rematerialize(s) \/ SeedPreflight(s) \/ SeedSave(s) \/ SeedFails(s)
    PROVE  /\ seed[s].pc # "idle" /\ UNCHANGED lease
           /\ seed'[s].outlived = seed[s].outlived
           /\ \A q \in Seeders \ {s} : seed'[q] = seed[q]
  <1>0. seed[s] \in SeedState
    BY DEF DiscoveryOK
  <1>1. CASE SeedLook(s)
    <2> DEFINE r == [seed[s] EXCEPT !.pc = "asking", !.ask = Due, !.asked = Due]
    <2>1. \/ seed' = [seed EXCEPT ![s] = Closing(s, FALSE)]
          \/ seed' = [seed EXCEPT ![s] = r]
      BY <1>1 DEF SeedLook
    <2>2. r.outlived = seed[s].outlived
      BY <1>0 DEF SeedState
    <2> HIDE DEF r
    <2> QED
      BY <1>1, <2>1, <2>2, ClosingType, KeepsOutlived DEF SeedLook
  <1>2. CASE AskTarget(s)
    <2>1. seed[s].pc = "asking" /\ UNCHANGED lease
      BY <1>2 DEF AskTarget
    <2> QED
      BY <1>2, <2>1, AskMoves, KeepsOutlived
  <1>3. CASE AskedAll(s)
    BY <1>0, <1>3 DEF AskedAll, DiscoveryOK, SeedState
  <1>4. CASE RecordUnavailable(s)
    <2>1. PICK c : seed' = [seed EXCEPT ![s] = IF seed[s].ask = {c} THEN Closing(s, TRUE)
                                               ELSE [seed[s] EXCEPT !.ask = @ \ {c}]]
      BY <1>4 DEF RecordUnavailable
    <2> DEFINE r == [seed[s] EXCEPT !.ask = @ \ {c}]
    <2>2. seed' = [seed EXCEPT ![s] = Closing(s, TRUE)] \/ seed' = [seed EXCEPT ![s] = r]
      BY <2>1
    <2>3. r.outlived = seed[s].outlived
      BY <1>0 DEF SeedState
    <2> HIDE DEF r
    <2> QED
      <3>1. Closing(s, TRUE).outlived = seed[s].outlived
        BY ClosingType
      <3>2. seed[s].pc # "idle" /\ UNCHANGED lease
        BY <1>4 DEF RecordUnavailable
      <3> QED
        BY <2>2, <2>3, <3>1, <3>2, KeepsOutlived
  <1>5. CASE WriteEvent(s)
    <2>1. PICK e : seed' = [seed EXCEPT ![s].left = @ \ {e}]
      BY <1>5 DEF WriteEvent
    <2> DEFINE r == [seed[s] EXCEPT !.left = @ \ {e}]
    <2>2. seed' = [seed EXCEPT ![s] = r]
      BY <2>1
    <2>3. r.outlived = seed[s].outlived
      BY <1>0 DEF SeedState
    <2> HIDE DEF r
    <2> QED
      BY <1>5, <2>2, <2>3, KeepsOutlived DEF WriteEvent
  <1>6. CASE RecordDay(s)
    <2>1. PICK c : seed' = [seed EXCEPT ![s] = [seed[s] EXCEPT !.ask = @ \ {c},
                                                  !.pc = IF seed[s].ask = {c} THEN "reading" ELSE @]]
      BY <1>6 DEF RecordDay
    <2> DEFINE r == [seed[s] EXCEPT !.ask = @ \ {c}, !.pc = IF seed[s].ask = {c} THEN "reading" ELSE @]
    <2>2. seed' = [seed EXCEPT ![s] = r]
      BY <2>1
    <2>3. r.outlived = seed[s].outlived
      BY <1>0 DEF SeedState
    <2> HIDE DEF r
    <2> QED
      BY <1>6, <2>2, <2>3, KeepsOutlived DEF RecordDay
  <1>7. CASE Rematerialize(s)
    <2> DEFINE r == [IdleSeed EXCEPT !.pc = "preparing", !.asked = seed[s].asked,
                       !.view = Discovered(s), !.outlived = seed[s].outlived]
    <2>1. seed' = [seed EXCEPT ![s] = r] \/ seed' = [seed EXCEPT ![s] = Closing(s, FALSE)]
      BY <1>7 DEF Rematerialize
    <2>2. r.outlived = seed[s].outlived
      BY DEF IdleSeed
    <2> HIDE DEF r
    <2> QED
      BY <1>7, <2>1, <2>2, ClosingType, KeepsOutlived DEF Rematerialize
  <1>8. CASE SeedPreflight(s)
    <2> DEFINE r == [seed[s] EXCEPT !.pc = "saving"]
    <2>1. seed' = [seed EXCEPT ![s] = r]
      BY <1>8 DEF SeedPreflight
    <2>2. r.outlived = seed[s].outlived
      BY <1>0 DEF SeedState
    <2> HIDE DEF r
    <2> QED
      BY <1>8, <2>1, <2>2, KeepsOutlived DEF SeedPreflight
  <1>9. CASE SeedSave(s)
    <2>1. seed' = [seed EXCEPT ![s] = Closing(s, s \notin preflight)]
      BY <1>9 DEF SeedSave
    <2>2. Closing(s, s \notin preflight).outlived = seed[s].outlived
      BY ClosingType
    <2> QED
      BY <1>9, <2>1, <2>2, KeepsOutlived DEF SeedSave
  <1>10. CASE SeedFails(s)
    <2>1. seed' = [seed EXCEPT ![s] = Closing(s, TRUE)]
      BY <1>10 DEF SeedFails
    <2> QED
      BY <1>10, <2>1, ClosingType, KeepsOutlived DEF SeedFails
  <1> QED
    BY <1>1, <1>2, <1>3, <1>4, <1>5, <1>6, <1>7, <1>8, <1>9, <1>10

\* A seed starts only when no seed can be under a live lease, ends with its own lease
\* alone, and learns that its lease has lapsed.
LEMMA StepFlight ==
    ASSUME TypeInv, SingleFlight, [Next]_vars
    PROVE  SingleFlight'
  <1>0. DiscoveryOK
    BY DEF TypeInv
  <1>1. ASSUME NEW s \in Seeders, SeedStart(s) PROVE SingleFlight'
    <2>1. \A q \in Seeders \ {s} : seed'[q] = seed[q] /\ (seed[q].pc = "idle" \/ seed[q].outlived)
      BY <1>0, <1>1 DEF SeedStart, Free, SingleFlight, DiscoveryOK
    <2>2. lease'.owner = s /\ lease'.live
      BY <1>1 DEF SeedStart
    <2> QED
      BY <2>1, <2>2 DEF SingleFlight
  <1>2. ASSUME NEW s \in Seeders, SeedStep(s) \/ SeedFails(s), ~ SeedClose(s) PROVE SingleFlight'
    BY <1>0, <1>2, SeedKeeps DEF SeedStep, SingleFlight
  <1>3. ASSUME NEW s \in Seeders, SeedClose(s) \/ SeedDies(s) PROVE SingleFlight'
    <2>1. seed'[s].pc = "idle" /\ \A q \in Seeders \ {s} : seed'[q] = seed[q]
      BY <1>0, <1>3, IdleType DEF SeedClose, SeedDies, DiscoveryOK
    <2>2. lease' = lease \/ lease.owner = s
      BY <1>3 DEF SeedClose, SeedDies, Closed
    <2> QED
      BY <2>1, <2>2 DEF SingleFlight
  <1>4. CASE LeaseLapses
    <2>1. lease.owner \in Seeders /\ lease.live
      BY <1>0, <1>4 DEF LeaseLapses, DiscoveryOK, Leases
    <2>2. \A q \in Seeders \ {lease.owner} : seed'[q] = seed[q] /\ (seed[q].pc = "idle" \/ seed[q].outlived)
      BY <1>0, <1>4, <2>1 DEF LeaseLapses, SingleFlight, DiscoveryOK
    <2>3. \/ seed'[lease.owner].pc = "idle"
          \/ seed'[lease.owner].outlived
      <3>1. seed[lease.owner] \in SeedState
        BY <1>0, <2>1 DEF DiscoveryOK
      <3> QED
        BY <1>0, <1>4, <2>1, <3>1 DEF LeaseLapses, DiscoveryOK, SeedState
    <2> QED
      BY <2>2, <2>3 DEF SingleFlight
  <1>5. CASE BackoffEnds
    BY <1>0, <1>5 DEF BackoffEnds, SingleFlight, DiscoveryOK, Leases
  <1>6. CASE UNCHANGED <<lease, seed>>
    BY <1>6 DEF SingleFlight
  <1>7. ASSUME NEW f \in Forces, ForceStart(f) \/ ForceStep(f) \/ ForceFails(f)
        PROVE  UNCHANGED <<lease, seed>>
    BY <1>7 DEF ForceStart, ForceStep, ForceTimesOut, ForceSeed, ForcePlan, ForcePreflight, ForceSave,
                ForceFails, discoveryVars
  <1>8. ASSUME NEW e \in Events, Revise(e) \/ Withdraw(e) PROVE UNCHANGED <<lease, seed>>
    BY <1>8 DEF Revise, Withdraw
  <1>9. ASSUME NEW c \in Cells, TimePasses(c) PROVE UNCHANGED <<lease, seed>>
    BY <1>9 DEF TimePasses, FallDue
  <1>10. ASSUME OtherRead \/ OtherSave PROVE UNCHANGED <<lease, seed>>
    BY <1>10 DEF OtherRead, OtherSave
  <1>11. CASE UNCHANGED vars
    BY <1>6, <1>11 DEF vars, discoveryVars
  <1>12. CASE Next
    BY <1>1, <1>2, <1>3, <1>4, <1>5, <1>6, <1>7, <1>8, <1>9, <1>10, <1>12 DEF Next, LiveSeed
  <1> QED
    BY <1>11, <1>12

\* The providers are asked by one live seed at a time, whoever dies, fails or takes
\* longer than its lease.
THEOREM FlightIsSingle == Spec => []SingleFlight
  <1>1. ForceInit => SingleFlight
    BY IdleType DEF ForceInit, DiscoveryInit, SingleFlight
  <1>2. TypeInv /\ SingleFlight /\ [Next]_vars => SingleFlight'
    BY StepFlight
  <1> QED
    BY <1>1, <1>2, InitType, StepType, PTL DEF Spec

-----------------------------------------------------------------------------
(* A proven date is backed by its occurrences *)

\* The occurrences a seed has found and has already written are recorded.
SeedWrote ==
    \A s \in Seeders : seed[s].pc = "writing" =>
        \A e \in Events : IF e \in seed[s].left THEN seed[s].found[e] # 0
                          ELSE seed[s].found[e] # 0 => history[e] # 0

\* The copy of a force is backed by itself, and what its plan leaves out of it by
\* the live table.
Backs(hist, cov) == \A c \in Cells : cov[c].status = "VERIFIED" => \A e \in cov[c].listed : hist[e] # 0

CopyBacked ==
    \A f \in Forces :
        /\ force[f].stage # None => Backs(force[f].stage.history, force[f].stage.coverage)
        /\ force[f].pc \in {"planned", "saving"} =>
             \A e \in Events : IF e \in force[f].events THEN force[f].stage.history[e] # 0
                               ELSE force[f].stage.history[e] # 0 => history[e] # 0

BackedInv == VerifiedIsBacked /\ SeedWrote /\ CopyBacked

\* What is recorded once is recorded for good.
Grows == \A e \in Events : history[e] # 0 => history'[e] # 0

\* A row of the ledger whose proof did not change stays backed as the table grows.
LEMMA GrowsBacks ==
    ASSUME TypeInv, VerifiedIsBacked, Grows,
           \A c \in Cells :
             \/ coverage'[c].status = coverage[c].status /\ coverage'[c].listed = coverage[c].listed
             \/ coverage'[c].status # "VERIFIED"
             \/ \A e \in coverage'[c].listed : history'[e] # 0
    PROVE  VerifiedIsBacked'
  <1>1. \A c \in Cells : coverage[c].listed \subseteq Events
    BY DEF TypeInv, DiscoveryOK, CoverageRow
  <1> QED
    BY <1>1 DEF VerifiedIsBacked, Grows

\* No step takes a recorded occurrence away: seeds and forces write what they found.
LEMMA StepGrows ==
    ASSUME TypeInv, BackedInv, [Next]_vars
    PROVE  Grows
  <1>0. DiscoveryOK
    BY DEF TypeInv
  <1>1. ASSUME NEW s \in Seeders, WriteEvent(s) PROVE Grows
    <2>1. PICK e \in seed[s].left : history' = [history EXCEPT ![e] = seed[s].found[e]]
      BY <1>1 DEF WriteEvent
    <2>2. e \in Events /\ seed[s].found[e] # 0
      BY <1>0, <1>1 DEF WriteEvent, BackedInv, SeedWrote, DiscoveryOK, SeedState
    <2> QED
      BY <1>0, <2>1, <2>2 DEF Grows, DiscoveryOK
  <1>2. ASSUME NEW f \in Forces, ForceSave(f) PROVE Grows
    BY <1>2 DEF ForceSave, BackedInv, CopyBacked, Grows
  <1>3. CASE UNCHANGED history
    BY <1>3 DEF Grows
  <1>4. ASSUME NEW s \in Seeders, LiveSeed(s) \/ SeedFails(s) \/ SeedDies(s), ~ WriteEvent(s)
        PROVE  UNCHANGED history
    BY <1>4 DEF LiveSeed, SeedStart, SeedStep, SeedLook, AskTarget, AskedAll, RecordUnavailable, RecordDay,
                Rematerialize, SeedPreflight, SeedSave, SeedClose, SeedFails, SeedDies
  <1>5. ASSUME NEW f \in Forces, ForceStart(f) \/ ForceStep(f) \/ ForceFails(f), ~ ForceSave(f)
        PROVE  UNCHANGED history
    BY <1>5 DEF ForceStart, ForceStep, ForceTimesOut, ForceSeed, ForcePlan, ForcePreflight, ForceFails,
                discoveryVars
  <1>6. ASSUME NEW e \in Events, Revise(e) \/ Withdraw(e) PROVE UNCHANGED history
    BY <1>6 DEF Revise, Withdraw
  <1>7. ASSUME NEW c \in Cells, TimePasses(c) PROVE UNCHANGED history
    BY <1>7 DEF TimePasses, FallDue
  <1>8. ASSUME BackoffEnds \/ LeaseLapses \/ OtherRead \/ OtherSave PROVE UNCHANGED history
    BY <1>8 DEF BackoffEnds, LeaseLapses, OtherRead, OtherSave
  <1>9. CASE UNCHANGED vars
    BY <1>3, <1>9 DEF vars, discoveryVars
  <1>10. CASE Next
    BY <1>1, <1>2, <1>3, <1>4, <1>5, <1>6, <1>7, <1>8, <1>10 DEF Next
  <1> QED
    BY <1>9, <1>10

\* A seed finds what it is about to write, and records a date after all of it.
LEMMA SeedWrites ==
    ASSUME TypeInv, BackedInv, Grows, NEW s \in Seeders, LiveSeed(s) \/ SeedFails(s) \/ SeedDies(s)
    PROVE  SeedWrote'
  <1>0. DiscoveryOK /\ seed[s] \in SeedState
    BY DEF TypeInv, DiscoveryOK
  <1>1. \A q \in Seeders \ {s} : seed'[q] = seed[q]
    <2>1. CASE SeedStart(s) \/ SeedClose(s) \/ SeedDies(s)
      BY <1>0, <2>1 DEF SeedStart, SeedClose, SeedDies, DiscoveryOK
    <2> QED
      BY <1>0, <2>1, SeedKeeps DEF LiveSeed, SeedStep
  <1> SUFFICES ASSUME seed'[s].pc = "writing"
               PROVE  \A e \in Events : IF e \in seed'[s].left THEN seed'[s].found[e] # 0
                                        ELSE seed'[s].found[e] # 0 => history'[e] # 0
    BY <1>1 DEF BackedInv, SeedWrote, Grows
  <1>2. CASE AskedAll(s)
    <2>1. seed'[s].left = Found(s) /\ seed'[s].found = seed[s].found
      BY <1>0, <1>2 DEF AskedAll, DiscoveryOK, SeedState
    <2> QED
      BY <2>1 DEF Found
  <1>3. CASE WriteEvent(s)
    <2>1. PICK e \in seed[s].left : /\ history' = [history EXCEPT ![e] = seed[s].found[e]]
                                    /\ seed' = [seed EXCEPT ![s].left = @ \ {e}]
      BY <1>3 DEF WriteEvent
    <2>2. seed'[s].left = seed[s].left \ {e} /\ seed'[s].found = seed[s].found /\ e \in Events
      BY <1>0, <2>1 DEF DiscoveryOK, SeedState
    <2>3. seed[s].pc = "writing"
      BY <1>3 DEF WriteEvent
    <2>4. history'[e] = seed[s].found[e]
      BY <1>0, <2>1, <2>2 DEF DiscoveryOK
    <2> QED
      BY <2>2, <2>3, <2>4 DEF BackedInv, SeedWrote, Grows
  <1>4. CASE RecordDay(s)
    <2>1. PICK c : seed' = [seed EXCEPT ![s] = [seed[s] EXCEPT !.ask = @ \ {c},
                                                  !.pc = IF seed[s].ask = {c} THEN "reading" ELSE @]]
      BY <1>4 DEF RecordDay
    <2>2. seed'[s].left = seed[s].left /\ seed'[s].found = seed[s].found /\ seed[s].pc = "writing"
      BY <1>0, <1>4, <2>1 DEF RecordDay, DiscoveryOK, SeedState
    <2> QED
      BY <2>2 DEF BackedInv, SeedWrote, Grows
  <1>5. ASSUME LiveSeed(s) \/ SeedFails(s) \/ SeedDies(s), ~ AskedAll(s), ~ WriteEvent(s), ~ RecordDay(s)
        PROVE  seed'[s].pc # "writing"
    <2>1. CASE SeedStart(s)
      BY <1>0, <2>1, IdleType DEF SeedStart, DiscoveryOK, SeedState
    <2>2. CASE SeedLook(s)
      BY <1>0, <2>2, ClosingType DEF SeedLook, DiscoveryOK, SeedState
    <2>3. CASE AskTarget(s)
      BY <1>0, <2>3, AskMoves DEF DiscoveryOK
    <2>4. CASE RecordUnavailable(s)
      <3>1. PICK c : seed' = [seed EXCEPT ![s] = IF seed[s].ask = {c} THEN Closing(s, TRUE)
                                                 ELSE [seed[s] EXCEPT !.ask = @ \ {c}]]
        BY <2>4 DEF RecordUnavailable
      <3> DEFINE r == [seed[s] EXCEPT !.ask = @ \ {c}]
      <3>2. seed' = [seed EXCEPT ![s] = Closing(s, TRUE)] \/ seed' = [seed EXCEPT ![s] = r]
        BY <3>1
      <3>3. r.pc = "unavailable"
        BY <1>0, <2>4 DEF RecordUnavailable, DiscoveryOK, SeedState
      <3> HIDE DEF r
      <3> QED
        BY <1>0, <3>2, <3>3, ClosingType DEF DiscoveryOK
    <2>5. CASE Rematerialize(s)
      <3> DEFINE r == [IdleSeed EXCEPT !.pc = "preparing", !.asked = seed[s].asked,
                         !.view = Discovered(s), !.outlived = seed[s].outlived]
      <3>1. seed' = [seed EXCEPT ![s] = r] \/ seed' = [seed EXCEPT ![s] = Closing(s, FALSE)]
        BY <2>5 DEF Rematerialize
      <3>2. r.pc = "preparing"
        BY DEF IdleSeed
      <3> HIDE DEF r
      <3> QED
        BY <1>0, <3>1, <3>2, ClosingType DEF DiscoveryOK
    <2>6. CASE SeedPreflight(s)
      BY <1>0, <2>6 DEF SeedPreflight, DiscoveryOK, SeedState
    <2>7. CASE SeedSave(s)
      BY <1>0, <2>7, ClosingType DEF SeedSave, DiscoveryOK, SeedState
    <2>8. CASE SeedFails(s)
      BY <1>0, <2>8, ClosingType DEF SeedFails, DiscoveryOK, SeedState
    <2>9. CASE SeedClose(s) \/ SeedDies(s)
      BY <1>0, <2>9, IdleType DEF SeedClose, SeedDies, DiscoveryOK
    <2> QED
      BY <1>5, <2>1, <2>2, <2>3, <2>4, <2>5, <2>6, <2>7, <2>8, <2>9 DEF LiveSeed, SeedStep
  <1> QED
    BY <1>2, <1>3, <1>4, <1>5

\* The steps that do not touch what the seeds know keep it as the table grows.
LEMMA SeedsRest ==
    ASSUME SeedWrote, Grows, \A s \in Seeders : /\ seed'[s].pc = seed[s].pc
                                                /\ seed'[s].left = seed[s].left
                                                /\ seed'[s].found = seed[s].found
    PROVE  SeedWrote'
  BY DEF SeedWrote, Grows

\* Likewise for the forces.
LEMMA CopiesRest ==
    ASSUME CopyBacked, Grows, UNCHANGED force
    PROVE  CopyBacked'
  BY DEF CopyBacked, Grows

\* A seed keeps the ledger backed: it records a date when all it found is written.
LEMMA SeedBacks ==
    ASSUME TypeInv, BackedInv, Grows, NEW s \in Seeders, LiveSeed(s) \/ SeedFails(s) \/ SeedDies(s)
    PROVE  VerifiedIsBacked'
  <1>0. DiscoveryOK
    BY DEF TypeInv
  <1>1. CASE RecordDay(s)
    <2>1. PICK c : coverage' = [coverage EXCEPT ![c] = Recorded(c, seed[s].found, seed[s].proven)]
      BY <1>1 DEF RecordDay
    <2>2. \A e \in Recorded(c, seed[s].found, seed[s].proven).listed : e \in Events /\ seed[s].found[e] # 0
      BY DEF Recorded
    <2>3. seed[s].pc = "writing" /\ seed[s].left = {} /\ UNCHANGED history
      BY <1>1 DEF RecordDay, Written
    <2>4. \A e \in Recorded(c, seed[s].found, seed[s].proven).listed : history'[e] # 0
      BY <2>2, <2>3 DEF BackedInv, SeedWrote
    <2>5. \A b \in Cells : coverage'[b] = coverage[b] \/ \A e \in coverage'[b].listed : history'[e] # 0
      BY <1>0, <2>1, <2>4 DEF DiscoveryOK
    <2> QED
      BY <2>5, GrowsBacks DEF BackedInv
  <1>2. CASE RecordUnavailable(s)
    <2>1. PICK c : coverage' = [coverage EXCEPT ![c] = Unavailable]
      BY <1>2 DEF RecordUnavailable
    <2>2. \A b \in Cells : coverage'[b] = coverage[b] \/ coverage'[b].status # "VERIFIED"
      BY <1>0, <2>1 DEF DiscoveryOK, Unavailable
    <2> QED
      BY <2>2, GrowsBacks DEF BackedInv
  <1>3. ASSUME ~ RecordDay(s), ~ RecordUnavailable(s) PROVE UNCHANGED coverage
    BY <1>3 DEF LiveSeed, SeedStart, SeedStep, SeedLook, AskTarget, AskedAll, WriteEvent,
                Rematerialize, SeedPreflight, SeedSave, SeedClose, SeedFails, SeedDies
  <1>4. CASE UNCHANGED coverage
    BY <1>4, GrowsBacks DEF BackedInv
  <1> QED
    BY <1>1, <1>2, <1>3, <1>4

\* A force publishes rows of a copy that is backed, and with them all that the live
\* table lacks.
LEMMA ForceSaveBacks ==
    ASSUME TypeInv, BackedInv, Grows, NEW f \in Forces, ForceSave(f)
    PROVE  VerifiedIsBacked'
  <1> DEFINE stage == force[f].stage
  <1>0. DiscoveryOK
    BY DEF TypeInv
  <1>1. stage \in Stage /\ stage # None /\ force[f].pc = "saving"
    BY StageKnown DEF TypeInv, ForceSave
  <1>2. CASE f \notin preflight
    BY <1>2, GrowsBacks DEF ForceSave, BackedInv
  <1>3. CASE f \in preflight
    <2>1. \A c \in Cells : coverage'[c] = coverage[c] \/ coverage'[c] = stage.coverage[c]
      BY <1>0, <1>3 DEF ForceSave, DiscoveryOK
    <2>2. \A e \in Events : stage.history[e] # 0 => history'[e] # 0
      BY <1>0, <1>1, <1>3 DEF ForceSave, BackedInv, CopyBacked, DiscoveryOK
    <2>3. \A c \in Cells : /\ stage.coverage[c].listed \subseteq Events
                           /\ stage.coverage[c].status = "VERIFIED" =>
                                \A e \in stage.coverage[c].listed : stage.history[e] # 0
      BY <1>1 DEF Stage, CoverageRow, BackedInv, CopyBacked, Backs
    <2>4. \A c \in Cells : \/ coverage'[c] = coverage[c]
                           \/ coverage'[c].status # "VERIFIED"
                           \/ \A e \in coverage'[c].listed : history'[e] # 0
      BY <2>1, <2>2, <2>3
    <2> QED
      BY <2>4, GrowsBacks DEF BackedInv
  <1> QED
    BY <1>2, <1>3

\* The copy of a force is backed when it is taken, and after its seed; the plan has
\* every occurrence of the copy that the live table lacks.
LEMMA ForceCopies ==
    ASSUME TypeInv, BackedInv, Grows, NEW f \in Forces, ForceStart(f) \/ ForceStep(f) \/ ForceFails(f)
    PROVE  CopyBacked'
  <1>0. DiscoveryOK /\ ForceOK /\ force[f] \in ForceState
    BY DEF TypeInv, ForceOK
  <1>1. \A g \in Forces \ {f} : force'[g] = force[g]
    <2>1. CASE ForceStart(f)
      BY <1>0, <2>1 DEF ForceOK, ForceStart
    <2>2. CASE ForceStep(f)
      <3>1. CASE ForceTimesOut(f) \/ ForcePlan(f) \/ ForceSave(f)
        BY <1>0, <3>1 DEF ForceOK, ForceTimesOut, ForcePlan, ForceSave
      <3>2. CASE ForceSeed(f)
        BY <1>0, <3>2 DEF ForceOK, ForceSeed
      <3>3. CASE ForcePreflight(f)
        BY <1>0, <3>3 DEF ForceOK, ForcePreflight
      <3> QED
        BY <2>2, <3>1, <3>2, <3>3 DEF ForceStep
    <2>3. CASE ForceFails(f)
      BY <1>0, <2>3 DEF ForceOK, ForceFails
    <2> QED
      BY <2>1, <2>2, <2>3
  <1> SUFFICES /\ force'[f].stage # None => Backs(force'[f].stage.history, force'[f].stage.coverage)
               /\ force'[f].pc \in {"planned", "saving"} =>
                    \A e \in Events : IF e \in force'[f].events THEN force'[f].stage.history[e] # 0
                                      ELSE force'[f].stage.history[e] # 0 => history'[e] # 0
    BY <1>1 DEF BackedInv, CopyBacked, Grows
  <1>2. CASE ForceStart(f)
    <2>1. /\ force'[f].stage.history = history /\ force'[f].stage.coverage = coverage
          /\ force'[f].pc = "copied"
      BY <1>0, <1>2 DEF ForceStart, ForceOK, Waiting
    <2> QED
      BY <2>1 DEF BackedInv, VerifiedIsBacked, Backs
  <1>3. CASE force' = [force EXCEPT ![f] = Done]
    BY <1>0, <1>3, RequestType DEF ForceOK
  <1>4. CASE ForceSeed(f)
    <2>1. Copy(f) \in Stage /\ force[f].stage # None
      BY <1>0, <1>4, StageKnown DEF ForceSeed, Copy
    <2>2. \/ force'[f].stage = Copy(f) /\ force'[f].pc = "seeded"
          \/ \E failed, proven : force'[f] = Seeded(f, failed, proven)
      BY <1>0, <1>4, ForceSeedCases DEF ForceOK, ForceState, Copy
    <2>3. Backs(Copy(f).history, Copy(f).coverage)
      BY <2>1 DEF BackedInv, CopyBacked, Copy
    <2>4. \A failed, proven : Backs(CopyHistory(f, failed), CopyLedger(f, failed, proven))
      <3> SUFFICES ASSUME NEW failed, NEW proven, NEW c \in Cells,
                          CopyLedger(f, failed, proven)[c].status = "VERIFIED",
                          NEW e \in CopyLedger(f, failed, proven)[c].listed
                   PROVE  CopyHistory(f, failed)[e] # 0
        BY DEF Backs
      <3>1. CASE c \notin CopyDue(f)
        <4>1. e \in Copy(f).coverage[c].listed /\ Copy(f).coverage[c].status = "VERIFIED"
          BY <3>1 DEF CopyLedger
        <4>2. e \in Events
          BY <2>1, <4>1 DEF Stage, CoverageRow
        <4> QED
          BY <2>3, <4>1, <4>2 DEF Backs, CopyHistory
      <3>2. CASE c \in CopyDue(f)
        BY <3>2 DEF Unavailable, Recorded, CopyLedger, CopyHistory
      <3> QED
        BY <3>1, <3>2
    <2> QED
      BY <2>1, <2>2, <2>3, <2>4, SeededType
  <1>5. CASE ForcePlan(f)
    <2> DEFINE stage == force[f].stage
               E == {e \in Events : stage.history[e] \notin {0, history[e]}}
    <2>1. stage \in Stage /\ stage # None
      BY <1>0, <1>5, StageKnown DEF ForcePlan
    <2>2. \E C : force' = [force EXCEPT ![f] = [force[f] EXCEPT !.pc = "planned", !.events = E,
                                                               !.cells = C]]
      BY <1>5 DEF ForcePlan
    <2> HIDE DEF E
    <2>3. force'[f].stage = stage /\ force'[f].events = E
      BY <1>0, <2>2 DEF ForceOK, ForceState
    <2>4. UNCHANGED history
      BY <1>5 DEF ForcePlan, discoveryVars
    <2> QED
      BY <2>1, <2>3, <2>4 DEF E, BackedInv, CopyBacked
  <1>6. CASE ForcePreflight(f) /\ ~ force' = [force EXCEPT ![f] = Done]
    <2>1. /\ force'[f].stage = force[f].stage /\ force'[f].events = force[f].events
          /\ force[f].pc = "planned" /\ UNCHANGED history
      BY <1>0, <1>6 DEF ForcePreflight, ForceOK, ForceState
    <2> QED
      BY <2>1 DEF BackedInv, CopyBacked
  <1> QED
    BY <1>2, <1>3, <1>4, <1>5, <1>6 DEF ForceStep, ForceTimesOut, ForceSave, ForceFails

\* The clock changes no proof, in the ledger or in a copy of it.
LEMMA TimeBacks ==
    ASSUME TypeInv, BackedInv, NEW c \in Cells, TimePasses(c)
    PROVE  BackedInv'
  <1>0. DiscoveryOK /\ ForceOK /\ UNCHANGED <<history, seed>>
    BY DEF TypeInv, TimePasses, FallDue
  <1>1. Grows
    BY <1>0 DEF Grows
  <1>2. \A b \in Cells : /\ coverage'[b].status = coverage[b].status
                         /\ coverage'[b].listed = coverage[b].listed
    <2>1. \A b \in Cells : coverage[b] \in CoverageRow
      BY <1>0 DEF DiscoveryOK
    <2> QED
      BY <1>0, <2>1 DEF TimePasses, FallDue, DiscoveryOK, CoverageRow
  <1>3. VerifiedIsBacked'
    BY <1>1, <1>2, GrowsBacks DEF BackedInv
  <1>4. SeedWrote'
    BY <1>0, <1>1, SeedsRest DEF BackedInv
  <1>5. ASSUME NEW f \in Forces
        PROVE  /\ force'[f].pc = force[f].pc /\ force'[f].events = force[f].events
               /\ (force'[f].stage # None) = (force[f].stage # None)
               /\ force[f].stage # None =>
                    /\ force'[f].stage.history = force[f].stage.history
                    /\ \A b \in Cells : \/ force'[f].stage.coverage[b] = force[f].stage.coverage[b]
                                        \/ /\ force'[f].stage.coverage[b] = coverage'[b]
                                           /\ force[f].stage.coverage[b] = coverage[b]
    <2> DEFINE stage == force[f].stage
    <2>1. force[f] \in ForceState
      BY <1>0 DEF ForceOK
    <2>2. CASE stage = None \/ stage.coverage[c] # coverage[c]
      BY <2>2 DEF TimePasses
    <2>3. CASE stage # None /\ stage.coverage[c] = coverage[c]
      <3>1. stage \in Stage
        BY <1>0, <2>3, StageKnown
      <3>2. force'[f] = [force[f] EXCEPT !.stage.coverage[c] = coverage'[c]]
        BY <2>3 DEF TimePasses
      <3>3. force'[f] = [force[f] EXCEPT !.stage =
                           [stage EXCEPT !.coverage = [stage.coverage EXCEPT ![c] = coverage'[c]]]]
        BY <2>1, <3>1, <3>2 DEF ForceState, Stage
      <3>4. TypeInv'
        BY TimeType
      <3>5. (force'[f].pc \in {"waiting", "done"}) = (force'[f].stage = None)
        BY <3>4 DEF TypeInv, ForceOK
      <3>6. force'[f].pc = force[f].pc /\ force'[f].events = force[f].events
        BY <2>1, <3>3 DEF ForceState
      <3>7. force'[f].stage = [stage EXCEPT !.coverage = [stage.coverage EXCEPT ![c] = coverage'[c]]]
        BY <2>1, <3>3 DEF ForceState
      <3>8. /\ force'[f].stage.history = stage.history
            /\ force'[f].stage.coverage = [stage.coverage EXCEPT ![c] = coverage'[c]]
        BY <3>1, <3>7 DEF Stage
      <3>9. \A b \in Cells : IF b = c THEN force'[f].stage.coverage[b] = coverage'[b]
                                      ELSE force'[f].stage.coverage[b] = stage.coverage[b]
        BY <3>1, <3>8 DEF Stage
      <3>10. (force[f].pc \in {"waiting", "done"}) = (stage = None)
        BY <1>0 DEF ForceOK
      <3> QED
        BY <2>3, <3>5, <3>6, <3>8, <3>9, <3>10
    <2> QED
      BY <2>2, <2>3
  <1>6. CopyBacked'
    <2>1. ASSUME NEW f \in Forces, force'[f].stage # None, NEW b \in Cells
          PROVE  /\ force'[f].stage.coverage[b].status = force[f].stage.coverage[b].status
                 /\ force'[f].stage.coverage[b].listed = force[f].stage.coverage[b].listed
      BY <1>2, <1>5, <2>1
    <2>2. ASSUME NEW f \in Forces, force'[f].stage # None
          PROVE  Backs(force'[f].stage.history, force'[f].stage.coverage)
      <3>1. Backs(force[f].stage.history, force[f].stage.coverage)
        BY <1>5, <2>2 DEF BackedInv, CopyBacked
      <3> QED
        BY <1>5, <2>1, <2>2, <3>1 DEF Backs
    <2>3. ASSUME NEW f \in Forces, force'[f].pc \in {"planned", "saving"}
          PROVE  \A e \in Events : IF e \in force'[f].events THEN force'[f].stage.history[e] # 0
                                   ELSE force'[f].stage.history[e] # 0 => history'[e] # 0
      <3>1. force[f].stage # None
        BY <1>0, <1>5, <2>3 DEF ForceOK
      <3> QED
        BY <1>0, <1>5, <2>3, <3>1 DEF BackedInv, CopyBacked
    <2> QED
      BY <2>2, <2>3 DEF CopyBacked
  <1> QED
    BY <1>3, <1>4, <1>6 DEF BackedInv

\* Every step preserves the invariant of the proofs.
LEMMA StepBacked ==
    ASSUME TypeInv, BackedInv, [Next]_vars
    PROVE  BackedInv'
  <1>0. Grows
    BY StepGrows
  <1>1. ASSUME NEW f \in Forces, ForceStart(f) \/ ForceStep(f) \/ ForceFails(f) PROVE BackedInv'
    <2>1. UNCHANGED seed
      BY <1>1 DEF ForceStart, ForceStep, ForceTimesOut, ForceSeed, ForcePlan, ForcePreflight, ForceSave,
                  ForceFails, discoveryVars
    <2>2. ForceSave(f) \/ UNCHANGED coverage
      BY <1>1 DEF ForceStart, ForceStep, ForceTimesOut, ForceSeed, ForcePlan, ForcePreflight,
                  ForceFails, discoveryVars
    <2>3. VerifiedIsBacked'
      BY <1>0, <2>2, ForceSaveBacks, GrowsBacks DEF BackedInv
    <2> QED
      BY <1>0, <1>1, <2>1, <2>3, SeedsRest, ForceCopies DEF BackedInv
  <1>2. ASSUME NEW s \in Seeders, LiveSeed(s) \/ SeedFails(s) \/ SeedDies(s), UNCHANGED force
        PROVE  BackedInv'
    BY <1>0, <1>2, SeedBacks, SeedWrites, CopiesRest DEF BackedInv
  <1>3. CASE UNCHANGED <<history, coverage, seed, force>>
    BY <1>0, <1>3, GrowsBacks, SeedsRest, CopiesRest DEF BackedInv
  <1>4. CASE LeaseLapses /\ UNCHANGED force
    <2>1. DiscoveryOK /\ lease.owner \in Seeders
      BY <1>4 DEF TypeInv, DiscoveryOK, LeaseLapses, Leases
    <2>2. seed[lease.owner] \in SeedState
      BY <2>1 DEF DiscoveryOK
    <2>3. \A s \in Seeders : /\ seed'[s].pc = seed[s].pc
                             /\ seed'[s].left = seed[s].left
                             /\ seed'[s].found = seed[s].found
      BY <1>4, <2>1, <2>2 DEF LeaseLapses, DiscoveryOK, SeedState
    <2>4. UNCHANGED coverage
      BY <1>4 DEF LeaseLapses
    <2> QED
      BY <1>0, <1>4, <2>3, <2>4, GrowsBacks, SeedsRest, CopiesRest DEF BackedInv
  <1>5. ASSUME NEW e \in Events, Revise(e) \/ Withdraw(e), UNCHANGED force PROVE BackedInv'
    BY <1>3, <1>5 DEF Revise, Withdraw
  <1>6. ASSUME BackoffEnds \/ OtherRead \/ OtherSave, UNCHANGED force PROVE BackedInv'
    BY <1>3, <1>6 DEF BackoffEnds, OtherRead, OtherSave
  <1>7. CASE UNCHANGED vars
    BY <1>3, <1>7 DEF vars, discoveryVars
  <1>8. CASE Next
    BY <1>1, <1>2, <1>4, <1>5, <1>6, <1>8, TimeBacks DEF Next
  <1> QED
    BY <1>7, <1>8

\* A date is proven only with all its occurrences recorded, at every interleaving of
\* seeds that outlive their leases and forces that publish what they copied before.
THEOREM ProofIsBacked == Spec => []VerifiedIsBacked
  <1>1. ForceInit => BackedInv
    BY IdleType DEF ForceInit, DiscoveryInit, Waiting, BackedInv, VerifiedIsBacked, SeedWrote, CopyBacked
  <1>2. TypeInv /\ BackedInv /\ [Next]_vars => BackedInv'
    BY StepBacked
  <1>3. BackedInv => VerifiedIsBacked
    BY DEF BackedInv
  <1> QED
    BY <1>1, <1>2, <1>3, InitType, StepType, PTL DEF Spec
=============================================================================
