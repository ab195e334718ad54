---------------------------- MODULE SyncDelivery ----------------------------
(***************************************************************************)
(* Notifications of committed snapshots, delivery attempts, ACKs and the   *)
(* consumer state that incremental news deliveries are based on.           *)
(*                                                                         *)
(* The producer's operations are the transactions of the sync service.     *)
(* The notifier that calls record_delivery_attempt, and the consumer, are  *)
(* not part of the source: the consumer follows                            *)
(* docs/ai-trader-market-context-sync-handoff.md.  Notifications, answers  *)
(* and ACKs may be lost, repeated, delayed and reordered.                  *)
(*                                                                         *)
(* A snapshot has at most one outbox event; its revision names the event.  *)
(* Checksums, clocks and fingerprints are right; counters of the consumer  *)
(* state that nothing depends on are left out.                             *)
(***************************************************************************)
EXTENDS Naturals, FiniteSets

CONSTANTS
    Consumers,
    Sections,
    News,                 \* the section that is delivered as record deltas
    Snapshots,            \* bound: number of snapshots that are published
    Changed,              \* sections whose material changes with a snapshot
    Withheld,             \* sections that a snapshot does not offer to a plan
    Triggers,             \* snapshots saved with a trigger
    Profiles,             \* required_sections that a consumer may plan with
    MaxDeliveryAttempts,  \* MAX_DELIVERY_ATTEMPTS
    AttemptBound          \* bound: attempts recorded per target

Revisions == 1 .. Snapshots

ASSUME SectionAssumption ==
    /\ IsFiniteSet(Sections)
    /\ News \in Sections
    /\ Profiles \subseteq SUBSET Sections \ {{}}
ASSUME SnapshotAssumption ==
    /\ Snapshots \in Nat \ {0}
    /\ Changed \in [Revisions -> SUBSET Sections]
    /\ Changed[1] = Sections
    /\ Withheld \in [Revisions -> SUBSET Sections]
    /\ Triggers \subseteq Revisions
ASSUME AttemptAssumption ==
    /\ MaxDeliveryAttempts \in Nat \ {0}
    /\ AttemptBound \in Nat

VARIABLES
    revision,  \* newest committed snapshot
    target,    \* market_context_delivery_targets
    notified,  \* deliveries with a NOTIFIED row in market_context_delivery_attempts
    acks,      \* market_context_delivery_acks
    state,     \* market_context_consumer_state
    inbox,     \* notifications the consumer has stored
    copy,      \* what the consumer has committed
    ever,      \* history: newest revision of each section it ever committed
    sync       \* where the consumer is in a synchronisation

producer == <<revision, target, notified, acks, state>>
consumer == <<inbox, copy, ever, sync>>
vars == <<producer, consumer>>

-----------------------------------------------------------------------------
(* Rows *)

\* Deliveries: save_next emits an event for a trigger that changed something.
Deliveries == {r \in Triggers : Changed[r] # {}}

\* section_revision counts the snapshots that changed the section.
SectionRevision(s, r) == Cardinality({k \in 1 .. r : s \in Changed[k]})

Inventory == [Sections -> 0 .. Snapshots]

Target == [status     : {"none", "PENDING", "NOTIFIED", "DEAD_LETTER", "ACKNOWLEDGED"},
           attempts   : 0 .. AttemptBound,
           superseded : {0} \union Deliveries]   \* superseded_by_delivery_id

ConsumerState == [acked     : {0} \union Deliveries,  \* last_delivery_acknowledged
                  latest    : 0 .. Snapshots,  \* last_snapshot_revision_acknowledged
                  inventory : Inventory,       \* section_revisions
                  pending   : 0 .. Snapshots]  \* pending_delivery_count

Copy == [snapshot : 0 .. Snapshots, held : Inventory]

\* base is the acknowledged snapshot a news delta starts from, 0 for a full section.
Sync == [pc     : {"idle", "selective", "full", "fetched"},
         target : 0 .. Snapshots,
         fetch  : SUBSET Sections,
         base   : 0 .. Snapshots]

Nothing == [s \in Sections |-> 0]
EmptyCopy == [snapshot |-> 0, held |-> Nothing]
Resting == [pc |-> "idle", target |-> 0, fetch |-> {}, base |-> 0]

Larger(a, b) == IF a > b THEN a ELSE b

\* pending_delivery_count as it is computed at the end of both transactions.
Outstanding(rows) ==
    Cardinality({d \in Deliveries : rows[d].status \in {"PENDING", "NOTIFIED"}
                                    /\ rows[d].superseded = 0})

Init ==
    /\ revision = 0
    /\ target = [c \in Consumers |-> [d \in Deliveries |->
                   [status |-> "none", attempts |-> 0, superseded |-> 0]]]
    /\ notified = [c \in Consumers |-> {}]
    /\ acks = [c \in Consumers |-> {}]
    /\ state = [c \in Consumers |->
                  [acked |-> 0, latest |-> 0, inventory |-> Nothing, pending |-> 0]]
    /\ inbox = [c \in Consumers |-> {}]
    /\ copy = [c \in Consumers |-> EmptyCopy]
    /\ ever = [c \in Consumers |-> Nothing]
    /\ sync = [c \in Consumers |-> Resting]

-----------------------------------------------------------------------------
(* Producer *)

\* The transaction of save_next: snapshot, section rows and outbox event.
Publish ==
    /\ revision < Snapshots
    /\ revision' = revision + 1
    /\ UNCHANGED <<target, notified, acks, state, consumer>>

\* Mutant of Attempted: one retry more than the limit allows.
AttemptedLate(row, outcome) ==
    [row EXCEPT !.attempts = row.attempts + 1,
                !.status = IF outcome = "NOTIFIED" THEN "NOTIFIED"
                           ELSE IF row.attempts >= MaxDeliveryAttempts THEN "DEAD_LETTER"
                           ELSE "PENDING"]

\* The target row after attempt n with this outcome.
Attempted(row, outcome) ==
    LET n == row.attempts + 1
    IN  [row EXCEPT !.attempts = n,
                    !.status = IF outcome = "NOTIFIED" THEN "NOTIFIED"
                               ELSE IF n >= MaxDeliveryAttempts THEN "DEAD_LETTER"
                               ELSE "PENDING"]

\* An attempt for d takes over from what is outstanding of older snapshots.
Superseding(rows, d) ==
    [x \in Deliveries |->
       IF x < d /\ rows[x].status \in {"PENDING", "NOTIFIED"}
       THEN [rows[x] EXCEPT !.superseded = d]
       ELSE rows[x]]

\* Mutant of RecordAttempt: an acknowledged target is notified again.
RecordAttemptAgain(c, d, outcome) ==
    /\ d <= revision
    /\ target[c][d].attempts < AttemptBound
    /\ outcome = "NOTIFIED" => d \in inbox[c]
    /\ LET rows == Superseding([target[c] EXCEPT ![d] = Attempted(@, outcome)], d)
       IN  /\ target' = [target EXCEPT ![c] = rows]
           /\ state' = [state EXCEPT ![c].pending = Outstanding(rows)]
    /\ notified' = IF outcome = "NOTIFIED" THEN [notified EXCEPT ![c] = @ \union {d}]
                                           ELSE notified
    /\ UNCHANGED <<revision, acks, consumer>>

\* Mutant of RecordAttempt: older deliveries are superseded after counting.
RecordAttemptCountsFirst(c, d, outcome) ==
    /\ d <= revision
    /\ target[c][d].status # "ACKNOWLEDGED"
    /\ target[c][d].attempts < AttemptBound
    /\ outcome = "NOTIFIED" => d \in inbox[c]
    /\ LET rows == [target[c] EXCEPT ![d] = Attempted(@, outcome)]
       IN  /\ target' = [target EXCEPT ![c] = Superseding(rows, d)]
           /\ state' = [state EXCEPT ![c].pending = Outstanding(rows)]
    /\ notified' = IF outcome = "NOTIFIED" THEN [notified EXCEPT ![c] = @ \union {d}]
                                           ELSE notified
    /\ UNCHANGED <<revision, acks, consumer>>

\* record_delivery_attempt.  The notifier reports NOTIFIED after the consumer
\* took the notification; it may report FAILED although it did.
RecordAttempt(c, d, outcome) ==
    /\ d <= revision
    /\ target[c][d].status # "ACKNOWLEDGED"
    /\ target[c][d].attempts < AttemptBound
    /\ outcome = "NOTIFIED" => d \in inbox[c]
    /\ LET rows == Superseding([target[c] EXCEPT ![d] = Attempted(@, outcome)], d)
       IN  /\ target' = [target EXCEPT ![c] = rows]
           /\ state' = [state EXCEPT ![c].pending = Outstanding(rows)]
    /\ notified' = IF outcome = "NOTIFIED" THEN [notified EXCEPT ![c] = @ \union {d}]
                                           ELSE notified
    /\ UNCHANGED <<revision, acks, consumer>>

\* The sections that d names, merged into what was acknowledged before.
Merged(inventory, d) ==
    [s \in Sections |-> IF s \in Changed[d] THEN Larger(inventory[s], SectionRevision(s, d))
                                            ELSE inventory[s]]

\* Mutant of Acknowledged: the last ACK wins.
AcknowledgedLast(row, d, rows) ==
    [acked |-> d, latest |-> d, pending |-> Outstanding(rows),
     inventory |-> [s \in Sections |-> IF s \in Changed[d] THEN SectionRevision(s, d)
                                                           ELSE row.inventory[s]]]

\* The upsert of market_context_consumer_state; a late ACK changes pending only.
Acknowledged(row, d, rows) ==
    IF row.latest <= d
    THEN [acked |-> d, latest |-> d, pending |-> Outstanding(rows),
          inventory |-> Merged(row.inventory, d)]
    ELSE [row EXCEPT !.pending = Outstanding(rows)]

\* Mutant of AcceptAck: whatever was attempted may be acknowledged.
AcceptAckPending(c, d) ==
    /\ target[c][d].status \in {"PENDING", "NOTIFIED", "DEAD_LETTER"}
    /\ acks' = [acks EXCEPT ![c] = @ \union {d}]
    /\ LET rows == [target[c] EXCEPT ![d].status = "ACKNOWLEDGED"]
       IN  /\ target' = [target EXCEPT ![c] = rows]
           /\ state' = [state EXCEPT ![c] = Acknowledged(@, d, rows)]
    /\ UNCHANGED <<revision, notified>>

\* acknowledge: a target that was never attempted, or waits for a retry, is
\* refused, and an identical replay changes nothing.
AcceptAck(c, d) ==
    /\ target[c][d].status \in {"NOTIFIED", "DEAD_LETTER"}
    /\ acks' = [acks EXCEPT ![c] = @ \union {d}]
    /\ LET rows == [target[c] EXCEPT ![d].status = "ACKNOWLEDGED"]
       IN  /\ target' = [target EXCEPT ![c] = rows]
           /\ state' = [state EXCEPT ![c] = Acknowledged(@, d, rows)]
    /\ UNCHANGED <<revision, notified>>

\* Mutant of NewsBase: what was notified counts as received.
NewsBaseNotified(c, t) ==
    LET sent == {d \in notified[c] : d <= t}
    IN  IF sent = {} THEN 0 ELSE CHOOSE d \in sent : \A x \in sent : x <= d

\* _news_delivery_for_consumer: the snapshot that a delta of the news of t is
\* taken from, or 0 for the full section.
NewsBase(c, t) ==
    IF /\ state[c].acked # 0
       /\ state[c].latest <= t
       /\ state[c].acked \in acks[c] /\ state[c].acked = state[c].latest
    THEN state[c].latest
    ELSE 0

-----------------------------------------------------------------------------
(* Consumer *)

\* A notification arrives, perhaps for the second time or out of order.
Receive(c, d) ==
    /\ d <= revision
    /\ inbox' = [inbox EXCEPT ![c] = @ \union {d}]
    /\ UNCHANGED <<producer, copy, ever, sync>>

\* POST /sync/plan: FULL without a local copy, else what differs at the newest
\* snapshot, without the sections that are quarantined, degraded, partial, stale
\* or unavailable there; a plan that fetches nothing (NONE) needs no download.
Plan(c, profile) ==
    /\ sync[c].pc = "idle"
    /\ revision > 0
    /\ LET differs == {s \in profile \ Withheld[revision] :
                         copy[c].held[s] # SectionRevision(s, revision)}
       IN  sync' = [sync EXCEPT ![c] =
                      [pc     |-> IF copy[c].snapshot = 0 THEN "full"
                                  ELSE IF differs = {} THEN "fetched" ELSE "selective",
                       target |-> revision,
                       fetch  |-> IF copy[c].snapshot = 0 THEN Sections ELSE differs,
                       base   |-> 0]]
    /\ UNCHANGED <<producer, inbox, copy, ever>>

\* POST /sync/sections.
Fetch(c) ==
    /\ sync[c].pc = "selective"
    /\ sync' = [sync EXCEPT ![c].pc = "fetched",
                            ![c].base = IF News \in sync[c].fetch
                                        THEN NewsBase(c, sync[c].target) ELSE 0]
    /\ UNCHANGED <<producer, inbox, copy, ever>>

\* GET /sync/full: every section of the newest snapshot.
FetchFull(c) ==
    /\ sync[c].pc = "full"
    /\ sync' = [sync EXCEPT ![c] = [pc |-> "fetched", target |-> revision,
                                    fetch |-> Sections, base |-> 0]]
    /\ UNCHANGED <<producer, inbox, copy, ever>>

\* A delta contains every record that changed since its base, so it completes
\* any copy that is not older than the base.
Applies(c) == sync[c].base # 0 => copy[c].held[News] >= SectionRevision(News, sync[c].base)

\* The local transaction; a delta that does not apply fails verification, and
\* the consumer asks for everything.
Save(c) ==
    /\ sync[c].pc = "fetched"
    /\ IF Applies(c)
       THEN LET held == [s \in Sections |-> IF s \in sync[c].fetch
                                            THEN SectionRevision(s, sync[c].target)
                                            ELSE copy[c].held[s]]
            IN  /\ copy' = [copy EXCEPT ![c] = [snapshot |-> sync[c].target, held |-> held]]
                /\ ever' = [ever EXCEPT ![c] = [s \in Sections |-> Larger(@[s], held[s])]]
                /\ sync' = [sync EXCEPT ![c] = Resting]
       ELSE /\ sync' = [sync EXCEPT ![c] = [Resting EXCEPT !.pc = "full"]]
            /\ UNCHANGED <<copy, ever>>
    /\ UNCHANGED <<producer, inbox>>

\* The consumer has committed all that delivery d names.
Persisted(c, d) ==
    /\ d \in inbox[c]
    /\ d <= copy[c].snapshot
    /\ \A s \in Changed[d] : copy[c].held[s] >= SectionRevision(s, d)

\* POST /sync/ack, after the commit and at any time later, in any order.
Ack(c, d) == Persisted(c, d) /\ AcceptAck(c, d) /\ UNCHANGED consumer

\* The local database is lost: the next plan is a full one.
LoseCopy(c) ==
    /\ copy[c].snapshot # 0
    /\ copy' = [copy EXCEPT ![c] = EmptyCopy]
    /\ sync' = [sync EXCEPT ![c] = Resting]
    /\ UNCHANGED <<producer, inbox, ever>>

Next == \/ Publish
        \/ \E c \in Consumers :
             \/ \E d \in Deliveries : \/ Receive(c, d)
                                      \/ Ack(c, d)
                                      \/ \E outcome \in {"NOTIFIED", "FAILED"} :
                                            RecordAttempt(c, d, outcome)
             \/ \E profile \in Profiles : Plan(c, profile)
             \/ Fetch(c) \/ FetchFull(c) \/ Save(c) \/ LoseCopy(c)

Spec == Init /\ [][Next]_vars

-----------------------------------------------------------------------------
(* Properties *)

\* Every row is well formed, and a row that waits for a retry has attempts
\* left before it becomes a dead letter.
TypeOK ==
    /\ revision \in 0 .. Snapshots
    /\ target \in [Consumers -> [Deliveries -> Target]]
    /\ notified \in [Consumers -> SUBSET Deliveries]
    /\ acks \in [Consumers -> SUBSET Deliveries]
    /\ state \in [Consumers -> ConsumerState]
    /\ inbox \in [Consumers -> SUBSET Deliveries]
    /\ copy \in [Consumers -> Copy]
    /\ ever \in [Consumers -> Inventory]
    /\ sync \in [Consumers -> Sync]
    /\ \A c \in Consumers, d \in Deliveries :
          target[c][d].status = "PENDING" => target[c][d].attempts < MaxDeliveryAttempts

\* The stored pending_delivery_count agrees with the target rows, whatever the
\* order of attempts, supersessions and ACKs.
PendingAgrees == \A c \in Consumers : state[c].pending = Outstanding(target[c])

\* The base of deltas is bound to an ACK: it is the newest delivery that was
\* acknowledged, and the inventory has the sections of that delivery.
AckBindingHolds ==
    \A c \in Consumers :
        /\ \A d \in acks[c] : d <= state[c].latest
        /\ state[c].latest # 0 =>
             /\ state[c].acked \in acks[c]
             /\ state[c].acked = state[c].latest
             /\ \A s \in Changed[state[c].acked] :
                   state[c].inventory[s] = SectionRevision(s, state[c].acked)

\* An acknowledged target stays acknowledged: no late attempt, successful or
\* not, reopens it.
AcknowledgedIsFinal ==
    [][\A c \in Consumers, d \in Deliveries :
          target[c][d].status = "ACKNOWLEDGED" => target'[c][d].status = "ACKNOWLEDGED"]_vars

\* The consumer state implements ConsumerInventory, also when ACKs arrive late
\* and after the consumer lost its copy: no belief regresses or is unfounded.
Believed == INSTANCE ConsumerInventory WITH
               possessed <- ever,
               known <- [c \in Consumers |-> state[c].inventory],
               latest <- [c \in Consumers |-> state[c].latest]
ImplementsInventory == Believed!Spec

\* news_record_delta: "Produce a lossless record delta".  A consumer that is
\* sent a delta holds the news it starts from, whenever its ACKs arrived.  This
\* fails for a consumer whose plans passed over the news of some snapshot, since
\* an ACK of a later one vouches for the sections of its own delivery only.
EveryDeltaApplies == \A c \in Consumers : sync[c].pc = "fetched" => Applies(c)

\* The copy has the news of the snapshot it was synchronised with.
NewsIsCurrent(c) == copy[c].held[News] = SectionRevision(News, copy[c].snapshot)

\* The same for a consumer whose last plan neither left the news out nor was
\* refused them, whatever earlier plans did, ACKs and notifications in any order
\* and copies lost in between: the delta does not start after what it holds.
DeltaIsLossless ==
    \A c \in Consumers : sync[c].pc = "fetched" /\ NewsIsCurrent(c) => Applies(c)

\* An ACK is accepted only for a delivery that was notified, or whose retries
\* are used up, the lost answer of a notification being one way to get there.
AckIsEarned ==
    \A c \in Consumers : \A d \in acks[c] :
        d \in notified[c] \/ target[c][d].attempts >= MaxDeliveryAttempts
=============================================================================
