------------------------- MODULE SyncDeliveryProofs -------------------------
(***************************************************************************)
(* Proofs about SyncDelivery for any consumers, sections and snapshots:    *)
(* types, the finality of ACKs, and that the consumer state of the         *)
(* producer implements ConsumerInventory.                                  *)
(***************************************************************************)
EXTENDS SyncDelivery, FiniteSetTheorems, TLAPS

-----------------------------------------------------------------------------
(* Operators *)

\* Section revisions, counted over the snapshots up to r, do not exceed r.
LEMMA SectionRevisionType ==
    ASSUME NEW s, NEW r \in 0 .. Snapshots
    PROVE  SectionRevision(s, r) \in 0 .. Snapshots
  <1> DEFINE S == {k \in 1 .. r : s \in Changed[k]}
  <1>0. Snapshots \in Nat /\ r \in Nat
    BY SnapshotAssumption
  <1>1. IsFiniteSet(1 .. r) /\ Cardinality(1 .. r) <= r
    BY <1>0, FS_Interval
  <1>2. IsFiniteSet(S) /\ Cardinality(S) <= Cardinality(1 .. r)
    BY <1>1, FS_Subset
  <1>3. Cardinality(S) \in Nat
    BY <1>2, FS_CardinalityType
  <1>4. Cardinality(1 .. r) \in Nat
    BY <1>1, FS_CardinalityType
  <1>5. Cardinality(S) \in 0 .. Snapshots
    <2> HIDE DEF S
    <2> QED BY <1>0, <1>1, <1>2, <1>3, <1>4
  <1> QED BY <1>5 DEF SectionRevision

LEMMA DeliveriesType ==
    Snapshots \in Nat /\ Deliveries \subseteq 1 .. Snapshots
  BY SnapshotAssumption DEF Deliveries, Revisions

\* pending_delivery_count counts deliveries.
LEMMA OutstandingType ==
    ASSUME NEW rows
    PROVE  Outstanding(rows) \in 0 .. Snapshots
  <1> DEFINE S == {d \in Deliveries : rows[d].status \in {"PENDING", "NOTIFIED"}
                                      /\ rows[d].superseded = 0}
  <1>1. Snapshots \in Nat /\ S \subseteq 1 .. Snapshots
    BY DeliveriesType
  <1> HIDE DEF S
  <1>2. IsFiniteSet(1 .. Snapshots) /\ Cardinality(1 .. Snapshots) <= Snapshots
    BY <1>1, FS_Interval
  <1>3. IsFiniteSet(S) /\ Cardinality(S) <= Cardinality(1 .. Snapshots)
    BY <1>1, <1>2, FS_Subset
  <1>4. Cardinality(S) \in Nat /\ Cardinality(1 .. Snapshots) \in Nat
    BY <1>2, <1>3, FS_CardinalityType
  <1>5. Cardinality(S) \in 0 .. Snapshots
    BY <1>1, <1>2, <1>3, <1>4
  <1> QED BY <1>5 DEF Outstanding, S

\* What TypeOK says of one target row.
TargetOK(row) == row \in Target /\ (row.status = "PENDING" => row.attempts < MaxDeliveryAttempts)

LEMMA AttemptedType ==
    ASSUME NEW row \in Target, row.attempts < AttemptBound,
           NEW outcome \in {"NOTIFIED", "FAILED"}
    PROVE  TargetOK(Attempted(row, outcome))
  <1> DEFINE n == row.attempts + 1
             status == IF outcome = "NOTIFIED" THEN "NOTIFIED"
                       ELSE IF n >= MaxDeliveryAttempts THEN "DEAD_LETTER"
                       ELSE "PENDING"
             new == [row EXCEPT !.attempts = n, !.status = status]
  <1>1. AttemptBound \in Nat /\ MaxDeliveryAttempts \in Nat
    BY AttemptAssumption
  <1>2. n \in 0 .. AttemptBound
    BY <1>1 DEF Target
  <1>3. /\ status \in {"PENDING", "NOTIFIED", "DEAD_LETTER"}
        /\ status = "PENDING" => n < MaxDeliveryAttempts
    BY <1>1, <1>2
  <1>4. new \in Target /\ new.status = status /\ new.attempts = n
    <2> HIDE DEF n, status
    <2> QED BY <1>2, <1>3 DEF Target
  <1>5. new = Attempted(row, outcome)
    BY DEF Attempted
  <1> HIDE DEF new, n, status
  <1> QED BY <1>3, <1>4, <1>5 DEF TargetOK

LEMMA SupersedingType ==
    ASSUME NEW rows \in [Deliveries -> Target],
           \A x \in Deliveries : TargetOK(rows[x]),
           NEW d \in Deliveries
    PROVE  /\ Superseding(rows, d) \in [Deliveries -> Target]
           /\ \A x \in Deliveries : TargetOK(Superseding(rows, d)[x])
           /\ \A x \in Deliveries : Superseding(rows, d)[x].status = rows[x].status
  <1> SUFFICES ASSUME NEW x \in Deliveries
               PROVE  /\ Superseding(rows, d)[x] \in Target
                      /\ TargetOK(Superseding(rows, d)[x])
                      /\ Superseding(rows, d)[x].status = rows[x].status
    BY DEF Superseding
  <1>1. [rows[x] EXCEPT !.superseded = d] \in Target
    BY DEF Target
  <1>2. /\ [rows[x] EXCEPT !.superseded = d].status = rows[x].status
        /\ [rows[x] EXCEPT !.superseded = d].attempts = rows[x].attempts
    BY DEF Target
  <1> QED BY <1>1, <1>2 DEF Superseding, TargetOK

\* An ACK merges sections in and never lowers a revision, nor the snapshot.
LEMMA AcknowledgedType ==
    ASSUME NEW row \in ConsumerState, NEW d \in Deliveries, NEW rows
    PROVE  /\ Acknowledged(row, d, rows) \in ConsumerState
           /\ row.latest <= Acknowledged(row, d, rows).latest
           /\ \A s \in Sections :
                 /\ row.inventory[s] <= Acknowledged(row, d, rows).inventory[s]
                 /\ \/ Acknowledged(row, d, rows).inventory[s] = row.inventory[s]
                    \/ /\ s \in Changed[d]
                       /\ Acknowledged(row, d, rows).inventory[s] = SectionRevision(s, d)
  <1> DEFINE pending == Outstanding(rows)
             merged == Merged(row.inventory, d)
             new == [acked |-> d, latest |-> d, pending |-> pending, inventory |-> merged]
             old == [row EXCEPT !.pending = pending]
  <1>1. pending \in 0 .. Snapshots
    BY OutstandingType
  <1>2. d \in 0 .. Snapshots /\ Snapshots \in Nat
    BY DeliveriesType
  <1>3. \A s \in Sections : SectionRevision(s, d) \in 0 .. Snapshots
    BY <1>2, SectionRevisionType
  <1>4. row.inventory \in Inventory /\ row.latest \in 0 .. Snapshots
    BY DEF ConsumerState
  <1>5. /\ merged \in Inventory
        /\ \A s \in Sections :
              /\ row.inventory[s] <= merged[s]
              /\ \/ merged[s] = row.inventory[s]
                 \/ s \in Changed[d] /\ merged[s] = SectionRevision(s, d)
    BY <1>2, <1>3, <1>4 DEF Merged, Larger, Inventory
  <1> HIDE DEF pending, merged
  <1>6. new \in ConsumerState
    BY <1>1, <1>2, <1>5 DEF ConsumerState
  <1>7. old \in ConsumerState /\ old.latest = row.latest /\ old.inventory = row.inventory
    BY <1>1 DEF ConsumerState
  <1>8. Acknowledged(row, d, rows) = IF row.latest <= d THEN new ELSE old
    BY DEF Acknowledged, pending, merged
  <1>9. CASE row.latest <= d
    BY <1>5, <1>6, <1>8, <1>9
  <1>10. CASE ~ (row.latest <= d)
    <2>1. \A s \in Sections : row.inventory[s] \in Nat
      BY <1>4, <1>2 DEF Inventory
    <2> HIDE DEF old, new
    <2> QED BY <1>2, <1>4, <1>7, <1>8, <1>10, <2>1
  <1> QED BY <1>9, <1>10

-----------------------------------------------------------------------------
(* Types *)

LEMMA InitType == Init => TypeOK
  <1> SUFFICES ASSUME Init PROVE TypeOK
    OBVIOUS
  <1>1. Snapshots \in Nat /\ AttemptBound \in Nat
    BY SnapshotAssumption, AttemptAssumption
  <1>2. Nothing \in Inventory
    BY <1>1 DEF Nothing, Inventory
  <1>3. [status |-> "none", attempts |-> 0, superseded |-> 0] \in Target
    BY <1>1 DEF Target
  <1>4. [acked |-> 0, latest |-> 0, inventory |-> Nothing, pending |-> 0] \in ConsumerState
    BY <1>1, <1>2 DEF ConsumerState
  <1>5. EmptyCopy \in Copy /\ Resting \in Sync
    BY <1>1, <1>2 DEF EmptyCopy, Copy, Resting, Sync
  <1>6. \A c \in Consumers, d \in Deliveries :
           target[c][d] = [status |-> "none", attempts |-> 0, superseded |-> 0]
    BY DEF Init
  <1> QED BY <1>1, <1>2, <1>3, <1>4, <1>5, <1>6 DEF Init, TypeOK

\* A delivery attempt leaves well-formed rows, and acknowledged rows alone.
LEMMA RecordAttemptType ==
    ASSUME TypeOK, NEW c \in Consumers, NEW d \in Deliveries,
           NEW outcome \in {"NOTIFIED", "FAILED"}, RecordAttempt(c, d, outcome)
    PROVE  /\ TypeOK'
           /\ \A x \in Consumers, y \in Deliveries :
                 target[x][y].status = "ACKNOWLEDGED" => target'[x][y].status = "ACKNOWLEDGED"
  <1> DEFINE row == Attempted(target[c][d], outcome)
             rows == [target[c] EXCEPT ![d] = row]
             new == Superseding(rows, d)
             pending == Outstanding(new)
  <1>1. /\ target[c] \in [Deliveries -> Target]
        /\ \A x \in Deliveries : TargetOK(target[c][x])
    BY DEF TypeOK, TargetOK
  <1>2. TargetOK(row)
    BY <1>1, AttemptedType DEF RecordAttempt
  <1> HIDE DEF row
  <1>3. rows \in [Deliveries -> Target] /\ \A x \in Deliveries : TargetOK(rows[x])
    BY <1>1, <1>2 DEF TargetOK
  <1>4. /\ new \in [Deliveries -> Target]
        /\ \A x \in Deliveries : TargetOK(new[x])
        /\ \A x \in Deliveries : new[x].status = rows[x].status
    <2> HIDE DEF rows
    <2> QED BY <1>3, SupersedingType
  <1>5. pending \in 0 .. Snapshots
    BY OutstandingType
  <1>6. \A x \in Deliveries : target[c][x].status = "ACKNOWLEDGED"
                              => new[x].status = "ACKNOWLEDGED"
    <2> HIDE DEF new
    <2> QED BY <1>1, <1>4 DEF RecordAttempt
  <1>7. target' = [target EXCEPT ![c] = new] /\ state' = [state EXCEPT ![c].pending = pending]
    BY DEF RecordAttempt, row
  <1> HIDE DEF new, pending
  <1>8. /\ target' \in [Consumers -> [Deliveries -> Target]]
        /\ \A x \in Consumers, y \in Deliveries : TargetOK(target'[x][y])
    BY <1>1, <1>4, <1>7 DEF TypeOK, TargetOK
  <1>9. state' \in [Consumers -> ConsumerState]
    <2>1. state[c] \in ConsumerState
      BY DEF TypeOK
    <2>2. [state[c] EXCEPT !.pending = pending] \in ConsumerState
      BY <1>5, <2>1 DEF ConsumerState
    <2>3. state' = [state EXCEPT ![c] = [state[c] EXCEPT !.pending = pending]]
      BY <1>7
    <2> HIDE DEF Target
    <2> QED BY <2>2, <2>3 DEF TypeOK
  <1>10. notified' \in [Consumers -> SUBSET Deliveries]
    BY DEF RecordAttempt, TypeOK
  <1>11. TypeOK'
    BY <1>8, <1>9, <1>10 DEF RecordAttempt, consumer, TypeOK, TargetOK
  <1>12. \A x \in Consumers, y \in Deliveries :
            target[x][y].status = "ACKNOWLEDGED" => target'[x][y].status = "ACKNOWLEDGED"
    BY <1>6, <1>7 DEF TypeOK
  <1> QED BY <1>11, <1>12

\* An accepted ACK leaves well-formed rows, and acknowledged rows alone.
LEMMA AckType ==
    ASSUME TypeOK, NEW c \in Consumers, NEW d \in Deliveries, Ack(c, d)
    PROVE  /\ TypeOK'
           /\ \A x \in Consumers, y \in Deliveries :
                 target[x][y].status = "ACKNOWLEDGED" => target'[x][y].status = "ACKNOWLEDGED"
  <1> DEFINE row == [target[c][d] EXCEPT !.status = "ACKNOWLEDGED"]
             rows == [target[c] EXCEPT ![d] = row]
             new == Acknowledged(state[c], d, rows)
  <1>1. target[c] \in [Deliveries -> Target] /\ state[c] \in ConsumerState
    BY DEF TypeOK
  <1>2. row \in Target /\ row.status = "ACKNOWLEDGED"
    BY <1>1 DEF Target
  <1>3. target' = [target EXCEPT ![c] = rows] /\ state' = [state EXCEPT ![c] = new]
    BY DEF Ack, AcceptAck
  <1>4. new \in ConsumerState
    <2> HIDE DEF rows
    <2> QED BY <1>1, AcknowledgedType
  <1> HIDE DEF row, new
  <1>5. /\ target' \in [Consumers -> [Deliveries -> Target]]
        /\ \A x \in Consumers, y \in Deliveries :
              target'[x][y] = IF x = c /\ y = d THEN row ELSE target[x][y]
    BY <1>1, <1>2, <1>3 DEF TypeOK
  <1>6. state' \in [Consumers -> ConsumerState]
    BY <1>3, <1>4 DEF TypeOK
  <1>7. acks' \in [Consumers -> SUBSET Deliveries]
    BY DEF Ack, AcceptAck, TypeOK
  <1>8. TypeOK'
    BY <1>2, <1>5, <1>6, <1>7 DEF Ack, AcceptAck, consumer, TypeOK
  <1> QED BY <1>2, <1>5, <1>8

\* A commit of the consumer has the revisions of the target snapshot in the
\* fetched sections and what it held before in the others.
LEMMA SaveType ==
    ASSUME TypeOK, NEW c \in Consumers, Save(c)
    PROVE  /\ TypeOK'
           /\ \A s \in Sections : ever[c][s] <= ever'[c][s]
           /\ \A s \in Sections : copy[c].held[s] <= ever[c][s]
                                  => copy'[c].held[s] <= ever'[c][s]
           /\ \A x \in Consumers \ {c} : ever'[x] = ever[x] /\ copy'[x] = copy[x]
  <1> DEFINE held == [s \in Sections |-> IF s \in sync[c].fetch
                                         THEN SectionRevision(s, sync[c].target)
                                         ELSE copy[c].held[s]]
             newest == [s \in Sections |-> Larger(ever[c][s], held[s])]
  <1>1. /\ sync[c] \in Sync /\ copy[c] \in Copy /\ ever[c] \in Inventory
        /\ copy[c].held \in Inventory /\ sync[c].target \in 0 .. Snapshots
        /\ Snapshots \in Nat
    BY DeliveriesType DEF TypeOK, Sync, Copy
  <1>2. held \in Inventory
    BY <1>1, SectionRevisionType DEF Inventory
  <1> HIDE DEF held
  <1>3. /\ newest \in Inventory
        /\ \A s \in Sections : ever[c][s] <= newest[s] /\ held[s] <= newest[s]
    BY <1>1, <1>2 DEF Inventory, Larger
  <1> HIDE DEF newest
  <1>4. Resting \in Sync /\ [Resting EXCEPT !.pc = "full"] \in Sync
    BY <1>1 DEF Resting, Sync
  <1>5. CASE Applies(c)
    <2>1. /\ copy' = [copy EXCEPT ![c] = [snapshot |-> sync[c].target, held |-> held]]
          /\ ever' = [ever EXCEPT ![c] = newest]
          /\ sync' = [sync EXCEPT ![c] = Resting]
      BY <1>5 DEF Save, held, newest
    <2>2. [snapshot |-> sync[c].target, held |-> held] \in Copy
      BY <1>1, <1>2 DEF Copy
    <2>3. TypeOK'
      BY <1>3, <1>4, <2>1, <2>2 DEF Save, producer, TypeOK
    <2>4. ever'[c] = newest /\ copy'[c].held = held
      BY <2>1 DEF TypeOK
    <2> QED BY <1>3, <2>1, <2>3, <2>4
  <1>6. CASE ~ Applies(c)
    <2>1. /\ sync' = [sync EXCEPT ![c] = [Resting EXCEPT !.pc = "full"]]
          /\ UNCHANGED <<copy, ever>>
      BY <1>6 DEF Save
    <2>2. TypeOK'
      BY <1>4, <2>1 DEF Save, producer, TypeOK
    <2>3. \A s \in Sections : ever[c][s] <= ever'[c][s]
      BY <1>1, <2>1 DEF Inventory
    <2> QED BY <2>1, <2>2, <2>3
  <1> QED BY <1>5, <1>6

\* The steps that change nothing but where the consumer is, its inbox, its copy
\* when it is lost, or the number of snapshots.
LEMMA SyncStepType ==
    ASSUME TypeOK, NEW c \in Consumers,
           \/ \E profile \in Profiles : Plan(c, profile)
           \/ Fetch(c) \/ FetchFull(c)
    PROVE  TypeOK' /\ UNCHANGED <<state, target, copy, ever>>
  <1>1. /\ sync[c] \in Sync /\ revision \in 0 .. Snapshots /\ Snapshots \in Nat
        /\ state[c] \in ConsumerState
    BY DeliveriesType DEF TypeOK
  <1>2. CASE \E profile \in Profiles : Plan(c, profile)
    <2> PICK profile \in Profiles : Plan(c, profile)
      BY <1>2
    <2> DEFINE differs == {s \in profile \ Withheld[revision] :
                             copy[c].held[s] # SectionRevision(s, revision)}
               pc == IF copy[c].snapshot = 0 THEN "full"
                     ELSE IF differs = {} THEN "fetched" ELSE "selective"
               fetch == IF copy[c].snapshot = 0 THEN Sections ELSE differs
    <2>1. fetch \subseteq Sections
      BY SectionAssumption
    <2>2. pc \in {"full", "fetched", "selective"}
      OBVIOUS
    <2>3. sync' = [sync EXCEPT ![c] = [pc |-> pc, target |-> revision, fetch |-> fetch,
                                       base |-> 0]]
      BY DEF Plan
    <2>4. UNCHANGED <<producer, inbox, copy, ever>>
      BY DEF Plan
    <2> HIDE DEF pc, fetch
    <2>5. [pc |-> pc, target |-> revision, fetch |-> fetch, base |-> 0] \in Sync
      BY <1>1, <2>1, <2>2 DEF Sync
    <2> QED BY <2>3, <2>4, <2>5 DEF producer, TypeOK
  <1>3. CASE Fetch(c)
    <2> DEFINE base == IF News \in sync[c].fetch THEN NewsBase(c, sync[c].target) ELSE 0
    <2>1. base \in 0 .. Snapshots
      BY <1>1 DEF NewsBase, ConsumerState
    <2>2. sync' = [sync EXCEPT ![c].pc = "fetched", ![c].base = base]
      BY <1>3 DEF Fetch
    <2> HIDE DEF base
    <2>3. sync'[c] = [pc |-> "fetched", target |-> sync[c].target, fetch |-> sync[c].fetch,
                      base |-> base]
      BY <1>1, <2>2 DEF TypeOK, Sync
    <2>4. sync'[c] \in Sync
      BY <1>1, <2>1, <2>3 DEF Sync
    <2>5. sync' \in [Consumers -> Sync]
      BY <2>2, <2>4 DEF TypeOK
    <2> QED BY <1>3, <2>5 DEF Fetch, producer, TypeOK
  <1>4. CASE FetchFull(c)
    <2>1. [pc |-> "fetched", target |-> revision, fetch |-> Sections, base |-> 0] \in Sync
      BY <1>1 DEF Sync
    <2> QED BY <1>4, <2>1 DEF FetchFull, producer, TypeOK
  <1> QED BY <1>2, <1>3, <1>4

LEMMA OtherStepType ==
    ASSUME TypeOK,
           \/ Publish
           \/ \E c \in Consumers : LoseCopy(c) \/ \E d \in Deliveries : Receive(c, d)
    PROVE  /\ TypeOK' /\ UNCHANGED <<state, target, ever>>
           /\ \A x \in Consumers, s \in Sections :
                 copy[x].held[s] <= ever[x][s] => copy'[x].held[s] <= ever'[x][s]
  <1>1. Snapshots \in Nat /\ copy \in [Consumers -> Copy] /\ ever \in [Consumers -> Inventory]
    BY DeliveriesType DEF TypeOK
  <1>2. CASE Publish
    <2>1. revision' \in 0 .. Snapshots
      BY <1>1, <1>2 DEF Publish, TypeOK
    <2> QED BY <1>2, <2>1 DEF Publish, consumer, TypeOK
  <1>3. ASSUME NEW c \in Consumers, LoseCopy(c)
        PROVE  /\ TypeOK' /\ UNCHANGED <<state, target, ever>>
               /\ \A x \in Consumers, s \in Sections :
                     copy[x].held[s] <= ever[x][s] => copy'[x].held[s] <= ever'[x][s]
    <2>1. EmptyCopy \in Copy /\ Resting \in Sync
      BY <1>1 DEF EmptyCopy, Nothing, Copy, Inventory, Resting, Sync
    <2>2. TypeOK'
      BY <1>3, <2>1 DEF LoseCopy, producer, TypeOK
    <2>3. \A s \in Sections : EmptyCopy.held[s] <= ever[c][s]
      BY <1>1 DEF EmptyCopy, Nothing, Inventory
    <2> QED BY <1>1, <1>3, <2>2, <2>3 DEF LoseCopy, producer
  <1>4. ASSUME NEW c \in Consumers, NEW d \in Deliveries, Receive(c, d)
        PROVE  TypeOK' /\ UNCHANGED <<state, target, copy, ever>>
    BY <1>4 DEF Receive, producer, TypeOK
  <1> QED BY <1>2, <1>3, <1>4

\* The invariant of the refinement: the consumer holds nothing it never
\* committed, and the producer believes nothing that was never committed.
Beliefs ==
    /\ TypeOK
    /\ \A c \in Consumers, s \in Sections : copy[c].held[s] <= ever[c][s]
    /\ \A c \in Consumers, s \in Sections : state[c].inventory[s] <= ever[c][s]

LEMMA InitBeliefs == Init => Beliefs
  <1> SUFFICES ASSUME Init PROVE Beliefs
    OBVIOUS
  <1>1. TypeOK
    BY InitType
  <1> QED BY <1>1 DEF Init, Beliefs, EmptyCopy, Nothing

\* A step that the refinement maps to a stutter.
NothingLearned == UNCHANGED <<ever, [c \in Consumers |-> state[c].inventory],
                              [c \in Consumers |-> state[c].latest]>>

LEMMA RecordAttemptStutters ==
    ASSUME Beliefs, NEW c \in Consumers, NEW d \in Deliveries,
           NEW outcome \in {"NOTIFIED", "FAILED"}, RecordAttempt(c, d, outcome)
    PROVE  Beliefs' /\ NothingLearned
  <1>1. TypeOK'
    BY RecordAttemptType DEF Beliefs
  <1>2. UNCHANGED <<copy, ever>>
    BY DEF RecordAttempt, consumer
  <1>3. PICK pending : state' = [state EXCEPT ![c].pending = pending]
    BY DEF RecordAttempt
  <1>4. \A x \in Consumers : /\ state'[x].inventory = state[x].inventory
                             /\ state'[x].latest = state[x].latest
    <2>1. state[c] \in ConsumerState /\ state \in [Consumers -> ConsumerState]
      BY DEF Beliefs, TypeOK
    <2> QED BY <1>3, <2>1 DEF ConsumerState
  <1> QED BY <1>1, <1>2, <1>4 DEF Beliefs, NothingLearned

\* The heart of the refinement: the revisions that an ACK merges in are those
\* of a delivery that the consumer has committed before it sends the ACK.
LEMMA AckAcknowledges ==
    ASSUME Beliefs, NEW c \in Consumers, NEW d \in Deliveries, Ack(c, d)
    PROVE  Beliefs' /\ Believed!Acknowledge(c)
  <1> DEFINE rows == [target[c] EXCEPT ![d].status = "ACKNOWLEDGED"]
             new == Acknowledged(state[c], d, rows)
  <1>1. TypeOK /\ TypeOK'
    BY AckType DEF Beliefs
  <1>2. /\ state[c] \in ConsumerState /\ state' = [state EXCEPT ![c] = new]
        /\ UNCHANGED <<copy, ever>>
    BY <1>1 DEF TypeOK, Ack, AcceptAck, consumer
  <1>3. /\ state[c].latest <= new.latest
        /\ \A s \in Sections :
              /\ state[c].inventory[s] <= new.inventory[s]
              /\ \/ new.inventory[s] = state[c].inventory[s]
                 \/ s \in Changed[d] /\ new.inventory[s] = SectionRevision(s, d)
    <2> HIDE DEF rows
    <2> QED BY <1>2, AcknowledgedType
  <1> HIDE DEF new
  <1>4. \A s \in Changed[d] : SectionRevision(s, d) <= copy[c].held[s]
    <2>1. Changed[d] \subseteq Sections
      BY DeliveriesType, SnapshotAssumption DEF Revisions
    <2>2. \A s \in Sections : SectionRevision(s, d) \in Nat /\ copy[c].held[s] \in Nat
      BY <1>1, DeliveriesType, SectionRevisionType DEF TypeOK, Copy, Inventory
    <2> QED BY <2>1, <2>2 DEF Ack, Persisted
  <1>5. \A s \in Sections : new.inventory[s] <= ever[c][s]
    <2> SUFFICES ASSUME NEW s \in Sections PROVE new.inventory[s] <= ever[c][s]
      OBVIOUS
    <2>1. CASE new.inventory[s] = state[c].inventory[s]
      BY <2>1 DEF Beliefs
    <2>2. CASE s \in Changed[d] /\ new.inventory[s] = SectionRevision(s, d)
      <3>1. SectionRevision(s, d) <= copy[c].held[s] /\ copy[c].held[s] <= ever[c][s]
        BY <1>4, <2>2 DEF Beliefs
      <3>2. SectionRevision(s, d) \in Nat /\ copy[c].held[s] \in Nat /\ ever[c][s] \in Nat
        BY <1>1, DeliveriesType, SectionRevisionType DEF TypeOK, Copy, Inventory
      <3> QED BY <2>2, <3>1, <3>2
    <2> QED BY <1>3, <2>1, <2>2
  <1>6. state'[c] = new /\ \A x \in Consumers \ {c} : state'[x] = state[x]
    BY <1>1, <1>2 DEF TypeOK
  <1>7. Beliefs'
    BY <1>1, <1>2, <1>5, <1>6 DEF Beliefs
  <1>8. Believed!Acknowledge(c)
    BY <1>2, <1>3, <1>5, <1>6 DEF Believed!Acknowledge, Believed!Others
  <1> QED BY <1>7, <1>8

LEMMA SavePersists ==
    ASSUME Beliefs, NEW c \in Consumers, Save(c)
    PROVE  Beliefs' /\ Believed!Persist(c)
  <1>1. /\ TypeOK' /\ TypeOK
        /\ \A s \in Sections : ever[c][s] <= ever'[c][s] /\ copy'[c].held[s] <= ever'[c][s]
        /\ \A x \in Consumers \ {c} : ever'[x] = ever[x] /\ copy'[x] = copy[x]
    BY SaveType DEF Beliefs
  <1>2. UNCHANGED state
    BY DEF Save, producer
  <1>3. \A s \in Sections : state[c].inventory[s] <= ever'[c][s]
    <2>1. \A s \in Sections : /\ state[c].inventory[s] \in Nat
                              /\ ever[c][s] \in Nat /\ ever'[c][s] \in Nat
      BY <1>1 DEF TypeOK, ConsumerState, Inventory
    <2> QED BY <1>1, <2>1 DEF Beliefs
  <1>4. Beliefs'
    BY <1>1, <1>2, <1>3 DEF Beliefs
  <1>5. Believed!Persist(c)
    BY <1>1, <1>2 DEF Believed!Persist, Believed!Others
  <1> QED BY <1>4, <1>5

LEMMA NextBelieved ==
    ASSUME Beliefs, [Next]_vars
    PROVE  Beliefs' /\ (Believed!Next \/ NothingLearned)
  <1>1. ASSUME NEW c \in Consumers, NEW d \in Deliveries,
               NEW outcome \in {"NOTIFIED", "FAILED"}, RecordAttempt(c, d, outcome)
        PROVE  Beliefs' /\ NothingLearned
    BY <1>1, RecordAttemptStutters
  <1>2. ASSUME NEW c \in Consumers, NEW d \in Deliveries, Ack(c, d)
        PROVE  Beliefs' /\ Believed!Next
    BY <1>2, AckAcknowledges DEF Believed!Next
  <1>3. ASSUME NEW c \in Consumers, Save(c)
        PROVE  Beliefs' /\ Believed!Next
    BY <1>3, SavePersists DEF Believed!Next
  <1>4. ASSUME NEW c \in Consumers,
               (\E profile \in Profiles : Plan(c, profile)) \/ Fetch(c) \/ FetchFull(c)
        PROVE  Beliefs' /\ NothingLearned
    BY <1>4, SyncStepType DEF Beliefs, NothingLearned
  <1>5. ASSUME \/ Publish
               \/ \E c \in Consumers : LoseCopy(c) \/ \E d \in Deliveries : Receive(c, d)
        PROVE  Beliefs' /\ NothingLearned
    BY <1>5, OtherStepType DEF Beliefs, NothingLearned
  <1>6. CASE UNCHANGED vars
    BY <1>6 DEF vars, producer, consumer, Beliefs, TypeOK, NothingLearned
  <1>7. CASE Next
    BY <1>1, <1>2, <1>3, <1>4, <1>5, <1>7 DEF Next
  <1> QED BY <1>6, <1>7

-----------------------------------------------------------------------------
(* Theorems *)

THEOREM BeliefsInvariant == Spec => []Beliefs
  <1>1. Beliefs /\ [Next]_vars => Beliefs'
    BY NextBelieved
  <1> QED BY <1>1, InitBeliefs, PTL DEF Spec

\* Every row and every consumer stays well formed, and a row that waits for a
\* retry has attempts left, for any number of consumers and snapshots.
THEOREM DeliveryTypeCorrect == Spec => []TypeOK
  <1>1. Beliefs => TypeOK
    BY DEF Beliefs
  <1> QED BY <1>1, BeliefsInvariant, PTL

\* The consumer state of the producer implements ConsumerInventory.
THEOREM DeliveryRefinesInventory == Spec => ImplementsInventory
  <1>1. Init => Believed!Init
    BY DEF Init, Believed!Init, Nothing
  <1>2. Beliefs /\ [Next]_vars
        => [Believed!Next]_<<ever, [c \in Consumers |-> state[c].inventory],
                             [c \in Consumers |-> state[c].latest]>>
    BY NextBelieved DEF NothingLearned
  <1> QED BY <1>1, <1>2, BeliefsInvariant, PTL DEF Spec, ImplementsInventory, Believed!Spec

\* No step of a notifier or a consumer takes an ACK back.
THEOREM AcknowledgedIsFinalThm == Spec => AcknowledgedIsFinal
  <1> DEFINE Kept == \A c \in Consumers, d \in Deliveries :
                        target[c][d].status = "ACKNOWLEDGED"
                        => target'[c][d].status = "ACKNOWLEDGED"
  <1>1. ASSUME TypeOK, Next PROVE Kept
    <2>1. ASSUME NEW c \in Consumers, NEW d \in Deliveries,
                 NEW outcome \in {"NOTIFIED", "FAILED"}, RecordAttempt(c, d, outcome)
          PROVE  Kept
      BY <1>1, <2>1, RecordAttemptType
    <2>2. ASSUME NEW c \in Consumers, NEW d \in Deliveries, Ack(c, d)
          PROVE  Kept
      BY <1>1, <2>2, AckType
    <2>3. ASSUME UNCHANGED target
          PROVE  Kept
      BY <2>3
    <2>4. ASSUME NEW c \in Consumers, Save(c)
          PROVE  UNCHANGED target
      BY <2>4 DEF Save, producer
    <2>5. ASSUME NEW c \in Consumers,
                 (\E profile \in Profiles : Plan(c, profile)) \/ Fetch(c) \/ FetchFull(c)
          PROVE  UNCHANGED target
      BY <1>1, <2>5, SyncStepType
    <2>6. ASSUME \/ Publish
                 \/ \E c \in Consumers : LoseCopy(c) \/ \E d \in Deliveries : Receive(c, d)
          PROVE  UNCHANGED target
      BY <1>1, <2>6, OtherStepType
    <2> HIDE DEF Kept
    <2> QED BY <1>1, <2>1, <2>2, <2>3, <2>4, <2>5, <2>6 DEF Next
  <1>2. TypeOK /\ [Next]_vars => [Kept]_vars
    BY <1>1
  <1> QED BY <1>2, DeliveryTypeCorrect, PTL DEF Spec, AcknowledgedIsFinal

-----------------------------------------------------------------------------
(* ACKs are earned *)

\* Why a row has the status it has: what was notified has an attempt that says
\* so, and a dead letter has used its attempts up.
Grounds ==
    \A c \in Consumers, d \in Deliveries :
        /\ target[c][d].status = "NOTIFIED" => d \in notified[c]
        /\ target[c][d].status = "DEAD_LETTER" => target[c][d].attempts >= MaxDeliveryAttempts
        /\ d \in acks[c] => \/ d \in notified[c]
                            \/ target[c][d].attempts >= MaxDeliveryAttempts

LEMMA RecordAttemptGrounds ==
    ASSUME TypeOK, Grounds, NEW c \in Consumers, NEW d \in Deliveries,
           NEW outcome \in {"NOTIFIED", "FAILED"}, RecordAttempt(c, d, outcome)
    PROVE  Grounds'
  <1> DEFINE row == Attempted(target[c][d], outcome)
             rows == [target[c] EXCEPT ![d] = row]
             new == Superseding(rows, d)
  <1>1. /\ target \in [Consumers -> [Deliveries -> Target]]
        /\ MaxDeliveryAttempts \in Nat /\ AttemptBound \in Nat
        /\ \A x \in Consumers, y \in Deliveries : target[x][y].attempts \in Nat
    BY AttemptAssumption DEF TypeOK, Target
  <1>2. /\ row.attempts = target[c][d].attempts + 1
        /\ row.status = "NOTIFIED" => outcome = "NOTIFIED"
        /\ row.status = "DEAD_LETTER" => row.attempts >= MaxDeliveryAttempts
        /\ row \in Target
    <2>1. target[c][d] \in Target
      BY <1>1
    <2>2. row \in Target
      BY <2>1, AttemptedType DEF RecordAttempt, TargetOK
    <2> QED BY <2>1, <2>2 DEF Attempted, Target
  <1> HIDE DEF row
  <1>3. \A y \in Deliveries : rows[y] = IF y = d THEN row ELSE target[c][y]
    BY <1>1
  <1>4. rows \in [Deliveries -> Target]
    BY <1>1, <1>2
  <1> HIDE DEF rows
  <1>5. \A y \in Deliveries : new[y].status = rows[y].status /\ new[y].attempts = rows[y].attempts
    BY <1>4 DEF Superseding, Target
  <1>6. target' = [target EXCEPT ![c] = new]
    BY DEF RecordAttempt, row, rows
  <1> HIDE DEF new
  <1>7. /\ \A y \in Deliveries : target'[c][y] = new[y]
        /\ \A x \in Consumers \ {c} : target'[x] = target[x]
    BY <1>1, <1>6
  <1>8. /\ outcome = "NOTIFIED" => d \in notified'[c]
        /\ \A x \in Consumers : notified[x] \subseteq notified'[x]
        /\ acks' = acks
    BY DEF RecordAttempt, TypeOK
  <1>9. ASSUME NEW x \in Consumers, NEW y \in Deliveries
        PROVE  /\ target'[x][y].status = "NOTIFIED" => y \in notified'[x]
               /\ target'[x][y].status = "DEAD_LETTER"
                  => target'[x][y].attempts >= MaxDeliveryAttempts
               /\ y \in acks'[x] => \/ y \in notified'[x]
                                    \/ target'[x][y].attempts >= MaxDeliveryAttempts
    <2>1. CASE x = c /\ y = d
      <3>1. /\ target'[x][y].status = row.status
            /\ target'[x][y].attempts = target[x][y].attempts + 1
        BY <1>2, <1>3, <1>5, <1>7, <2>1
      <3>2. target[x][y].attempts \in Nat
        BY <1>1
      <3>3. row.attempts = target'[x][y].attempts
        BY <1>2, <2>1, <3>1
      <3> QED BY <1>1, <1>2, <1>8, <2>1, <3>1, <3>2, <3>3 DEF Grounds
    <2>2. CASE ~ (x = c /\ y = d)
      <3>1. /\ target'[x][y].status = target[x][y].status
            /\ target'[x][y].attempts = target[x][y].attempts
        BY <1>3, <1>5, <1>7, <2>2
      <3> QED BY <1>8, <3>1 DEF Grounds
    <2> QED BY <2>1, <2>2
  <1> QED BY <1>9 DEF Grounds

LEMMA AckGrounds ==
    ASSUME TypeOK, Grounds, NEW c \in Consumers, NEW d \in Deliveries, Ack(c, d)
    PROVE  Grounds'
  <1>1. /\ target' = [target EXCEPT ![c] = [target[c] EXCEPT
                                              ![d] = [target[c][d] EXCEPT !.status = "ACKNOWLEDGED"]]]
        /\ target[c][d].status \in {"NOTIFIED", "DEAD_LETTER"}
        /\ notified' = notified
        /\ acks' = [acks EXCEPT ![c] = acks[c] \union {d}]
    BY DEF Ack, AcceptAck
  <1>2. target[c] \in [Deliveries -> Target] /\ target[c][d] \in Target
    BY DEF TypeOK
  <1>3. /\ [target[c][d] EXCEPT !.status = "ACKNOWLEDGED"].status = "ACKNOWLEDGED"
        /\ [target[c][d] EXCEPT !.status = "ACKNOWLEDGED"].attempts = target[c][d].attempts
    BY <1>2 DEF Target
  <1>4. \A x \in Consumers, y \in Deliveries :
           /\ target'[x][y].attempts = target[x][y].attempts
           /\ target'[x][y].status \in {target[x][y].status, "ACKNOWLEDGED"}
    BY <1>1, <1>2, <1>3 DEF TypeOK
  <1>5. \A x \in Consumers, y \in Deliveries :
           y \in acks'[x] => y \in acks[x] \/ (x = c /\ y = d)
    BY <1>1 DEF TypeOK
  <1> QED BY <1>1, <1>4, <1>5 DEF Grounds

LEMMA NextGrounds ==
    ASSUME TypeOK, Grounds, [Next]_vars
    PROVE  Grounds'
  <1>1. ASSUME NEW c \in Consumers, NEW d \in Deliveries,
               NEW outcome \in {"NOTIFIED", "FAILED"}, RecordAttempt(c, d, outcome)
        PROVE  Grounds'
    BY <1>1, RecordAttemptGrounds
  <1>2. ASSUME NEW c \in Consumers, NEW d \in Deliveries, Ack(c, d)
        PROVE  Grounds'
    BY <1>2, AckGrounds
  <1>3. ASSUME UNCHANGED <<target, notified, acks>>
        PROVE  Grounds'
    BY <1>3 DEF Grounds
  <1>4. ASSUME NEW c \in Consumers,
               \/ Save(c) \/ LoseCopy(c) \/ Fetch(c) \/ FetchFull(c)
               \/ \E d \in Deliveries : Receive(c, d)
               \/ \E profile \in Profiles : Plan(c, profile)
        PROVE  UNCHANGED <<target, notified, acks>>
    BY <1>4 DEF Save, LoseCopy, Fetch, FetchFull, Receive, Plan, producer
  <1>5. ASSUME Publish \/ UNCHANGED vars
        PROVE  UNCHANGED <<target, notified, acks>>
    BY <1>5 DEF Publish, vars, producer
  <1> HIDE DEF Grounds
  <1> QED BY <1>1, <1>2, <1>3, <1>4, <1>5 DEF Next

\* ACKs are accepted only for what was notified or has used its attempts up.
THEOREM AckIsEarnedThm == Spec => []AckIsEarned
  <1>1. Init => Grounds
    BY DEF Init, Grounds
  <1>2. TypeOK /\ Grounds /\ [Next]_vars => Grounds'
    BY NextGrounds
  <1>3. TypeOK /\ Grounds => AckIsEarned
    BY DEF TypeOK, Grounds, AckIsEarned
  <1> QED BY <1>1, <1>2, <1>3, DeliveryTypeCorrect, PTL DEF Spec
-----------------------------------------------------------------------------
(* The count of outstanding deliveries *)

\* The two transactions that write targets write the count of the rows they leave, after the
\* older ones are superseded.
LEMMA NextPending ==
    ASSUME TypeOK, PendingAgrees, [Next]_vars
    PROVE  PendingAgrees'
  <1>1. ASSUME NEW c \in Consumers, NEW rows, target' = [target EXCEPT ![c] = rows],
               NEW row, state' = [state EXCEPT ![c] = row], row.pending = Outstanding(rows)
        PROVE  PendingAgrees'
    BY <1>1 DEF TypeOK, PendingAgrees
  <1>2. ASSUME NEW c \in Consumers, NEW d \in Deliveries,
               NEW outcome \in {"NOTIFIED", "FAILED"}, RecordAttempt(c, d, outcome)
        PROVE  PendingAgrees'
    <2> DEFINE rows == Superseding([target[c] EXCEPT ![d] = Attempted(@, outcome)], d)
               pending == Outstanding(rows)
               row == [state[c] EXCEPT !.pending = pending]
    <2>1. target' = [target EXCEPT ![c] = rows] /\ state' = [state EXCEPT ![c] = row]
      BY <1>2 DEF RecordAttempt
    <2> HIDE DEF rows
    <2>2. row.pending = Outstanding(rows)
      BY DEF TypeOK, ConsumerState
    <2> HIDE DEF row
    <2> QED BY <1>1, <2>1, <2>2
  <1>3. ASSUME NEW c \in Consumers, NEW d \in Deliveries, Ack(c, d)
        PROVE  PendingAgrees'
    <2> DEFINE rows == [target[c] EXCEPT ![d].status = "ACKNOWLEDGED"]
               pending == Outstanding(rows)
               row == Acknowledged(state[c], d, rows)
    <2>1. target' = [target EXCEPT ![c] = rows] /\ state' = [state EXCEPT ![c] = row]
      BY <1>3 DEF Ack, AcceptAck
    <2> HIDE DEF rows
    <2>2. row.pending = Outstanding(rows)
      BY DEF TypeOK, ConsumerState, Acknowledged
    <2> HIDE DEF row
    <2> QED BY <1>1, <2>1, <2>2
  <1>4. ASSUME UNCHANGED <<target, state>>
        PROVE  PendingAgrees'
    BY <1>4 DEF PendingAgrees
  <1>5. ASSUME NEW c \in Consumers,
               \/ Save(c) \/ LoseCopy(c) \/ Fetch(c) \/ FetchFull(c)
               \/ \E d \in Deliveries : Receive(c, d)
               \/ \E profile \in Profiles : Plan(c, profile)
        PROVE  UNCHANGED <<target, state>>
    BY <1>5 DEF Save, LoseCopy, Fetch, FetchFull, Receive, Plan, producer
  <1>6. ASSUME Publish \/ UNCHANGED vars
        PROVE  UNCHANGED <<target, state>>
    BY <1>6 DEF Publish, vars, producer
  <1> HIDE DEF PendingAgrees
  <1> QED BY <1>2, <1>3, <1>4, <1>5, <1>6 DEF Next

\* What the consumer state says is outstanding is what the target rows say.
THEOREM PendingAgreesThm == Spec => []PendingAgrees
  <1>1. Init => PendingAgrees
    <2> SUFFICES ASSUME Init, NEW c \in Consumers
                 PROVE  state[c].pending = Outstanding(target[c])
      BY DEF PendingAgrees
    <2>1. {d \in Deliveries : target[c][d].status \in {"PENDING", "NOTIFIED"}
                              /\ target[c][d].superseded = 0} = {}
      BY DEF Init
    <2>2. state[c].pending = 0
      BY DEF Init
    <2> QED BY <2>1, <2>2, FS_EmptySet DEF Outstanding
  <1>2. TypeOK /\ PendingAgrees /\ [Next]_vars => PendingAgrees'
    BY NextPending
  <1> QED BY <1>1, <1>2, DeliveryTypeCorrect, PTL DEF Spec

-----------------------------------------------------------------------------
(* Deltas of the news *)

\* A newer snapshot has no smaller revision of a section.
LEMMA SectionRevisionGrows ==
    ASSUME NEW s, NEW p \in 0 .. Snapshots, NEW r \in 0 .. Snapshots, p <= r
    PROVE  SectionRevision(s, p) <= SectionRevision(s, r)
  <1> DEFINE P == {k \in 1 .. p : s \in Changed[k]}
             R == {k \in 1 .. r : s \in Changed[k]}
  <1>0. Snapshots \in Nat /\ p \in Nat /\ r \in Nat
    BY SnapshotAssumption
  <1>1. IsFiniteSet(1 .. r)
    BY <1>0, FS_Interval
  <1>2. IsFiniteSet(R) /\ P \subseteq R
    BY <1>0, <1>1, FS_Subset
  <1>3. Cardinality(P) <= Cardinality(R)
    <2> HIDE DEF P, R
    <2> QED BY <1>2, FS_Subset
  <1> QED BY <1>3 DEF SectionRevision

\* No ACK of a consumer is ahead of the snapshot it has; it is bringing its copy forward,
\* and no delta starts after its copy.
Follows(held, at, latest, newest) ==
    /\ latest <= newest
    /\ held.snapshot # 0 =>
         /\ latest <= held.snapshot /\ held.snapshot <= newest
    /\ at.pc \in {"selective", "fetched"} =>
         /\ held.snapshot <= at.target /\ at.target <= newest
         /\ held.snapshot = 0 => at.pc = "fetched" /\ latest <= at.target
    /\ at.base # 0 => held.snapshot # 0 /\ at.base <= held.snapshot

NewsFollowed == \A c \in Consumers : Follows(copy[c], sync[c], state[c].latest, revision)

\* One consumer moves, the others follow what they followed, and snapshots only grow.
LEMMA FollowsMoves ==
    ASSUME TypeOK, TypeOK', NewsFollowed, NEW c \in Consumers,
           \A x \in Consumers \ {c} : /\ copy'[x] = copy[x] /\ sync'[x] = sync[x]
                                      /\ state'[x].latest = state[x].latest,
           revision' = revision,
           Follows(copy'[c], sync'[c], state'[c].latest, revision)
    PROVE  NewsFollowed'
  BY DEF NewsFollowed

LEMMA FollowTypes ==
    ASSUME TypeOK, NEW c \in Consumers
    PROVE  /\ revision \in 0 .. Snapshots /\ Snapshots \in Nat
           /\ state[c] \in ConsumerState /\ state[c].latest \in 0 .. Snapshots
           /\ copy[c] \in Copy /\ copy[c].snapshot \in 0 .. Snapshots
           /\ copy[c].held \in [Sections -> 0 .. Snapshots]
           /\ sync[c] \in Sync /\ sync[c].target \in 0 .. Snapshots
           /\ sync[c].base \in 0 .. Snapshots
  BY DeliveriesType DEF TypeOK, ConsumerState, Copy, Sync, Inventory

\* A delta completes a copy that has the news of its own snapshot.
LEMMA FollowsApplies ==
    ASSUME TypeOK, NEW c \in Consumers, Follows(copy[c], sync[c], state[c].latest, revision),
           NewsIsCurrent(c)
    PROVE  Applies(c)
  <1> SUFFICES ASSUME sync[c].base # 0
               PROVE  copy[c].held[News] >= SectionRevision(News, sync[c].base)
    BY DEF Applies
  <1>1. /\ copy[c].held[News] = SectionRevision(News, copy[c].snapshot)
        /\ sync[c].base <= copy[c].snapshot
    BY DEF Follows, NewsIsCurrent
  <1>2. SectionRevision(News, sync[c].base) <= SectionRevision(News, copy[c].snapshot)
    BY <1>1, FollowTypes, SectionRevisionGrows
  <1>3. /\ SectionRevision(News, sync[c].base) \in Nat
        /\ SectionRevision(News, copy[c].snapshot) \in Nat
    BY FollowTypes, SectionRevisionType
  <1> QED BY <1>1, <1>2, <1>3

LEMMA PlanFollows ==
    ASSUME TypeOK, TypeOK', NewsFollowed, NEW c \in Consumers,
           NEW profile \in Profiles, Plan(c, profile)
    PROVE  NewsFollowed'
  <1> DEFINE differs == {s \in profile \ Withheld[revision] :
                           copy[c].held[s] # SectionRevision(s, revision)}
             pc == IF copy[c].snapshot = 0 THEN "full"
                   ELSE IF differs = {} THEN "fetched" ELSE "selective"
             fetch == IF copy[c].snapshot = 0 THEN Sections ELSE differs
             at == [pc |-> pc, target |-> revision, fetch |-> fetch, base |-> 0]
  <1>1. sync' = [sync EXCEPT ![c] = at] /\ UNCHANGED <<producer, inbox, copy, ever>>
    BY DEF Plan
  <1>2. /\ sync'[c] = at
        /\ \A x \in Consumers \ {c} : sync'[x] = sync[x]
    BY <1>1 DEF TypeOK
  <1>3. Follows(copy[c], sync[c], state[c].latest, revision)
    BY DEF NewsFollowed
  <1>4. pc \in {"selective", "fetched"} => copy[c].snapshot # 0
    OBVIOUS
  <1>5. at.pc = pc /\ at.target = revision /\ at.base = 0
    OBVIOUS
  <1> HIDE DEF pc, fetch, at
  <1>6. Follows(copy[c], at, state[c].latest, revision)
    BY <1>3, <1>4, <1>5, FollowTypes DEF Follows
  <1> QED BY <1>1, <1>2, <1>6, FollowsMoves DEF producer

LEMMA FetchFollows ==
    ASSUME TypeOK, TypeOK', NewsFollowed, NEW c \in Consumers, Fetch(c)
    PROVE  NewsFollowed'
  <1> DEFINE base == IF News \in sync[c].fetch THEN NewsBase(c, sync[c].target) ELSE 0
             at == [sync[c] EXCEPT !.pc = "fetched", !.base = base]
  <1>1. sync' = [sync EXCEPT ![c] = at] /\ UNCHANGED <<producer, inbox, copy, ever>>
    BY DEF Fetch
  <1>2. /\ sync'[c] = at
        /\ \A x \in Consumers \ {c} : sync'[x] = sync[x]
    BY <1>1 DEF TypeOK
  <1>3. Follows(copy[c], sync[c], state[c].latest, revision) /\ sync[c].pc = "selective"
    BY DEF NewsFollowed, Fetch
  <1>4. base \in {0, state[c].latest}
    BY DEF NewsBase
  <1> HIDE DEF base
  <1>5. at.pc = "fetched" /\ at.target = sync[c].target /\ at.base = base
    BY FollowTypes DEF Sync
  <1> HIDE DEF at
  <1>6. Follows(copy[c], at, state[c].latest, revision)
    BY <1>3, <1>4, <1>5, FollowTypes DEF Follows
  <1> QED BY <1>1, <1>2, <1>6, FollowsMoves DEF producer

LEMMA FetchFullFollows ==
    ASSUME TypeOK, TypeOK', NewsFollowed, NEW c \in Consumers, FetchFull(c)
    PROVE  NewsFollowed'
  <1> DEFINE at == [pc |-> "fetched", target |-> revision, fetch |-> Sections, base |-> 0]
  <1>1. sync' = [sync EXCEPT ![c] = at] /\ UNCHANGED <<producer, inbox, copy, ever>>
    BY DEF FetchFull
  <1>2. /\ sync'[c] = at
        /\ \A x \in Consumers \ {c} : sync'[x] = sync[x]
    BY <1>1 DEF TypeOK
  <1>3. Follows(copy[c], sync[c], state[c].latest, revision)
    BY DEF NewsFollowed
  <1>4. Follows(copy[c], at, state[c].latest, revision)
    BY <1>3, FollowTypes DEF Follows
  <1> HIDE DEF at
  <1> QED BY <1>1, <1>2, <1>4, FollowsMoves DEF producer

LEMMA SaveFollows ==
    ASSUME TypeOK, TypeOK', NewsFollowed, NEW c \in Consumers, Save(c)
    PROVE  NewsFollowed'
  <1> DEFINE held == [s \in Sections |-> IF s \in sync[c].fetch
                                         THEN SectionRevision(s, sync[c].target)
                                         ELSE copy[c].held[s]]
             new == [snapshot |-> sync[c].target, held |-> held]
  <1>1. Follows(copy[c], sync[c], state[c].latest, revision) /\ sync[c].pc = "fetched"
    BY DEF NewsFollowed, Save
  <1>2. \A x \in Consumers \ {c} : copy'[x] = copy[x] /\ sync'[x] = sync[x]
    BY DEF Save, TypeOK
  <1>3. UNCHANGED producer
    BY DEF Save
  <1>4. Follows(copy'[c], sync'[c], state[c].latest, revision)
    <2>1. CASE Applies(c)
      <3>1. copy'[c] = new /\ sync'[c] = Resting
        BY <2>1 DEF Save, TypeOK
      <3>2. new.snapshot = sync[c].target /\ Resting.pc = "idle" /\ Resting.base = 0
        BY DEF Resting
      <3>3. state[c].latest <= sync[c].target /\ sync[c].target <= revision
        BY <1>1, FollowTypes DEF Follows
      <3> HIDE DEF new
      <3> QED BY <1>1, <3>1, <3>2, <3>3 DEF Follows
    <2>2. CASE ~ Applies(c)
      <3>1. copy'[c] = copy[c] /\ sync'[c] = [Resting EXCEPT !.pc = "full"]
        BY <2>2 DEF Save, TypeOK
      <3>2. [Resting EXCEPT !.pc = "full"].pc = "full" /\ [Resting EXCEPT !.pc = "full"].base = 0
        BY DEF Resting
      <3> QED BY <1>1, <3>1, <3>2 DEF Follows
    <2> QED BY <2>1, <2>2
  <1> QED BY <1>2, <1>3, <1>4, FollowsMoves DEF producer

LEMMA LoseCopyFollows ==
    ASSUME TypeOK, TypeOK', NewsFollowed, NEW c \in Consumers, LoseCopy(c)
    PROVE  NewsFollowed'
  <1>1. /\ copy'[c] = EmptyCopy /\ sync'[c] = Resting
        /\ \A x \in Consumers \ {c} : copy'[x] = copy[x] /\ sync'[x] = sync[x]
        /\ UNCHANGED producer
    BY DEF LoseCopy, TypeOK
  <1>2. Follows(copy[c], sync[c], state[c].latest, revision)
    BY DEF NewsFollowed
  <1>3. Follows(EmptyCopy, Resting, state[c].latest, revision)
    BY <1>2 DEF Follows, EmptyCopy, Resting
  <1> QED BY <1>1, <1>3, FollowsMoves DEF producer

\* An ACK names a delivery that the copy includes, so no base is ahead of it.
LEMMA AckFollows ==
    ASSUME TypeOK, TypeOK', NewsFollowed, NEW c \in Consumers, NEW d \in Deliveries, Ack(c, d)
    PROVE  NewsFollowed'
  <1> DEFINE rows == [target[c] EXCEPT ![d].status = "ACKNOWLEDGED"]
             new == Acknowledged(state[c], d, rows)
  <1>1. /\ state' = [state EXCEPT ![c] = new]
        /\ UNCHANGED <<revision, copy, sync>>
    BY DEF Ack, AcceptAck, consumer
  <1> HIDE DEF rows
  <1>2. new.latest \in {state[c].latest, d}
    BY FollowTypes DEF Acknowledged, ConsumerState
  <1> HIDE DEF new
  <1>3. state'[c] = new /\ \A x \in Consumers \ {c} : state'[x] = state[x]
    BY <1>1 DEF TypeOK
  <1>4. d <= copy[c].snapshot /\ d \in 1 .. Snapshots
    BY DeliveriesType DEF Ack, Persisted
  <1>5. copy[c].snapshot # 0
    BY <1>4, FollowTypes
  <1>6. Follows(copy[c], sync[c], state[c].latest, revision)
    BY DEF NewsFollowed
  <1>7. d <= revision
    BY <1>4, <1>5, <1>6, FollowTypes DEF Follows
  <1>8. Follows(copy[c], sync[c], new.latest, revision)
    BY <1>2, <1>4, <1>5, <1>6, <1>7 DEF Follows
  <1> QED BY <1>1, <1>3, <1>8, FollowsMoves

LEMMA PublishFollows ==
    ASSUME TypeOK, NewsFollowed, Publish
    PROVE  NewsFollowed'
  <1>1. revision' = revision + 1 /\ UNCHANGED <<state, copy, sync>>
    BY DEF Publish, consumer
  <1> SUFFICES ASSUME NEW c \in Consumers
               PROVE  Follows(copy[c], sync[c], state[c].latest, revision + 1)
    BY <1>1 DEF NewsFollowed
  <1>2. Follows(copy[c], sync[c], state[c].latest, revision)
    BY DEF NewsFollowed
  <1> QED BY <1>2, FollowTypes DEF Follows

LEMMA NextFollows ==
    ASSUME TypeOK, TypeOK', NewsFollowed, [Next]_vars
    PROVE  NewsFollowed'
  <1>1. ASSUME UNCHANGED <<revision, copy, sync>>,
               \A c \in Consumers : state'[c].latest = state[c].latest
        PROVE  NewsFollowed'
    BY <1>1 DEF NewsFollowed
  <1>2. ASSUME NEW c \in Consumers, NEW d \in Deliveries,
               NEW outcome \in {"NOTIFIED", "FAILED"}, RecordAttempt(c, d, outcome)
        PROVE  NewsFollowed'
    <2>1. PICK pending : state' = [state EXCEPT ![c].pending = pending]
      BY <1>2 DEF RecordAttempt
    <2>2. \A x \in Consumers : state'[x].latest = state[x].latest
      BY <2>1 DEF TypeOK, ConsumerState
    <2> QED BY <1>1, <1>2, <2>2 DEF RecordAttempt, consumer
  <1>3. ASSUME (\E c \in Consumers, d \in Deliveries : Receive(c, d)) \/ UNCHANGED vars
        PROVE  NewsFollowed'
    BY <1>1, <1>3 DEF Receive, vars, producer, consumer
  <1> HIDE DEF NewsFollowed
  <1> QED BY <1>2, <1>3, PlanFollows, FetchFollows, FetchFullFollows, SaveFollows,
             LoseCopyFollows, AckFollows, PublishFollows DEF Next

\* A delta never starts after what a consumer has whose copy includes the news of its
\* snapshot, whatever its profiles, the sections withheld from its plans, the order of its
\* ACKs, and the copies it lost.
THEOREM DeltaIsLosslessThm == Spec => []DeltaIsLossless
  <1>1. Init => NewsFollowed
    <2> SUFFICES ASSUME Init, NEW c \in Consumers
                 PROVE  Follows(copy[c], sync[c], state[c].latest, revision)
      BY DEF NewsFollowed
    <2>1. /\ copy[c] = EmptyCopy /\ sync[c] = Resting
          /\ state[c].latest = 0 /\ revision = 0
      BY DEF Init
    <2> QED BY <2>1 DEF Follows, EmptyCopy, Resting
  <1>2. TypeOK /\ TypeOK' /\ NewsFollowed /\ [Next]_vars => NewsFollowed'
    BY NextFollows
  <1>3. TypeOK /\ NewsFollowed => DeltaIsLossless
    BY FollowsApplies DEF NewsFollowed, DeltaIsLossless
  <1> QED BY <1>1, <1>2, <1>3, DeliveryTypeCorrect, PTL DEF Spec

-----------------------------------------------------------------------------
(* The binding of bases to ACKs *)

\* Strengthens AckBindingHolds: the inventory is nowhere ahead of the newest ACK.
Bound(row, set) ==
    /\ \A d \in set : d <= row.latest
    /\ row.latest # 0 =>
         /\ row.acked \in set /\ row.acked = row.latest
         /\ \A s \in Changed[row.acked] : row.inventory[s] = SectionRevision(s, row.acked)
    /\ \A s \in Sections : row.inventory[s] <= SectionRevision(s, row.latest)

Bindings == \A c \in Consumers : Bound(state[c], acks[c])

LEMMA AckBinds ==
    ASSUME TypeOK, NEW c \in Consumers, Bound(state[c], acks[c]), NEW d \in Deliveries, NEW rows
    PROVE  Bound(Acknowledged(state[c], d, rows), acks[c] \union {d})
  <1> DEFINE row == state[c]
             pending == Outstanding(rows)
             merged == Merged(row.inventory, d)
             new == [acked |-> d, latest |-> d, pending |-> pending, inventory |-> merged]
             old == [row EXCEPT !.pending = pending]
  <1>1. /\ row \in ConsumerState /\ row.latest \in 0 .. Snapshots
        /\ d \in 1 .. Snapshots /\ Snapshots \in Nat
        /\ acks[c] \subseteq 1 .. Snapshots
    BY DeliveriesType DEF TypeOK, ConsumerState
  <1>2. \A s \in Sections : row.inventory[s] \in Nat
    BY <1>1 DEF ConsumerState, Inventory
  <1>3. Changed[d] \subseteq Sections
    BY <1>1, SnapshotAssumption DEF Revisions
  <1>4. CASE row.latest <= d
    <2>1. \A s \in Sections : /\ row.inventory[s] <= SectionRevision(s, d)
                              /\ SectionRevision(s, d) \in Nat
      <3> SUFFICES ASSUME NEW s \in Sections
                   PROVE  /\ row.inventory[s] <= SectionRevision(s, d)
                          /\ SectionRevision(s, d) \in Nat
        OBVIOUS
      <3>1. /\ SectionRevision(s, row.latest) <= SectionRevision(s, d)
            /\ SectionRevision(s, d) \in Nat /\ SectionRevision(s, row.latest) \in Nat
        BY <1>1, <1>4, SectionRevisionGrows, SectionRevisionType
      <3>2. row.inventory[s] <= SectionRevision(s, row.latest)
        BY DEF Bound
      <3> QED BY <1>2, <3>1, <3>2
    <2>2. \A s \in Sections : /\ merged[s] <= SectionRevision(s, d)
                              /\ s \in Changed[d] => merged[s] = SectionRevision(s, d)
      BY <1>2, <2>1 DEF Merged, Larger
    <2>3. \A x \in acks[c] \union {d} : x <= d
      BY <1>1, <1>4 DEF Bound
    <2>4. /\ new.latest = d /\ new.acked = d /\ new.inventory = merged
      OBVIOUS
    <2>5. Acknowledged(row, d, rows) = new
      BY <1>4 DEF Acknowledged
    <2> HIDE DEF new, merged
    <2> QED BY <1>3, <2>2, <2>3, <2>4, <2>5 DEF Bound
  <1>5. CASE ~ (row.latest <= d)
    <2>1. d <= row.latest
      BY <1>1, <1>5
    <2>2. old.latest = row.latest /\ old.acked = row.acked /\ old.inventory = row.inventory
      BY <1>1 DEF ConsumerState
    <2>3. Acknowledged(row, d, rows) = old
      BY <1>5 DEF Acknowledged
    <2> HIDE DEF old
    <2> QED BY <2>1, <2>2, <2>3 DEF Bound
  <1> QED BY <1>4, <1>5

LEMMA NextBound ==
    ASSUME TypeOK, Bindings, [Next]_vars
    PROVE  Bindings'
  <1>1. ASSUME NEW c \in Consumers, NEW d \in Deliveries, Ack(c, d)
        PROVE  Bindings'
    <2> DEFINE rows == [target[c] EXCEPT ![d].status = "ACKNOWLEDGED"]
    <2>1. /\ state' = [state EXCEPT ![c] = Acknowledged(state[c], d, rows)]
          /\ acks' = [acks EXCEPT ![c] = acks[c] \union {d}]
      BY <1>1 DEF Ack, AcceptAck
    <2> HIDE DEF rows
    <2>2. Bound(Acknowledged(state[c], d, rows), acks[c] \union {d})
      BY AckBinds DEF Bindings
    <2> QED BY <2>1, <2>2 DEF TypeOK, Bindings
  <1>2. ASSUME NEW c \in Consumers, NEW d \in Deliveries,
               NEW outcome \in {"NOTIFIED", "FAILED"}, RecordAttempt(c, d, outcome)
        PROVE  Bindings'
    <2>1. PICK pending : state' = [state EXCEPT ![c].pending = pending]
      BY <1>2 DEF RecordAttempt
    <2>2. \A x \in Consumers : /\ state'[x].latest = state[x].latest
                               /\ state'[x].acked = state[x].acked
                               /\ state'[x].inventory = state[x].inventory
      BY <2>1 DEF TypeOK, ConsumerState
    <2>3. acks' = acks
      BY <1>2 DEF RecordAttempt
    <2> QED BY <2>2, <2>3 DEF Bindings, Bound
  <1>3. ASSUME UNCHANGED <<state, acks>>
        PROVE  Bindings'
    BY <1>3 DEF Bindings
  <1>4. ASSUME NEW c \in Consumers,
               \/ Save(c) \/ LoseCopy(c) \/ Fetch(c) \/ FetchFull(c)
               \/ \E d \in Deliveries : Receive(c, d)
               \/ \E profile \in Profiles : Plan(c, profile)
        PROVE  UNCHANGED <<state, acks>>
    BY <1>4 DEF Save, LoseCopy, Fetch, FetchFull, Receive, Plan, producer
  <1>5. ASSUME Publish \/ UNCHANGED vars
        PROVE  UNCHANGED <<state, acks>>
    BY <1>5 DEF Publish, vars, producer
  <1> HIDE DEF Bindings
  <1> QED BY <1>1, <1>2, <1>3, <1>4, <1>5 DEF Next

\* The base of deltas is the newest delivery that was acknowledged, with its sections in the
\* inventory, whatever profiles are planned with.
THEOREM AckBindingThm == Spec => []AckBindingHolds
  <1>1. Init => Bindings
    <2> SUFFICES ASSUME Init, NEW c \in Consumers
                 PROVE  Bound(state[c], acks[c])
      BY DEF Bindings
    <2>1. /\ state[c].latest = 0 /\ acks[c] = {}
          /\ \A s \in Sections : state[c].inventory[s] = 0
      BY DEF Init, Nothing
    <2>2. \A s \in Sections : SectionRevision(s, 0) \in Nat
      BY SectionRevisionType, SnapshotAssumption
    <2> QED BY <2>1, <2>2 DEF Bound
  <1>2. TypeOK /\ Bindings /\ [Next]_vars => Bindings'
    BY NextBound
  <1>3. Bindings => AckBindingHolds
    BY DEF Bindings, Bound, AckBindingHolds
  <1> QED BY <1>1, <1>2, <1>3, DeliveryTypeCorrect, PTL DEF Spec
=============================================================================
