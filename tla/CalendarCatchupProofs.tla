------------------------ MODULE CalendarCatchupProofs ------------------------
(***************************************************************************)
(* Proofs about CalendarCatchup and the scans of DatumLifecycle in it, for *)
(* every set of occurrences and scanners and every size of the batches.    *)
(***************************************************************************)
EXTENDS CalendarCatchup, FiniteSetTheorems, TLAPS

USE KeysAssumption, ScannerAssumption, BoundsAssumption, TickAssumption

\* A row is LEASED exactly while it has an owner and a lease.
GoodRow(r) ==
    /\ r \in Row
    /\ (r.status = "LEASED") = (r.owner # None)
    /\ (r.status = "LEASED") = (r.lease # "none")

\* A scan that writes a row back knows which; one that is idle has nothing left; it
\* finishes its partial rows with the others that are left; and it loses a race
\* only while it saves.
ScanOK(state) ==
    /\ state \in ScanState
    /\ state.pc \in {"missing", "failing"} => state.missed \in Keys
    /\ state.pc = "idle" => state.residual = {}
    /\ state.pc # "finishing" => state.partial \subseteq state.residual
    /\ state.raced => state.pc = "saving"

\* What a step of a scan leaves alone.
Same(state, before) ==
    /\ state.residual = before.residual /\ state.partial = before.partial
    /\ state.spent = before.spent /\ (state.raced => before.raced)

\* The part of TypeOK about the occurrences.

LifecycleOK ==
    /\ phase \in [Keys -> {"scheduled", "released", "expired"}]
    /\ feed \in [Keys -> Actual]
    /\ row \in [Keys -> Row] /\ \A k \in Keys : GoodRow(row[k])
    /\ snapshot \in [Keys -> Actual]
    /\ scan \in [Scanners -> ScanState] /\ \A s \in Scanners : ScanOK(scan[s])
    /\ other \in [Keys -> Actual] \union {None}
    /\ disturbed \in 0 .. Disturbances

\* The part about the tick.
TickOK == tick \in TickState /\ checkpoint \in Completion \union {"none"}

TypeInv == LifecycleOK /\ TickOK

\* Together they give the type invariant.
LEMMA TypeParts == TypeInv => TypeOK
  BY DEF TypeInv, LifecycleOK, TickOK, TypeOK, GoodRow

-----------------------------------------------------------------------------
(* Rows *)

\* The rows that are written, stored and projected are well formed.
LEMMA WrittenType ==
    ASSUME NEW status \in {"READY", "BACKOFF", "COMPLETED", "PARTIAL", "QUEUED", "IDLE", "UNRESOLVED",
                           "DISABLED", "NO_DATA"},
           NEW event \in BOOLEAN, NEW actual \in Actual, NEW retry \in Times, NEW refresh \in Times
    PROVE  /\ GoodRow(Written(status, event, actual, retry, refresh))
           /\ Written(status, event, actual, retry, refresh).status = status
  BY DEF Written, GoodRow, Row

\* So are stored results ...
LEMMA StoredType ==
    ASSUME NEW status \in {"COMPLETED", "PARTIAL"}, NEW v \in Actual
    PROVE  GoodRow(Stored(status, v)) /\ Stored(status, v).status = status
  BY DEF Stored, Written, GoodRow, Row, Times

\* ... and projected occurrences.
LEMMA ProjectedType ==
    ASSUME NEW k \in Keys, NEW v \in Actual, NEW aged \in BOOLEAN
    PROVE  GoodRow(Projected(k, v, aged)) /\ Projected(k, v, aged).status \in {"IDLE", "READY"}
  BY DEF Projected, Written, GoodRow, Row, Times, Actual

\* The passing of time changes the times of a row only.
LEMMA ElapsedType ==
    ASSUME NEW r, GoodRow(r), NEW from
    PROVE  /\ GoodRow(Elapsed(r, from)) /\ Elapsed(r, from).status = r.status
           /\ GoodRow(AtTick(r)) /\ AtTick(r).status = r.status
  <1>1. GoodRow(Elapsed(r, from)) /\ Elapsed(r, from).status = r.status
    <2>1. /\ Elapsed(r, from).status = r.status /\ Elapsed(r, from).owner = r.owner
          /\ Elapsed(r, from).lease = r.lease
      BY DEF GoodRow, Row, Elapsed
    <2>2. Elapsed(r, from) \in Row
      BY DEF GoodRow, Row, Elapsed, Times
    <2> QED
      BY <2>1, <2>2 DEF GoodRow
  <1>2. GoodRow(AtTick(r)) /\ AtTick(r).status = r.status
    <2>1. /\ AtTick(r).status = r.status /\ AtTick(r).owner = r.owner
          /\ AtTick(r).lease = r.lease
      BY DEF GoodRow, Row, AtTick
    <2>2. AtTick(r) \in Row
      BY DEF GoodRow, Row, AtTick, Times
    <2> QED
      BY <2>1, <2>2 DEF GoodRow
  <1> QED
    BY <1>1, <1>2

\* Overwriting one row with a well formed one keeps the table well formed.
LEMMA UpsertType ==
    ASSUME LifecycleOK, NEW k \in Keys, NEW r, GoodRow(r), Upsert(k, r)
    PROVE  row' \in [Keys -> Row] /\ \A j \in Keys : GoodRow(row'[j])
  BY DEF LifecycleOK, Upsert, GoodRow

-----------------------------------------------------------------------------
(* Scans *)

LEMMA PhaseNames ==
    /\ "idle" \in ScanPhases /\ "scanning" \in ScanPhases /\ "missing" \in ScanPhases
    /\ "failing" \in ScanPhases /\ "projecting" \in ScanPhases /\ "saving" \in ScanPhases
    /\ "flushing" \in ScanPhases /\ "finishing" \in ScanPhases
  BY DEF ScanPhases

\* A scan that has nothing to do is well formed.
LEMMA IdleType == ScanOK(IdleScan) /\ IdleScan.pc = "idle"
  <1>1. Nothing \in [Keys -> Actual] /\ [k \in Keys |-> [event |-> FALSE, actual |-> 0]]
                                          \in [Keys -> [event : BOOLEAN, actual : Actual]]
    BY DEF Nothing, Actual
  <1> QED
    BY <1>1, PhaseNames DEF IdleScan, ScanState, ScanOK

\* Moving one scan to a well formed state keeps all of them well formed.
LEMMA ScanMoves ==
    ASSUME LifecycleOK, NEW s \in Scanners, NEW r, ScanOK(r), scan' = [scan EXCEPT ![s] = r]
    PROVE  scan' \in [Scanners -> ScanState] /\ \A q \in Scanners : ScanOK(scan'[q])
  BY DEF LifecycleOK, ScanOK

\* Claimed rows are leased to a scan that has them, and only them, to do.
LEMMA ClaimType ==
    ASSUME LifecycleOK, NEW s \in Scanners, NEW limit \in Nat, Claim(s, limit)
    PROVE  /\ LifecycleOK'
           /\ scan'[s].todo \subseteq Keys
           /\ Cardinality(scan'[s].todo) \in 0 .. limit
           /\ \A k \in Keys : row'[k].status \in {row[k].status, "LEASED"}
           /\ \A q \in Scanners \ {s} : scan'[q] = scan[q]
           /\ scan[s].pc = "idle" /\ scan'[s].spent = {}
           /\ UNCHANGED <<phase, disturbed>>
  <1>1. PICK due \in SUBSET Claimable :
          /\ Cardinality(due) <= limit
          /\ row' = [k \in Keys |-> IF k \in due THEN [row[k] EXCEPT !.status = "LEASED", !.owner = s,
                                                                     !.lease = "live"]
                                                 ELSE row[k]]
          /\ scan' = [scan EXCEPT ![s] =
                        [IdleScan EXCEPT !.pc = "scanning", !.todo = due,
                           !.copy = [k \in Keys |-> IF k \in due
                                                    THEN [event |-> row[k].event, actual |-> row[k].actual]
                                                    ELSE IdleScan.copy[k]]]]
    BY DEF Claim
  <1> DEFINE copy == [k \in Keys |-> IF k \in due THEN [event |-> row[k].event, actual |-> row[k].actual]
                                     ELSE IdleScan.copy[k]]
             claimed == [IdleScan EXCEPT !.pc = "scanning", !.todo = due, !.copy = copy]
  <1>2. due \subseteq Keys
    BY DEF Claimable
  <1>3. copy \in [Keys -> [event : BOOLEAN, actual : Actual]]
    BY IdleType DEF LifecycleOK, Row, ScanOK, ScanState
  <1> HIDE DEF copy
  <1>4. ScanOK(claimed) /\ claimed.todo = due /\ claimed.spent = {}
    <2>1. IdleScan.spent = {}
      BY DEF IdleScan
    <2> QED
      BY <1>2, <1>3, <2>1, IdleType, PhaseNames DEF ScanOK, ScanState
  <1>5. scan' = [scan EXCEPT ![s] = claimed]
    BY <1>1 DEF copy
  <1> HIDE DEF claimed
  <1>6. scan' \in [Scanners -> ScanState] /\ \A q \in Scanners : ScanOK(scan'[q])
    BY <1>4, <1>5, ScanMoves
  <1> DEFINE leased(k) == [row[k] EXCEPT !.status = "LEASED", !.owner = s, !.lease = "live"]
  <1>7. \A k \in Keys : GoodRow(leased(k)) /\ leased(k).status = "LEASED"
    <2> TAKE k \in Keys
    <2>1. row[k] \in Row
      BY DEF LifecycleOK
    <2> DEFINE r == row[k]
    <2>2. [r EXCEPT !.status = "LEASED", !.owner = s, !.lease = "live"] \in Row
      BY <2>1 DEF Row
    <2> QED
      BY <2>1, <2>2 DEF GoodRow, Row
  <1>8. /\ row' \in [Keys -> Row]
        /\ \A k \in Keys : GoodRow(row'[k]) /\ row'[k].status \in {row[k].status, "LEASED"}
    <2>1. row' = [k \in Keys |-> IF k \in due THEN leased(k) ELSE row[k]]
      BY <1>1
    <2> HIDE DEF leased
    <2> QED
      BY <1>7, <2>1 DEF LifecycleOK, GoodRow
  <1>9. Cardinality(due) \in 0 .. limit
    <2>1. Cardinality(due) \in Nat
      BY <1>2, FS_Subset, FS_CardinalityType
    <2>2. Cardinality(due) <= limit
      BY <1>1
    <2> QED
      BY <2>1, <2>2
  <1>10. /\ scan'[s].todo = due /\ scan'[s].spent = {}
         /\ \A q \in Scanners \ {s} : scan'[q] = scan[q]
    BY <1>4, <1>5 DEF LifecycleOK
  <1>11. UNCHANGED <<phase, feed, snapshot, other, disturbed>> /\ scan[s].pc = "idle"
    BY DEF Claim
  <1>12. LifecycleOK'
    BY <1>6, <1>8, <1>11 DEF LifecycleOK
  <1> QED
    BY <1>2, <1>8, <1>9, <1>10, <1>11, <1>12

\* What a scan is after the resolver ran on its copy of k: what it keeps, and the
\* ways it goes on.
Taken(s, k, v) == [scan[s] EXCEPT !.todo = @ \ {k}, !.copy[k] = IdleScan.copy[k], !.resolved[k] = v]
Sent(s, k, v, partial) ==
    [Taken(s, k, v) EXCEPT !.pc = "projecting", !.results = {k}, !.seen = snapshot,
                           !.partial = IF partial THEN @ \union {k} ELSE @,
                           !.residual = IF partial THEN @ \union {k} ELSE @]
Missed(s, k) == [scan[s] EXCEPT !.todo = @ \ {k}, !.pc = "missing", !.missed = k]
LeftOver(s, k) ==
    [scan[s] EXCEPT !.todo = @ \ {k}, !.residual = @ \union {k},
                    !.spent = IF Terminal(s, k) THEN @ \union {k} ELSE @, !.copy[k] = IdleScan.copy[k]]
Failing(s, k) == [scan[s] EXCEPT !.todo = @ \ {k}, !.pc = "failing", !.missed = k]

\* An item that is resolved leaves one of them, a failure after a disturbance.
LEMMA ResolveMoves ==
    ASSUME LifecycleOK, NEW s \in Scanners, Resolve(s)
    PROVE  /\ scan[s].pc = "scanning"
           /\ \E k \in scan[s].todo, v \in Actual :
                \/ /\ UNCHANGED disturbed
                   /\ \/ scan' = [scan EXCEPT ![s] = Taken(s, k, v)]
                      \/ \E partial \in BOOLEAN : scan' = [scan EXCEPT ![s] = Sent(s, k, v, partial)]
                      \/ scan' = [scan EXCEPT ![s] = Missed(s, k)]
                      \/ scan' = [scan EXCEPT ![s] = LeftOver(s, k)]
                \/ Disturb /\ scan' = [scan EXCEPT ![s] = Failing(s, k)]
  <1>1. PICK k \in scan[s].todo :
          ResolveCommitted(s, k) \/ ResolveActual(s, k) \/ ResolveNothing(s, k) \/ ResolveFails(s, k)
    BY DEF Resolve
  <1>2. scan[s] \in ScanState /\ k \in Keys
    BY DEF LifecycleOK, ScanState
  <1>3. scan[s].copy[k].actual \in Actual /\ feed[k] \in Actual
    BY <1>2 DEF ScanState, LifecycleOK
  <1>4. scan[s].pc = "scanning"
    BY DEF Resolve
  <1>5. ASSUME NEW v \in Actual, NEW partial \in BOOLEAN, Deliver(s, k, v, partial)
        PROVE  /\ UNCHANGED disturbed
               /\ \/ scan' = [scan EXCEPT ![s] = Taken(s, k, v)]
                  \/ scan' = [scan EXCEPT ![s] = Sent(s, k, v, partial)]
    BY <1>5 DEF Deliver, Taken, Sent
  <1>6. CASE ResolveCommitted(s, k)
    BY <1>3, <1>4, <1>5, <1>6 DEF ResolveCommitted
  <1>7. CASE ResolveActual(s, k)
    <2> DEFINE partial == k \in Gaps
    <2>1. Deliver(s, k, feed[k], partial) /\ partial \in BOOLEAN
      BY <1>7 DEF ResolveActual
    <2> HIDE DEF partial
    <2> QED
      BY <1>3, <1>4, <1>5, <2>1
  <1>8. CASE ResolveNothing(s, k)
    BY <1>3, <1>4, <1>8 DEF ResolveNothing, Missed, LeftOver
  <1>9. CASE ResolveFails(s, k)
    <2>1. scan' = [scan EXCEPT ![s] = Failing(s, k)] /\ Disturb
      BY <1>2, <1>9 DEF ResolveFails, Failing, LifecycleOK, ScanState
    <2> QED
      BY <1>3, <1>4, <2>1
  <1> QED
    BY <1>1, <1>6, <1>7, <1>8, <1>9

\* All of them are well formed.
LEMMA ResolvedType ==
    ASSUME LifecycleOK, NEW s \in Scanners, scan[s].pc = "scanning", NEW k \in scan[s].todo,
           NEW v \in Actual, NEW partial \in BOOLEAN
    PROVE  /\ ScanOK(Taken(s, k, v)) /\ ScanOK(Sent(s, k, v, partial)) /\ ScanOK(Missed(s, k))
           /\ ScanOK(LeftOver(s, k)) /\ ScanOK(Failing(s, k))
           /\ Taken(s, k, v).pc = "scanning" /\ LeftOver(s, k).pc = "scanning"
  <1>1. scan[s] \in ScanState /\ k \in Keys /\ snapshot \in [Keys -> Actual]
    BY DEF LifecycleOK, ScanState
  <1>2. IdleScan.copy[k] \in [event : BOOLEAN, actual : Actual]
    BY <1>1, IdleType DEF ScanOK, ScanState
  <1>3. Taken(s, k, v) \in ScanState /\ Taken(s, k, v).pc = "scanning"
    BY <1>1, <1>2 DEF Taken, ScanState
  <1>4. Sent(s, k, v, partial) \in ScanState /\ Sent(s, k, v, partial).pc = "projecting"
    <2> DEFINE taken == Taken(s, k, v)
               partials == IF partial THEN taken.partial \union {k} ELSE taken.partial
               residuals == IF partial THEN taken.residual \union {k} ELSE taken.residual
    <2>1. taken \in ScanState /\ partials \in SUBSET Keys /\ residuals \in SUBSET Keys /\ {k} \in SUBSET Keys
      BY <1>1, <1>3 DEF ScanState
    <2> DEFINE ready == [taken EXCEPT !.pc = "projecting", !.results = {k}, !.seen = snapshot]
    <2>2. Sent(s, k, v, partial) = [ready EXCEPT !.partial = partials, !.residual = residuals]
      BY DEF Sent
    <2> HIDE DEF taken, partials, residuals
    <2>3. ready \in ScanState /\ ready.pc = "projecting"
      BY <1>1, <2>1, PhaseNames DEF ScanState
    <2> HIDE DEF ready
    <2> DEFINE partly == [ready EXCEPT !.partial = partials]
    <2>4. partly \in ScanState /\ partly.pc = "projecting"
      BY <2>1, <2>3 DEF ScanState
    <2> HIDE DEF partly
    <2>5. Sent(s, k, v, partial) = [partly EXCEPT !.residual = residuals]
      BY <2>2 DEF partly
    <2> QED
      BY <2>1, <2>4, <2>5 DEF ScanState
  <1>5. Missed(s, k) \in ScanState /\ Missed(s, k).pc = "missing" /\ Missed(s, k).missed = k
    BY <1>1, PhaseNames DEF Missed, ScanState
  <1>6. Failing(s, k) \in ScanState /\ Failing(s, k).pc = "failing" /\ Failing(s, k).missed = k
    BY <1>1, PhaseNames DEF Failing, ScanState
  <1>7. LeftOver(s, k) \in ScanState /\ LeftOver(s, k).pc = "scanning"
    <2> DEFINE copies == [scan[s].copy EXCEPT ![k] = IdleScan.copy[k]]
               left == scan[s].todo \ {k}
               residuals == scan[s].residual \union {k}
               spents == IF Terminal(s, k) THEN scan[s].spent \union {k} ELSE scan[s].spent
    <2> DEFINE taken == [scan[s] EXCEPT !.todo = left, !.residual = residuals]
    <2>1. LeftOver(s, k) = [taken EXCEPT !.spent = spents, !.copy = copies]
      BY <1>1 DEF LeftOver, ScanState
    <2>2. left \in SUBSET Keys /\ residuals \in SUBSET Keys /\ spents \in SUBSET Keys
      BY <1>1 DEF ScanState
    <2>3. copies \in [Keys -> [event : BOOLEAN, actual : Actual]]
      BY <1>1, <1>2 DEF ScanState
    <2> HIDE DEF copies, left, residuals, spents
    <2>4. taken \in ScanState /\ taken.pc = "scanning"
      BY <1>1, <2>2 DEF ScanState
    <2> HIDE DEF taken
    <2> QED
      BY <2>1, <2>2, <2>3, <2>4 DEF ScanState
  <1>8. scan[s].partial \subseteq scan[s].residual /\ ~ scan[s].raced
    BY DEF LifecycleOK, ScanOK
  <1>9. /\ Taken(s, k, v).partial = scan[s].partial /\ Taken(s, k, v).residual = scan[s].residual
        /\ ~ Taken(s, k, v).raced
    BY <1>1, <1>8 DEF Taken, ScanState
  <1>10. ScanOK(Sent(s, k, v, partial))
    <2> DEFINE r == Sent(s, k, v, partial)
    <2> HIDE DEF Taken
    <2>1. ~ r.raced
      BY <1>3, <1>9 DEF Sent, ScanState
    <2>2. r.partial \subseteq r.residual
      BY <1>3, <1>8, <1>9 DEF Sent, ScanState
    <2> HIDE DEF r
    <2> QED
      BY <1>4, <2>1, <2>2 DEF ScanOK, r
  <1>11. ScanOK(Taken(s, k, v))
    BY <1>3, <1>8, <1>9 DEF ScanOK
  <1>12. ASSUME NEW r, r = Missed(s, k) \/ r = Failing(s, k)
         PROVE  ScanOK(r)
    <2>1. r.residual = scan[s].residual /\ r.partial = scan[s].partial /\ ~ r.raced
      <3>1. CASE r = Missed(s, k)
        BY <1>1, <1>8, <3>1 DEF Missed, ScanState
      <3>2. CASE r = Failing(s, k)
        BY <1>1, <1>8, <3>2 DEF Failing, ScanState
      <3> QED
        BY <1>12, <3>1, <3>2
    <2>2. r \in ScanState /\ r.pc \in {"missing", "failing"} /\ r.missed = k
      BY <1>5, <1>6, <1>12
    <2> QED
      BY <1>1, <1>8, <2>1, <2>2 DEF ScanOK
  <1>13. ScanOK(LeftOver(s, k))
    <2>1. /\ LeftOver(s, k).residual = scan[s].residual \union {k}
          /\ LeftOver(s, k).partial = scan[s].partial /\ ~ LeftOver(s, k).raced
      BY <1>1, <1>8 DEF LeftOver, ScanState
    <2> QED
      BY <1>7, <1>8, <2>1 DEF ScanOK
  <1> QED
    BY <1>3, <1>7, <1>10, <1>11, <1>12, <1>13

\* So the resolver keeps the scans well formed.
LEMMA ResolveType ==
    ASSUME LifecycleOK, NEW s \in Scanners, Resolve(s)
    PROVE  LifecycleOK'
  <1>1. scan' \in [Scanners -> ScanState] /\ \A q \in Scanners : ScanOK(scan'[q])
    BY ResolveMoves, ResolvedType, ScanMoves
  <1>2. disturbed' \in 0 .. Disturbances
    <2>1. Disturb \/ UNCHANGED disturbed
      BY ResolveMoves
    <2> QED
      BY <2>1 DEF Disturb, LifecycleOK
  <1>3. UNCHANGED <<phase, feed, row, snapshot, other>>
    BY DEF Resolve
  <1> QED
    BY <1>1, <1>2, <1>3 DEF LifecycleOK

\* The row a scan writes back is the claimed copy, to try again or as a gap, or
\* what is left after a failure.
LEMMA WriteBackMoves ==
    ASSUME LifecycleOK, NEW s \in Scanners, WriteBack(s)
    PROVE  /\ scan[s].missed \in Keys
           /\ \E r : /\ GoodRow(r) /\ Upsert(scan[s].missed, r)
                     /\ r.status \in {"BACKOFF", "NO_DATA"}
                     /\ r.status = "NO_DATA" => phase[scan[s].missed] = "expired"
           /\ \E q : /\ ScanOK(q) /\ q.pc = "scanning" /\ scan' = [scan EXCEPT ![s] = q]
                     /\ Same(q, scan[s])
  <1> DEFINE k == scan[s].missed
             copy == scan[s].copy[k]
             r == IF scan[s].pc = "failing" THEN Written("BACKOFF", FALSE, 0, "later", "later")
                  ELSE Written(IF Terminal(s, k) THEN "NO_DATA" ELSE "BACKOFF",
                               copy.event, copy.actual, "later", "later")
             q == [scan[s] EXCEPT !.pc = "scanning", !.missed = None, !.copy[k] = IdleScan.copy[k]]
  <1>1. scan[s] \in ScanState /\ k \in Keys
    BY DEF LifecycleOK, ScanOK, WriteBack
  <1>2. copy.event \in BOOLEAN /\ copy.actual \in Actual
    BY <1>1 DEF ScanState
  <1>3. /\ GoodRow(r) /\ r.status \in {"BACKOFF", "NO_DATA"}
        /\ r.status = "NO_DATA" => Terminal(s, k)
    BY <1>2 DEF Written, GoodRow, Row, Times, Actual
  <1>4. IdleScan.copy[k] \in [event : BOOLEAN, actual : Actual]
    BY <1>1, IdleType DEF ScanOK, ScanState
  <1>5. ScanOK(q) /\ q.pc = "scanning" /\ Same(q, scan[s])
    <2>1. ScanOK(scan[s]) /\ scan[s].pc # "finishing" /\ ~ scan[s].raced
      BY DEF WriteBack, LifecycleOK, ScanOK
    <2> QED
      BY <1>1, <1>4, <2>1, PhaseNames DEF ScanOK, ScanState, Same
  <1>6. Upsert(k, r) /\ scan' = [scan EXCEPT ![s] = q]
    BY DEF WriteBack
  <1> HIDE DEF r, q
  <1> QED
    BY <1>1, <1>3, <1>5, <1>6 DEF Terminal

\* Writing it back keeps rows and scans well formed.
LEMMA WriteBackType ==
    ASSUME LifecycleOK, NEW s \in Scanners, WriteBack(s)
    PROVE  LifecycleOK'
  <1>1. row' \in [Keys -> Row] /\ \A k \in Keys : GoodRow(row'[k])
    BY WriteBackMoves, UpsertType
  <1>2. scan' \in [Scanners -> ScanState] /\ \A q \in Scanners : ScanOK(scan'[q])
    BY WriteBackMoves, ScanMoves
  <1>3. UNCHANGED <<phase, feed, snapshot, other, disturbed>>
    BY DEF WriteBack
  <1> QED
    BY <1>1, <1>2, <1>3 DEF LifecycleOK

\* Between its items and its results a scan writes nothing.
LEMMA QuietMoves ==
    ASSUME LifecycleOK, NEW s \in Scanners, EndOfItems(s) \/ Project(s)
    PROVE  /\ \E q : ScanOK(q) /\ Same(q, scan[s]) /\ q.pc # "idle" /\ scan' = [scan EXCEPT ![s] = q]
           /\ UNCHANGED <<phase, feed, row, snapshot, other, disturbed>>
  <1>1. /\ scan[s] \in ScanState /\ ScanOK(scan[s]) /\ snapshot \in [Keys -> Actual]
        /\ Nothing \in [Keys -> Actual]
    BY DEF LifecycleOK, Nothing, Actual
  <1>2. CASE EndOfItems(s)
    <2> DEFINE batch == {k \in Keys : scan[s].resolved[k] # 0}
               projecting == [scan[s] EXCEPT !.pc = "projecting", !.results = batch, !.seen = snapshot]
               finishing == [scan[s] EXCEPT !.pc = "finishing"]
    <2>1. scan[s].pc = "scanning" /\ (\/ scan' = [scan EXCEPT ![s] = projecting]
                                      \/ scan' = [scan EXCEPT ![s] = finishing])
      BY <1>2 DEF EndOfItems
    <2>2. batch \subseteq Keys
      OBVIOUS
    <2> HIDE DEF batch
    <2>3. ScanOK(projecting) /\ Same(projecting, scan[s]) /\ projecting.pc # "idle"
      BY <1>1, <2>1, <2>2, PhaseNames DEF ScanOK, ScanState, Same
    <2>4. ScanOK(finishing) /\ Same(finishing, scan[s]) /\ finishing.pc # "idle"
      BY <1>1, <2>1, PhaseNames DEF ScanOK, ScanState, Same
    <2> HIDE DEF projecting, finishing
    <2> QED
      BY <1>2, <2>1, <2>3, <2>4 DEF EndOfItems
  <1>3. CASE Project(s)
    <2> DEFINE saving == [scan[s] EXCEPT !.pc = "saving", !.raced = FALSE]
               flushing == [scan[s] EXCEPT !.pc = "flushing", !.seen = Nothing]
    <2>1. scan[s].pc = "projecting" /\ (\/ scan' = [scan EXCEPT ![s] = saving]
                                        \/ scan' = [scan EXCEPT ![s] = flushing])
      BY <1>3 DEF Project
    <2>2. ScanOK(saving) /\ Same(saving, scan[s]) /\ saving.pc # "idle"
      BY <1>1, <2>1, PhaseNames DEF ScanOK, ScanState, Same
    <2>3. ScanOK(flushing) /\ Same(flushing, scan[s]) /\ flushing.pc # "idle"
      BY <1>1, <2>1, PhaseNames DEF ScanOK, ScanState, Same
    <2> HIDE DEF saving, flushing
    <2> QED
      BY <1>3, <2>1, <2>2, <2>3 DEF Project
  <1> QED
    BY <1>2, <1>3

\* So it keeps everything well formed.
LEMMA QuietType ==
    ASSUME LifecycleOK, NEW s \in Scanners, EndOfItems(s) \/ Project(s)
    PROVE  LifecycleOK'
  <1>1. scan' \in [Scanners -> ScanState] /\ \A q \in Scanners : ScanOK(scan'[q])
    BY QuietMoves, ScanMoves
  <1>2. UNCHANGED <<phase, feed, row, snapshot, other, disturbed>>
    BY QuietMoves
  <1> QED
    BY <1>1, <1>2 DEF LifecycleOK

\* A scan whose results are written is at its next item, or has more of them.
LEMMA DeliveredType ==
    ASSUME LifecycleOK, NEW s \in Scanners, scan[s].pc \in {"flushing", "saving"}, NEW done
    PROVE  /\ ScanOK(Delivered(scan[s], done)) /\ Same(Delivered(scan[s], done), scan[s])
           /\ ~ Delivered(scan[s], done).raced
           /\ Delivered(scan[s], done).pc # "idle"
           /\ scan[s].results \subseteq done => Delivered(scan[s], done).pc = "scanning"
  <1>1. scan[s] \in ScanState /\ ScanOK(scan[s])
    BY DEF LifecycleOK
  <1>2. Nothing \in [Keys -> Actual] /\ [k \in Keys |-> IF k \in done THEN 0 ELSE scan[s].resolved[k]]
                                          \in [Keys -> Actual]
    BY <1>1 DEF Nothing, Actual, ScanState
  <1>3. /\ Delivered(scan[s], done) \in ScanState
        /\ Delivered(scan[s], done).pc = IF scan[s].results \subseteq done THEN "scanning"
                                                                         ELSE scan[s].pc
    BY <1>1, <1>2, PhaseNames DEF Delivered, ScanState
  <1>4. Same(Delivered(scan[s], done), scan[s]) /\ ~ Delivered(scan[s], done).raced
    BY <1>1 DEF Delivered, ScanState, Same
  <1>5. ScanOK(Delivered(scan[s], done))
    BY <1>1, <1>3, <1>4 DEF ScanOK, Same
  <1> QED
    BY <1>3, <1>4, <1>5

\* One result written to its row alone: partial only if the scan says so.
LEMMA FlushMoves ==
    ASSUME LifecycleOK, NEW s \in Scanners, Flush(s)
    PROVE  /\ scan[s].pc = "flushing"
           /\ \E k \in Keys : \E r, q :
                /\ GoodRow(r) /\ Upsert(k, r) /\ r.status \in {"COMPLETED", "PARTIAL"}
                /\ r.status = "PARTIAL" => k \in scan[s].partial
                /\ ScanOK(q) /\ Same(q, scan[s]) /\ q.pc # "idle" /\ ~ q.raced
                /\ scan' = [scan EXCEPT ![s] = q]
           /\ UNCHANGED <<phase, feed, snapshot, other, disturbed>>
  <1>1. PICK k \in scan[s].results : /\ Upsert(k, Stored(FinalStatus(s, k), scan[s].resolved[k]))
                                     /\ scan' = [scan EXCEPT ![s] = Delivered(@, {k})]
    BY DEF Flush
  <1>2. scan[s] \in ScanState /\ scan[s].pc = "flushing"
    BY DEF LifecycleOK, Flush
  <1>3. k \in Keys /\ scan[s].resolved[k] \in Actual
    BY <1>2 DEF ScanState
  <1>4. /\ FinalStatus(s, k) \in {"COMPLETED", "PARTIAL"}
        /\ FinalStatus(s, k) = "PARTIAL" => k \in scan[s].partial
    BY DEF FinalStatus
  <1>5. scan' = [scan EXCEPT ![s] = Delivered(scan[s], {k})]
    BY <1>1 DEF LifecycleOK
  <1>6. UNCHANGED <<phase, feed, snapshot, other, disturbed>>
    BY DEF Flush
  <1> DEFINE r == Stored(FinalStatus(s, k), scan[s].resolved[k])
             q == Delivered(scan[s], {k})
  <1>7. GoodRow(r) /\ r.status = FinalStatus(s, k)
    BY <1>3, <1>4, StoredType
  <1>8. ScanOK(q) /\ Same(q, scan[s]) /\ q.pc # "idle" /\ ~ q.raced
    BY <1>2, DeliveredType
  <1>9. Upsert(k, r)
    BY <1>1
  <1> HIDE DEF r, q
  <1>10. /\ GoodRow(r) /\ Upsert(k, r) /\ r.status \in {"COMPLETED", "PARTIAL"}
         /\ r.status = "PARTIAL" => k \in scan[s].partial
         /\ ScanOK(q) /\ Same(q, scan[s]) /\ q.pc # "idle" /\ ~ q.raced
         /\ scan' = [scan EXCEPT ![s] = q]
    BY <1>4, <1>5, <1>7, <1>8, <1>9 DEF q
  <1> QED
    BY <1>2, <1>3, <1>6, <1>10

\* It keeps rows and scans well formed.
LEMMA FlushType ==
    ASSUME LifecycleOK, NEW s \in Scanners, Flush(s)
    PROVE  LifecycleOK'
  <1>1. row' \in [Keys -> Row] /\ \A k \in Keys : GoodRow(row'[k])
    BY FlushMoves, UpsertType
  <1>2. scan' \in [Scanners -> ScanState] /\ \A q \in Scanners : ScanOK(scan'[q])
    BY FlushMoves, ScanMoves
  <1>3. UNCHANGED <<phase, feed, snapshot, other, disturbed>>
    BY FlushMoves
  <1> QED
    BY <1>1, <1>2, <1>3 DEF LifecycleOK

\* A publication outruns the scans that are about to save, and no other.
LEMMA OutrunType ==
    ASSUME NEW state \in [Scanners -> ScanState], \A q \in Scanners : ScanOK(state[q]),
           scan' = Outrun(state)
    PROVE  /\ scan' \in [Scanners -> ScanState]
           /\ \A q \in Scanners : /\ ScanOK(scan'[q])
                                  /\ scan'[q].residual = state[q].residual
                                  /\ scan'[q].partial = state[q].partial
                                  /\ scan'[q].spent = state[q].spent
                                  /\ scan'[q].raced = (state[q].pc = "saving")
  <1>1. ASSUME NEW q \in Scanners
        PROVE  LET r == [state[q] EXCEPT !.raced = (state[q].pc = "saving")]
               IN  /\ ScanOK(r) /\ r.residual = state[q].residual /\ r.partial = state[q].partial
                   /\ r.spent = state[q].spent /\ r.raced = (state[q].pc = "saving")
    <2>1. state[q] \in ScanState /\ ScanOK(state[q])
      OBVIOUS
    <2> QED
      BY <2>1 DEF ScanOK, ScanState
  <1> QED
    BY <1>1 DEF Outrun, ScanOK

\* A scan that lost the race ends; else its results are in the next snapshot, and
\* every other row is what the snapshot says of it.
LEMMA SaveMoves ==
    ASSUME LifecycleOK, NEW s \in Scanners, Save(s)
    PROVE  /\ scan[s].pc = "saving"
           /\ UNCHANGED <<phase, feed, other, disturbed>>
           /\ \/ /\ scan[s].raced /\ scan' = [scan EXCEPT ![s] = IdleScan]
                 /\ UNCHANGED <<row, snapshot>>
              \/ /\ snapshot' \in [Keys -> Actual]
                 /\ row' \in [Keys -> Row]
                 /\ \A k \in Keys : /\ GoodRow(row'[k])
                                    /\ row'[k].status \in {"COMPLETED", "PARTIAL", "IDLE", "READY"}
                                    /\ row'[k].status = "PARTIAL" => k \in scan[s].partial
                 /\ scan' \in [Scanners -> ScanState]
                 /\ \A q \in Scanners : /\ ScanOK(scan'[q])
                                        /\ scan'[q].residual = scan[q].residual
                                        /\ scan'[q].partial = scan[q].partial
                                        /\ scan'[q].spent = scan[q].spent
                 /\ ~ scan'[s].raced
  <1>1. /\ scan[s] \in ScanState /\ ScanOK(scan[s]) /\ scan[s].pc = "saving"
        /\ UNCHANGED <<phase, feed, other, disturbed>>
    BY DEF LifecycleOK, Save
  <1>2. CASE scan[s].raced
    BY <1>1, <1>2 DEF Save
  <1>3. CASE ~ scan[s].raced
    <2> DEFINE results == scan[s].results
               actuals == [k \in Keys |-> IF k \in results THEN scan[s].resolved[k] ELSE scan[s].seen[k]]
               rows(aged) == [k \in Keys |->
                                IF k \in results THEN Stored(FinalStatus(s, k), actuals[k])
                                                 ELSE Projected(k, actuals[k], aged)]
               state == [scan EXCEPT ![s] = Delivered(scan[s], results)]
    <2>1. snapshot' = actuals
      BY <1>3 DEF Save
    <2>2. actuals \in [Keys -> Actual]
      BY <1>1 DEF ScanState
    <2>3. \E aged \in BOOLEAN : row' = rows(aged)
      BY <1>3, <2>1 DEF Save
    <2>4. scan' = Outrun(state)
      BY <1>3 DEF Save, LifecycleOK
    <2>5. \A k \in Keys : /\ FinalStatus(s, k) \in {"COMPLETED", "PARTIAL"}
                          /\ FinalStatus(s, k) = "PARTIAL" => k \in scan[s].partial
      BY DEF FinalStatus
    <2> HIDE DEF actuals
    <2>6. ASSUME NEW aged \in BOOLEAN, NEW k \in Keys
          PROVE  /\ GoodRow(rows(aged)[k])
                 /\ rows(aged)[k].status \in {"COMPLETED", "PARTIAL", "IDLE", "READY"}
                 /\ rows(aged)[k].status = "PARTIAL" => k \in scan[s].partial
      <3>1. actuals[k] \in Actual
        BY <2>2
      <3>2. CASE k \in results
        BY <2>5, <3>1, <3>2, StoredType
      <3>3. CASE k \notin results
        <4>1. rows(aged)[k] = Projected(k, actuals[k], aged)
          BY <3>3
        <4> QED
          BY <3>1, <4>1, ProjectedType
      <3> QED
        BY <3>2, <3>3
    <2>7. ScanOK(Delivered(scan[s], results)) /\ Same(Delivered(scan[s], results), scan[s])
          /\ Delivered(scan[s], results).pc = "scanning"
      BY <1>1, DeliveredType
    <2>8. /\ state \in [Scanners -> ScanState] /\ state[s] = Delivered(scan[s], results)
          /\ \A q \in Scanners : /\ ScanOK(state[q]) /\ state[q].residual = scan[q].residual
                                 /\ state[q].partial = scan[q].partial /\ state[q].spent = scan[q].spent
      <3> DEFINE d == Delivered(scan[s], results)
      <3>1. ScanOK(d) /\ d \in ScanState /\ d.residual = scan[s].residual
            /\ d.partial = scan[s].partial /\ d.spent = scan[s].spent
        BY <2>7 DEF ScanOK, Same
      <3>2. state = [scan EXCEPT ![s] = d]
        OBVIOUS
      <3> HIDE DEF results, d, state
      <3>3. scan \in [Scanners -> ScanState] /\ \A q \in Scanners : ScanOK(scan[q])
        BY DEF LifecycleOK
      <3>4. state \in [Scanners -> ScanState] /\ state[s] = d
        BY <3>1, <3>2, <3>3
      <3>5. \A q \in Scanners \ {s} : state[q] = scan[q]
        BY <3>2, <3>3
      <3>6. \A q \in Scanners : /\ ScanOK(state[q]) /\ state[q].residual = scan[q].residual
                                /\ state[q].partial = scan[q].partial /\ state[q].spent = scan[q].spent
        BY <3>1, <3>3, <3>4, <3>5
      <3> QED
        BY <3>4, <3>6 DEF d
    <2> HIDE DEF state, rows
    <2>9. /\ scan' \in [Scanners -> ScanState] /\ ~ scan'[s].raced
          /\ \A q \in Scanners : /\ ScanOK(scan'[q]) /\ scan'[q].residual = scan[q].residual
                                 /\ scan'[q].partial = scan[q].partial /\ scan'[q].spent = scan[q].spent
      <3>1. state \in [Scanners -> ScanState] /\ (\A q \in Scanners : ScanOK(state[q]))
            /\ state[s].pc = "scanning"
        BY <2>7, <2>8
      <3>2. /\ scan' \in [Scanners -> ScanState]
            /\ \A q \in Scanners : /\ ScanOK(scan'[q]) /\ scan'[q].residual = state[q].residual
                                   /\ scan'[q].partial = state[q].partial
                                   /\ scan'[q].spent = state[q].spent
                                   /\ scan'[q].raced = (state[q].pc = "saving")
        BY <2>4, <3>1, OutrunType
      <3> QED
        BY <2>8, <3>1, <3>2
    <2>10. row' \in [Keys -> Row]
      BY <2>3, <2>6 DEF rows, GoodRow
    <2> QED
      BY <1>1, <2>1, <2>2, <2>3, <2>6, <2>9, <2>10
  <1> QED
    BY <1>2, <1>3

\* Both keep rows and scans well formed.
LEMMA SaveType ==
    ASSUME LifecycleOK, NEW s \in Scanners, Save(s)
    PROVE  LifecycleOK'
  <1>1. CASE scan' = [scan EXCEPT ![s] = IdleScan] /\ UNCHANGED <<row, snapshot>>
    <2>1. scan' \in [Scanners -> ScanState] /\ \A q \in Scanners : ScanOK(scan'[q])
      BY <1>1, IdleType, ScanMoves
    <2>2. UNCHANGED <<phase, feed, other, disturbed>>
      BY SaveMoves
    <2> QED
      BY <1>1, <2>1, <2>2 DEF LifecycleOK
  <1>2. CASE ~ (scan' = [scan EXCEPT ![s] = IdleScan] /\ UNCHANGED <<row, snapshot>>)
    BY <1>2, SaveMoves DEF LifecycleOK
  <1> QED
    BY <1>1, <1>2

\* What is left of a scan changes its rows as long as they are its own.
LEMMA FinishMoves ==
    ASSUME LifecycleOK, NEW s \in Scanners, Finish(s)
    PROVE  /\ scan[s].pc = "finishing"
           /\ UNCHANGED <<phase, feed, snapshot, other, disturbed>>
           /\ \/ scan[s].residual = {} /\ scan' = [scan EXCEPT ![s] = IdleScan] /\ UNCHANGED row
              \/ \E k \in scan[s].residual : \E q :
                   /\ k \in Keys /\ scan' = [scan EXCEPT ![s] = q]
                   /\ ScanOK(q) /\ q.residual = scan[s].residual \ {k}
                   /\ q.partial = scan[s].partial /\ q.spent = scan[s].spent /\ ~ q.raced
                   /\ \/ ~ MayFinish(s, k) /\ UNCHANGED row
                      \/ \E r : /\ GoodRow(r) /\ Upsert(k, r)
                                /\ r.status \in {"QUEUED", "NO_DATA", "UNRESOLVED", "DISABLED"}
                                /\ r.status = "NO_DATA" => k \in scan[s].spent
  <1>1. /\ scan[s] \in ScanState /\ ScanOK(scan[s]) /\ scan[s].pc = "finishing"
        /\ UNCHANGED <<phase, feed, snapshot, other, disturbed>>
    BY DEF LifecycleOK, Finish
  <1>2. CASE scan[s].residual = {}
    BY <1>1, <1>2 DEF Finish
  <1>3. CASE scan[s].residual # {}
    <2> DEFINE q(k) == [scan[s] EXCEPT !.residual = @ \ {k}]
               r(k) == Written(Residual(s, k), row[k].event, row[k].actual, "null",
                               IF Residual(s, k) = "QUEUED" THEN row[k].refresh ELSE "later")
    <2>1. PICK k \in scan[s].residual :
            /\ scan' = [scan EXCEPT ![s].residual = @ \ {k}]
            /\ IF MayFinish(s, k) THEN Upsert(k, r(k)) ELSE UNCHANGED row
      BY <1>3 DEF Finish
    <2>2. scan' = [scan EXCEPT ![s] = q(k)] /\ k \in Keys
      BY <1>1, <2>1 DEF LifecycleOK, ScanState
    <2>3. /\ ScanOK(q(k)) /\ q(k).residual = scan[s].residual \ {k}
          /\ q(k).partial = scan[s].partial /\ q(k).spent = scan[s].spent /\ ~ q(k).raced
      BY <1>1 DEF ScanOK, ScanState
    <2>4. /\ Residual(s, k) \in {"QUEUED", "NO_DATA", "UNRESOLVED", "DISABLED"}
          /\ Residual(s, k) = "NO_DATA" => k \in scan[s].spent
      BY DEF Residual
    <2>5. row[k] \in Row
      BY <2>2 DEF LifecycleOK
    <2>6. GoodRow(r(k)) /\ r(k).status = Residual(s, k)
      BY <2>4, <2>5 DEF Written, GoodRow, Row, Times
    <2> HIDE DEF q, r
    <2> QED
      BY <1>1, <2>1, <2>2, <2>3, <2>4, <2>6
  <1> QED
    BY <1>2, <1>3

\* And that keeps them well formed.
LEMMA FinishType ==
    ASSUME LifecycleOK, NEW s \in Scanners, Finish(s)
    PROVE  LifecycleOK'
  <1>1. scan' \in [Scanners -> ScanState] /\ \A q \in Scanners : ScanOK(scan'[q])
    BY FinishMoves, IdleType, ScanMoves
  <1>2. row' \in [Keys -> Row] /\ \A k \in Keys : GoodRow(row'[k])
    <2>1. UNCHANGED row \/ \E k \in Keys : \E r : GoodRow(r) /\ Upsert(k, r)
      BY FinishMoves
    <2> QED
      BY <2>1, UpsertType DEF LifecycleOK
  <1>3. UNCHANGED <<phase, feed, snapshot, other, disturbed>>
    BY FinishMoves
  <1> QED
    BY <1>1, <1>2, <1>3 DEF LifecycleOK

\* All steps of a scan keep the rows and the scans well formed.
LEMMA StepOK ==
    ASSUME LifecycleOK, NEW s \in Scanners, Step(s)
    PROVE  LifecycleOK'
  BY ResolveType, WriteBackType, QuietType, FlushType, SaveType, FinishType DEF Step

-----------------------------------------------------------------------------
(* The world around the scans *)

\* The clock changes the times of a row, and ends leases, but no status.
LEMMA ClockMoves ==
    ASSUME LifecycleOK, NEW k \in Keys, Release(k) \/ FallDue(k) \/ LeaseExpires(k)
    PROVE  /\ row' \in [Keys -> Row]
           /\ \A j \in Keys : GoodRow(row'[j]) /\ row'[j].status = row[j].status
           /\ phase' \in [Keys -> {"scheduled", "released", "expired"}]
           /\ \A j \in Keys : phase[j] = "expired" => phase'[j] = "expired"
           /\ disturbed' \in disturbed .. Disturbances
           /\ UNCHANGED <<feed, snapshot, scan, other>>
  <1>0. row[k] \in Row /\ GoodRow(row[k])
    BY DEF LifecycleOK
  <1>1. CASE Release(k)
    <2>1. row' = [row EXCEPT ![k] = Elapsed(row[k], "event")]
      BY <1>1 DEF Release, LifecycleOK
    <2>2. row' \in [Keys -> Row] /\ \A j \in Keys : GoodRow(row'[j]) /\ row'[j].status = row[j].status
      <3>1. GoodRow(Elapsed(row[k], "event")) /\ Elapsed(row[k], "event").status = row[k].status
        BY <1>0, ElapsedType
      <3> QED
        BY <2>1, <3>1 DEF LifecycleOK, GoodRow
    <2> QED
      BY <1>1, <2>2 DEF Release, LifecycleOK
  <1>2. CASE FallDue(k)
    <2>1. row' = [row EXCEPT ![k] = Elapsed(row[k], "later")]
      BY <1>2 DEF FallDue, LifecycleOK
    <2>2. row' \in [Keys -> Row] /\ \A j \in Keys : GoodRow(row'[j]) /\ row'[j].status = row[j].status
      <3>1. GoodRow(Elapsed(row[k], "later")) /\ Elapsed(row[k], "later").status = row[k].status
        BY <1>0, ElapsedType
      <3> QED
        BY <2>1, <3>1 DEF LifecycleOK, GoodRow
    <2> QED
      BY <1>2, <2>2 DEF FallDue, LifecycleOK
  <1>3. CASE LeaseExpires(k)
    <2> DEFINE lapsed == [row[k] EXCEPT !.lease = "lapsed"]
    <2>1. row' = [row EXCEPT ![k] = lapsed]
      BY <1>3 DEF LeaseExpires, LifecycleOK
    <2>2. GoodRow(lapsed) /\ lapsed.status = row[k].status
      BY <1>0, <1>3 DEF LeaseExpires, GoodRow, Row
    <2> HIDE DEF lapsed
    <2>3. row' \in [Keys -> Row] /\ \A j \in Keys : GoodRow(row'[j]) /\ row'[j].status = row[j].status
      BY <2>1, <2>2 DEF LifecycleOK, GoodRow
    <2>4. disturbed' \in disturbed .. Disturbances
      <3>1. Disturb \/ UNCHANGED disturbed
        BY <1>3 DEF LeaseExpires
      <3> QED
        BY <3>1 DEF LifecycleOK, Disturb
    <2> QED
      BY <1>3, <2>3, <2>4 DEF LeaseExpires, LifecycleOK
  <1> QED
    BY <1>1, <1>2, <1>3

\* The feeds and the deadlines touch neither rows nor scans.
LEMMA FeedMoves ==
    ASSUME LifecycleOK, NEW k \in Keys, Publish(k) \/ Deadline(k)
    PROVE  /\ phase' \in [Keys -> {"scheduled", "released", "expired"}]
           /\ feed' \in [Keys -> Actual]
           /\ \A j \in Keys : phase[j] = "expired" => phase'[j] = "expired"
           /\ UNCHANGED <<row, snapshot, scan, other, disturbed>>
  <1>1. CASE Publish(k)
    <2>1. feed[k] + 1 \in Actual
      BY <1>1 DEF Publish, LifecycleOK, Actual
    <2> QED
      BY <1>1, <2>1 DEF Publish, LifecycleOK
  <1>2. CASE Deadline(k)
    BY <1>2 DEF Deadline, LifecycleOK
  <1> QED
    BY <1>1, <1>2

\* A scan, or all of them, end without a trace, which is a disturbance.
LEMMA EndMoves ==
    ASSUME LifecycleOK, Crash \/ (\E s \in Scanners : Abort(s)) \/ OtherRead
    PROVE  /\ LifecycleOK' /\ disturbed' > 0
           /\ UNCHANGED <<phase, feed, row, snapshot>>
           /\ \A q \in Scanners : scan'[q] = scan[q] \/ scan'[q] = IdleScan
  <1>1. disturbed' \in 0 .. Disturbances /\ disturbed' > 0
    <2>1. Disturb
      BY DEF Crash, Abort, OtherRead
    <2> QED
      BY <2>1 DEF Disturb, LifecycleOK
  <1>2. CASE Crash
    BY <1>1, <1>2, IdleType DEF Crash, LifecycleOK, ScanOK
  <1>3. CASE \E s \in Scanners : Abort(s)
    <2>1. PICK s \in Scanners : Abort(s)
      BY <1>3
    <2>2. scan' \in [Scanners -> ScanState] /\ \A q \in Scanners : ScanOK(scan'[q])
      BY <2>1, IdleType, ScanMoves DEF Abort
    <2> QED
      BY <1>1, <2>1, <2>2 DEF Abort, LifecycleOK
  <1>4. CASE OtherRead
    BY <1>1, <1>4 DEF OtherRead, LifecycleOK
  <1> QED
    BY <1>2, <1>3, <1>4

\* The snapshot of another publisher projects every row.
LEMMA OtherMoves ==
    ASSUME LifecycleOK, OtherSave
    PROVE  /\ LifecycleOK'
           /\ \A k \in Keys : row'[k].status \in {"IDLE", "READY"}
           /\ UNCHANGED <<phase, disturbed>>
           /\ \A q \in Scanners : scan'[q].spent = scan[q].spent
  <1>1. PICK acquired \in SUBSET Keys :
          snapshot' = [k \in Keys |-> IF k \in acquired THEN feed[k] ELSE other[k]]
    BY DEF OtherSave
  <1>2. snapshot' \in [Keys -> Actual]
    BY <1>1 DEF OtherSave, LifecycleOK
  <1>3. PICK aged \in BOOLEAN : row' = [k \in Keys |-> Projected(k, snapshot'[k], aged)]
    BY DEF OtherSave, ProjectRows
  <1>4. \A k \in Keys : GoodRow(row'[k]) /\ row'[k].status \in {"IDLE", "READY"}
    BY <1>2, <1>3, ProjectedType
  <1>5. row' \in [Keys -> Row]
    BY <1>3, <1>4 DEF GoodRow
  <1>6. /\ scan' \in [Scanners -> ScanState]
        /\ \A q \in Scanners : ScanOK(scan'[q]) /\ scan'[q].spent = scan[q].spent
    BY OutrunType DEF OtherSave, LifecycleOK
  <1>7. UNCHANGED <<phase, feed, disturbed>> /\ other' = None
    BY DEF OtherSave
  <1> QED
    BY <1>2, <1>4, <1>5, <1>6, <1>7 DEF LifecycleOK

\* All of it keeps rows and scans well formed.
LEMMA WorldType ==
    ASSUME LifecycleOK, World
    PROVE  LifecycleOK'
  <1>1. ASSUME NEW k \in Keys, Release(k) \/ FallDue(k) \/ LeaseExpires(k)
        PROVE  LifecycleOK'
    <2>1. disturbed' \in 0 .. Disturbances
      BY <1>1, ClockMoves DEF LifecycleOK
    <2> QED
      BY <1>1, <2>1, ClockMoves DEF LifecycleOK
  <1>2. ASSUME NEW k \in Keys, Publish(k) \/ Deadline(k)
        PROVE  LifecycleOK'
    BY <1>2, FeedMoves DEF LifecycleOK
  <1> QED
    BY <1>1, <1>2, EndMoves, OtherMoves DEF World

-----------------------------------------------------------------------------
(* Type correctness *)

\* The verdict of a tick is one of the checkpoint's statuses.
LEMMA VerdictType == Verdict \in Completion
  BY DEF Verdict, Completion

\* A batch is no more than the tick may still claim.
LEMMA TickLimit ==
    ASSUME TypeInv, TickScan
    PROVE  \E limit \in Nat : /\ Claim(CatchUp, limit) /\ limit <= MaxPerTick - tick.claimed
                              /\ tick \in TickState /\ tick.claimed \in 0 .. MaxPerTick
  <1> DEFINE room == MaxPerTick - tick.claimed
             limit == IF BatchSize < room THEN BatchSize ELSE room
  <1>1. tick \in TickState /\ tick.claimed < MaxPerTick /\ Claim(CatchUp, limit)
    BY DEF TickScan, TypeInv, TickOK
  <1>2. tick.claimed \in 0 .. MaxPerTick /\ limit \in Nat /\ limit <= room
    BY <1>1 DEF TickState
  <1> HIDE DEF limit
  <1> QED
    BY <1>1, <1>2

\* A tick never claims more than it may.
LEMMA TickType ==
    ASSUME TypeInv, TickStart \/ TickScan \/ TickStep \/ TickEnd
    PROVE  TypeInv'
  <1>0. LifecycleOK /\ TickOK /\ NoTick \in TickState /\ CatchUp \in Scanners
    BY DEF TypeInv, NoTick, TickState
  <1>1. CASE TickStart
    <2>1. row' \in [Keys -> Row] /\ \A k \in Keys : GoodRow(row'[k])
      <3>1. \A k \in Keys : GoodRow(AtTick(row[k]))
        BY <1>0, ElapsedType DEF LifecycleOK
      <3>2. row' = [k \in Keys |-> AtTick(row[k])]
        BY <1>1 DEF TickStart
      <3> QED
        BY <3>1, <3>2 DEF GoodRow
    <2> DEFINE open == PendingRetry(row')
    <2>2. open \subseteq Keys
      BY DEF PendingRetry
    <2>4. /\ checkpoint' \in {checkpoint, "WAITING_BACKOFF"}
          /\ tick' \in {tick, [NoTick EXCEPT !.pc = "ticking", !.open = open]}
          /\ UNCHANGED <<phase, feed, snapshot, scan, other, disturbed>>
      BY <1>1 DEF TickStart
    <2> HIDE DEF open
    <2>3. [NoTick EXCEPT !.pc = "ticking", !.open = open] \in TickState
      BY <1>0, <2>2 DEF TickState
    <2>5. TickOK'
      BY <1>0, <2>3, <2>4 DEF TickOK, Completion
    <2>6. LifecycleOK'
      BY <1>0, <2>1, <2>4 DEF LifecycleOK
    <2> QED
      BY <2>5, <2>6 DEF TypeInv
  <1>2. CASE TickScan
    <2>1. PICK limit \in Nat : /\ Claim(CatchUp, limit) /\ limit <= MaxPerTick - tick.claimed
                               /\ tick \in TickState /\ tick.claimed \in 0 .. MaxPerTick
      BY <1>2, TickLimit
    <2>3. LifecycleOK' /\ Cardinality(scan'[CatchUp].todo) \in 0 .. limit
      BY <1>0, <2>1, ClaimType
    <2>4. tick.claimed + Cardinality(scan'[CatchUp].todo) \in 0 .. MaxPerTick
      BY <2>1, <2>3
    <2>5. /\ tick' = [tick EXCEPT !.pc = "scanning",
                                 !.claimed = tick.claimed + Cardinality(scan'[CatchUp].todo)]
          /\ UNCHANGED checkpoint
      BY <1>2 DEF TickScan
    <2>6. tick' \in TickState
      BY <2>1, <2>4, <2>5 DEF TickState
    <2> QED
      BY <1>0, <2>3, <2>5, <2>6 DEF TickOK, TypeInv
  <1>3. CASE TickStep
    <2>1. LifecycleOK' /\ UNCHANGED checkpoint
      BY <1>0, <1>3, StepOK DEF TickStep
    <2>2. tick \in TickState
      BY <1>0 DEF TickOK
    <2>3. \A a, b \in BOOLEAN, pc \in {"idle", "ticking", "scanning"} :
            [tick EXCEPT !.resolved = a, !.residual = b, !.pc = pc] \in TickState
      BY <2>2 DEF TickState
    <2>4. \/ tick' = NoTick
          \/ \E a, b \in BOOLEAN, pc \in {"idle", "ticking", "scanning"} :
               tick' = [tick EXCEPT !.resolved = a, !.residual = b, !.pc = pc]
      <3> DEFINE now == scan'[CatchUp]
                 item == scan[CatchUp].todo \ now.todo
                 found == {k \in item \ now.partial : now.resolved[k] # 0}
                 failed == IF disturbed' # disturbed THEN item ELSE {}
                 a == tick.resolved \/ found # {}
                 b == tick.residual \/ item \ (found \union failed) # {}
                 pc == IF now.pc = "idle" THEN "ticking" ELSE tick.pc
      <3>1. \/ tick' = NoTick
            \/ tick' = [tick EXCEPT !.resolved = a, !.residual = b, !.pc = pc]
        BY <1>3 DEF TickStep
      <3>2. a \in BOOLEAN /\ b \in BOOLEAN /\ pc \in {"idle", "ticking", "scanning"}
        BY <2>2 DEF TickState
      <3> HIDE DEF a, b, pc
      <3> QED
        BY <3>1, <3>2
    <2> QED
      BY <1>0, <2>1, <2>3, <2>4 DEF TickOK, TypeInv
  <1>4. CASE TickEnd
    BY <1>0, <1>4, VerdictType DEF TickEnd, lifecycleVars, TypeInv, TickOK, LifecycleOK
  <1> QED
    BY <1>1, <1>2, <1>3, <1>4

\* The other scanners and the world leave the tick, or end it.
LEMMA BesideType ==
    ASSUME TypeInv, CatchupFails \/ (\E s \in Scanners : ScanStep(s)) \/ Outside
    PROVE  TypeInv'
  <1>0. LifecycleOK /\ TickOK /\ NoTick \in TickState /\ CatchUp \in Scanners
    BY DEF TypeInv, NoTick, TickState
  <1>1. TickOK'
    BY <1>0 DEF CatchupFails, ScanStep, Outside, TickOK
  <1>2. CASE CatchupFails
    <2>1. LifecycleOK'
      BY <1>0, <1>2, EndMoves DEF CatchupFails
    <2> QED
      BY <1>1, <2>1 DEF TypeInv
  <1>3. ASSUME NEW s \in Scanners, ScanStep(s) PROVE TypeInv'
    <2>1. Cardinality(Keys) \in Nat
      BY FS_CardinalityType
    <2>2. LifecycleOK'
      BY <1>0, <1>3, <2>1, ClaimType, StepOK, EndMoves DEF ScanStep
    <2> QED
      BY <1>1, <2>2 DEF TypeInv
  <1>4. CASE Outside
    <2>1. LifecycleOK'
      BY <1>0, <1>4, WorldType DEF Outside
    <2> QED
      BY <1>1, <2>1 DEF TypeInv
  <1> QED
    BY <1>2, <1>3, <1>4

\* The first rows satisfy the invariant ...
LEMMA InitType == CatchupInit => TypeInv
  <1> SUFFICES ASSUME CatchupInit PROVE TypeInv
    OBVIOUS
  <1>1. Nothing \in [Keys -> Actual]
    BY DEF Nothing, Actual
  <1>2. GoodRow(Written("IDLE", TRUE, 0, "null", "event"))
    BY DEF Written, GoodRow, Row, Times, Actual
  <1>3. LifecycleOK
    <2>1. row \in [Keys -> Row] /\ \A k \in Keys : GoodRow(row[k])
      BY <1>2 DEF CatchupInit, LifecycleInit, GoodRow
    <2>2. scan \in [Scanners -> ScanState] /\ \A s \in Scanners : ScanOK(scan[s])
      BY IdleType DEF CatchupInit, LifecycleInit, ScanOK
    <2>3. /\ phase \in [Keys -> {"scheduled", "released", "expired"}] /\ feed = Nothing
          /\ snapshot = Nothing /\ other = None /\ disturbed = 0
      BY DEF CatchupInit, LifecycleInit
    <2> QED
      BY <1>1, <2>1, <2>2, <2>3 DEF LifecycleOK
  <1>4. TickOK
    BY DEF CatchupInit, TickOK, NoTick, TickState
  <1> QED
    BY <1>3, <1>4 DEF TypeInv

\* ... and every step preserves it.
LEMMA StepType == TypeInv /\ [Next]_vars => TypeInv'
  <1> SUFFICES ASSUME TypeInv, [Next]_vars PROVE TypeInv'
    OBVIOUS
  <1>1. CASE UNCHANGED vars
    BY <1>1 DEF vars, lifecycleVars, TypeInv, LifecycleOK, TickOK
  <1>2. CASE Next
    BY <1>2, TickType, BesideType DEF Next
  <1> QED
    BY <1>1, <1>2

\* Rows, scans and ticks stay well formed, and a row is LEASED exactly while it has an
\* owner and a lease, whoever overwrites it.
THEOREM TypeCorrect == Spec => []TypeOK
  <1>1. Spec => []TypeInv
    BY InitType, StepType, PTL DEF Spec
  <1> QED
    BY <1>1, TypeParts, PTL

-----------------------------------------------------------------------------
(* An occurrence is given up late *)

\* What a scan takes for spent is past its retry deadline, and stays so.
SpentLate == \A s \in Scanners : \A k \in scan[s].spent : k \in Keys => phase[k] = "expired"

LateInv == GivesUpLate /\ SpentLate

\* A step that keeps the deadlines passed, and gives up nothing else, keeps it.
LEMMA LateRest ==
    ASSUME LateInv, LifecycleOK,
           \A k \in Keys : phase[k] = "expired" => phase'[k] = "expired",
           \A k \in Keys : row'[k].status = "NO_DATA" => row[k].status = "NO_DATA" \/ phase'[k] = "expired",
           \A s \in Scanners : \A k \in scan'[s].spent : k \in scan[s].spent \/ phase'[k] = "expired"
    PROVE  LateInv'
  BY DEF LateInv, GivesUpLate, SpentLate

\* Every step of a scan keeps it.
LEMMA StepLate ==
    ASSUME LifecycleOK, LateInv, NEW s \in Scanners, Step(s)
    PROVE  LateInv'
  <1>0. UNCHANGED phase
    BY DEF Step, Resolve, WriteBack, EndOfItems, Project, Flush, Save, Finish
  <1>1. CASE Resolve(s)
    <2>1. UNCHANGED row
      BY <1>1 DEF Resolve
    <2>2. \A q \in Scanners : \A k \in scan'[q].spent : k \in scan[q].spent \/ phase[k] = "expired"
      <3>1. scan[s] \in ScanState
        BY DEF LifecycleOK
      <3> DEFINE Late(r) == \A j \in r.spent : j \in scan[s].spent \/ phase[j] = "expired"
      <3>2. ASSUME NEW k, NEW v, NEW partial
            PROVE  /\ Late(Taken(s, k, v)) /\ Late(Sent(s, k, v, partial)) /\ Late(Missed(s, k))
                   /\ Late(Failing(s, k)) /\ Late(LeftOver(s, k))
        BY <3>1 DEF Taken, Sent, Missed, Failing, LeftOver, Terminal, ScanState
      <3> HIDE DEF Late
      <3>3. \E r : scan' = [scan EXCEPT ![s] = r] /\ Late(r)
        BY <1>1, <3>2, ResolveMoves
      <3> USE DEF Late
      <3> QED
        BY <3>3 DEF LifecycleOK
    <2> QED
      BY <1>0, <2>1, <2>2, LateRest
  <1>2. CASE WriteBack(s)
    <2>1. \A k \in Keys : row'[k].status = "NO_DATA" => row[k].status = "NO_DATA" \/ phase[k] = "expired"
      BY <1>2, WriteBackMoves DEF Upsert, LifecycleOK
    <2>2. \A q \in Scanners : scan'[q].spent = scan[q].spent
      BY <1>2, WriteBackMoves DEF LifecycleOK, Same
    <2> QED
      BY <1>0, <2>1, <2>2, LateRest
  <1>3. CASE EndOfItems(s) \/ Project(s)
    <2>1. \A q \in Scanners : scan'[q].spent = scan[q].spent
      BY <1>3, QuietMoves DEF LifecycleOK, Same
    <2>2. UNCHANGED row
      BY <1>3, QuietMoves
    <2> QED
      BY <1>0, <2>1, <2>2, LateRest
  <1>4. CASE Flush(s)
    <2>1. \A k \in Keys : row'[k].status = "NO_DATA" => row[k].status = "NO_DATA"
      BY <1>4, FlushMoves DEF Upsert, LifecycleOK
    <2>2. \A q \in Scanners : scan'[q].spent = scan[q].spent
      BY <1>4, FlushMoves DEF LifecycleOK, Same
    <2> QED
      BY <1>0, <2>1, <2>2, LateRest
  <1>5. CASE Save(s)
    <2>1. \A k \in Keys : row'[k].status = "NO_DATA" => row[k].status = "NO_DATA"
      BY <1>5, SaveMoves
    <2>2. \A q \in Scanners : scan'[q].spent \subseteq scan[q].spent
      BY <1>5, SaveMoves DEF LifecycleOK, IdleScan
    <2> QED
      BY <1>0, <2>1, <2>2, LateRest
  <1>6. CASE Finish(s)
    <2>1. \A k \in Keys : row'[k].status = "NO_DATA" => row[k].status = "NO_DATA" \/ k \in scan[s].spent
      BY <1>6, FinishMoves DEF Upsert, LifecycleOK
    <2>2. \A q \in Scanners : scan'[q].spent \subseteq scan[q].spent
      BY <1>6, FinishMoves DEF LifecycleOK, IdleScan
    <2>3. \A k \in Keys : k \in scan[s].spent => phase[k] = "expired"
      BY DEF LateInv, SpentLate
    <2> QED
      BY <1>0, <2>1, <2>2, <2>3, LateRest
  <1> QED
    BY <1>1, <1>2, <1>3, <1>4, <1>5, <1>6 DEF Step

\* Claiming leases rows that nobody holds, and gives up none.
LEMMA ClaimLate ==
    ASSUME LifecycleOK, LateInv, NEW s \in Scanners, NEW limit \in Nat, Claim(s, limit)
    PROVE  LateInv'
  BY ClaimType, LateRest

\* So do the world and its failures ...
LEMMA WorldLate ==
    ASSUME LifecycleOK, LateInv, World \/ \E s \in Scanners : Abort(s)
    PROVE  LateInv'
  <1>1. ASSUME NEW k \in Keys, Release(k) \/ FallDue(k) \/ LeaseExpires(k)
        PROVE  LateInv'
    BY <1>1, ClockMoves, LateRest
  <1>2. ASSUME NEW k \in Keys, Publish(k) \/ Deadline(k)
        PROVE  LateInv'
    BY <1>2, FeedMoves, LateRest
  <1>3. CASE Crash \/ (\E s \in Scanners : Abort(s)) \/ OtherRead
    <2>1. \A q \in Scanners : scan'[q].spent \subseteq scan[q].spent
      BY <1>3, EndMoves DEF IdleScan
    <2> QED
      BY <1>3, <2>1, EndMoves, LateRest
  <1>4. CASE OtherSave
    BY <1>4, OtherMoves, LateRest
  <1> QED
    BY <1>1, <1>2, <1>3, <1>4 DEF World

\* ... and hence every step of the system.
LEMMA NextLate ==
    ASSUME TypeInv, LateInv, [Next]_vars
    PROVE  LateInv'
  <1>0. LifecycleOK /\ CatchUp \in Scanners
    BY DEF TypeInv
  <1>1. CASE UNCHANGED lifecycleVars
    BY <1>1 DEF lifecycleVars, LateInv, GivesUpLate, SpentLate
  <1>2. CASE TickStart
    <2>1. \A k \in Keys : row'[k].status = row[k].status
      BY <1>0, <1>2, ElapsedType DEF TickStart, LifecycleOK
    <2>2. UNCHANGED <<phase, scan>>
      BY <1>2 DEF TickStart
    <2> QED
      BY <1>0, <2>1, <2>2, LateRest
  <1>3. CASE TickScan
    <2>1. \E limit \in Nat : Claim(CatchUp, limit)
      BY <1>3, TickLimit
    <2> QED
      BY <1>0, <2>1, ClaimLate
  <1>4. CASE TickStep
    BY <1>0, <1>4, StepLate DEF TickStep
  <1>5. CASE TickEnd
    BY <1>1, <1>5 DEF TickEnd
  <1>6. CASE CatchupFails
    BY <1>0, <1>6, WorldLate DEF CatchupFails
  <1>7. ASSUME NEW s \in Scanners, ScanStep(s) PROVE LateInv'
    <2>1. Cardinality(Keys) \in Nat
      BY FS_CardinalityType
    <2> QED
      BY <1>0, <1>7, <2>1, ClaimLate, StepLate, WorldLate DEF ScanStep
  <1>8. CASE Outside
    BY <1>0, <1>8, WorldLate DEF Outside
  <1>9. CASE UNCHANGED vars
    BY <1>1, <1>9 DEF vars, lifecycleVars
  <1> QED
    BY <1>2, <1>3, <1>4, <1>5, <1>6, <1>7, <1>8, <1>9 DEF Next

\* An occurrence is given up only after its retry deadline, whatever copy of the row
\* a scan works from.
THEOREM GivenUpLate == Spec => []GivesUpLate
  <1>1. CatchupInit => LateInv
    BY DEF CatchupInit, LifecycleInit, Written, IdleScan, LateInv, GivesUpLate, SpentLate
  <1>2. TypeInv /\ LateInv /\ [Next]_vars => LateInv'
    BY NextLate
  <1>3. LateInv => GivesUpLate
    BY DEF LateInv
  <1> QED
    BY <1>1, <1>2, <1>3, InitType, StepType, PTL DEF Spec

-----------------------------------------------------------------------------
(* A partial row is finished *)

\* The scan that has the result of a partial row has not lost the race for its
\* snapshot: a publication leaves no partial rows but its own.
Finisher(s, k) == k \in scan[s].residual /\ k \in scan[s].partial /\ ~ scan[s].raced

PartialInv ==
    \A k \in Keys : row[k].status = "PARTIAL" => disturbed > 0 \/ \E s \in Scanners : Finisher(s, k)

\* A step that writes no partial row and keeps the finishers keeps it.
LEMMA PartialRest ==
    ASSUME PartialInv, disturbed' >= disturbed, disturbed \in Nat, disturbed' \in Nat,
           \A k \in Keys : row'[k].status = "PARTIAL" => row[k].status = "PARTIAL",
           \A s \in Scanners, k \in Keys : row'[k].status = "PARTIAL" /\ Finisher(s, k) => Finisher(s, k)'
    PROVE  PartialInv'
  BY DEF PartialInv

\* Every step of a scan keeps it.
LEMMA StepPartial ==
    ASSUME LifecycleOK, PartialInv, NEW s \in Scanners, Step(s)
    PROVE  PartialInv'
  <1>0. /\ scan[s] \in ScanState /\ ScanOK(scan[s]) /\ disturbed \in Nat
        /\ LifecycleOK' /\ disturbed' \in Nat
    BY StepOK DEF LifecycleOK
  <1>1. CASE Resolve(s)
    <2>1. UNCHANGED row
      BY <1>1 DEF Resolve
    <2>2. CASE Disturb
      BY <1>0, <2>2 DEF Disturb, PartialInv
    <2>3. CASE ~ Disturb
      <3> DEFINE Kept(r) == /\ scan[s].residual \subseteq r.residual /\ scan[s].partial \subseteq r.partial
                            /\ r.raced = scan[s].raced
      <3>1. ASSUME NEW k, NEW v, NEW partial
            PROVE  /\ Kept(Taken(s, k, v)) /\ Kept(Missed(s, k)) /\ Kept(LeftOver(s, k))
                   /\ Kept(Sent(s, k, v, partial))
        BY <1>0 DEF Taken, Sent, Missed, LeftOver, ScanState
      <3> HIDE DEF Kept
      <3>2. UNCHANGED disturbed /\ \E r : scan' = [scan EXCEPT ![s] = r] /\ Kept(r)
        BY <1>1, <2>3, <3>1, ResolveMoves
      <3>3. \A q \in Scanners, k \in Keys : Finisher(q, k) => Finisher(q, k)'
        BY <3>2 DEF Kept, Finisher, LifecycleOK
      <3> QED
        BY <1>0, <2>1, <3>2, <3>3, PartialRest
    <2> QED
      BY <2>2, <2>3
  <1>2. CASE WriteBack(s)
    <2>1. \A k \in Keys : row'[k].status = "PARTIAL" => row[k].status = "PARTIAL"
      BY <1>2, WriteBackMoves DEF Upsert, LifecycleOK
    <2>2. \A q \in Scanners, k \in Keys : Finisher(q, k) => Finisher(q, k)'
      BY <1>2, WriteBackMoves DEF LifecycleOK, Same, Finisher
    <2>3. UNCHANGED disturbed
      BY <1>2 DEF WriteBack
    <2> QED
      BY <1>0, <2>1, <2>2, <2>3, PartialRest
  <1>3. CASE EndOfItems(s) \/ Project(s)
    <2>1. \A q \in Scanners, k \in Keys : Finisher(q, k) => Finisher(q, k)'
      BY <1>3, QuietMoves DEF LifecycleOK, Same, Finisher
    <2>2. UNCHANGED <<row, disturbed>>
      BY <1>3, QuietMoves
    <2> QED
      BY <1>0, <2>1, <2>2, PartialRest
  <1>4. CASE Flush(s)
    <2>1. PICK k \in Keys : \E r, q :
            /\ Upsert(k, r) /\ (r.status = "PARTIAL" => k \in scan[s].partial)
            /\ Same(q, scan[s]) /\ ~ q.raced /\ scan' = [scan EXCEPT ![s] = q]
      BY <1>4, FlushMoves
    <2>2. \A j \in Keys : row'[j].status = "PARTIAL" => row[j].status = "PARTIAL" \/ j \in scan[s].partial
      BY <2>1 DEF Upsert, LifecycleOK
    <2>3. \A q \in Scanners, j \in Keys : Finisher(q, j) => Finisher(q, j)'
      BY <2>1 DEF LifecycleOK, Same, Finisher
    <2>4. scan[s].partial \subseteq scan[s].residual
      BY <1>0, <1>4, FlushMoves DEF ScanOK
    <2>5. \A j \in Keys : j \in scan[s].partial => Finisher(s, j)'
      BY <2>1, <2>4 DEF LifecycleOK, Same, Finisher
    <2>6. UNCHANGED disturbed
      BY <1>4, FlushMoves
    <2> QED
      BY <2>2, <2>3, <2>5, <2>6 DEF PartialInv
  <1>5. CASE Save(s)
    <2>1. CASE scan[s].raced /\ scan' = [scan EXCEPT ![s] = IdleScan] /\ UNCHANGED row
      <3>1. \A q \in Scanners, k \in Keys : Finisher(q, k) => Finisher(q, k)'
        BY <2>1 DEF LifecycleOK, Finisher
      <3>2. UNCHANGED disturbed
        BY <1>5, SaveMoves
      <3> QED
        BY <1>0, <2>1, <3>1, <3>2, PartialRest
    <2>2. CASE ~ (scan[s].raced /\ scan' = [scan EXCEPT ![s] = IdleScan] /\ UNCHANGED row)
      <3>1. scan[s].partial \subseteq scan[s].residual
        BY <1>0, <1>5 DEF Save, ScanOK
      <3>2. \A k \in Keys : row'[k].status = "PARTIAL" => Finisher(s, k)'
        BY <1>5, <2>2, <3>1, SaveMoves DEF Finisher
      <3> QED
        BY <3>2 DEF PartialInv
    <2> QED
      BY <2>1, <2>2
  <1>6. CASE Finish(s)
    <2>0. UNCHANGED disturbed
      BY <1>6, FinishMoves
    <2>1. CASE scan[s].residual = {} /\ scan' = [scan EXCEPT ![s] = IdleScan] /\ UNCHANGED row
      <3>1. \A q \in Scanners, k \in Keys : Finisher(q, k) => Finisher(q, k)'
        BY <2>1 DEF LifecycleOK, Finisher
      <3> QED
        BY <1>0, <2>0, <2>1, <3>1, PartialRest
    <2>2. CASE \E k \in scan[s].residual : \E q :
                 /\ k \in Keys /\ scan' = [scan EXCEPT ![s] = q]
                 /\ q.residual = scan[s].residual \ {k} /\ q.partial = scan[s].partial /\ ~ q.raced
                 /\ \/ ~ MayFinish(s, k) /\ UNCHANGED row
                    \/ \E r : Upsert(k, r) /\ r.status # "PARTIAL"
      <3>1. PICK k \in Keys : /\ \E q : /\ scan' = [scan EXCEPT ![s] = q] /\ q.partial = scan[s].partial
                                        /\ q.residual = scan[s].residual \ {k} /\ ~ q.raced
                              /\ \/ ~ MayFinish(s, k) /\ UNCHANGED row
                                 \/ \E r : Upsert(k, r) /\ r.status # "PARTIAL"
        BY <2>2
      <3>2. \A j \in Keys : row'[j].status = "PARTIAL" => /\ row[j].status = "PARTIAL"
                                                          /\ j = k => ~ MayFinish(s, k)
        BY <3>1 DEF Upsert, LifecycleOK
      <3>3. \A q \in Scanners, j \in Keys : row'[j].status = "PARTIAL" /\ Finisher(q, j) => Finisher(q, j)'
        <4>1. \A q \in Scanners : \/ q # s /\ scan'[q] = scan[q]
                                  \/ /\ q = s /\ scan'[q].residual = scan[q].residual \ {k}
                                     /\ scan'[q].partial = scan[q].partial /\ ~ scan'[q].raced
          BY <3>1 DEF LifecycleOK
        <4> QED
          BY <3>2, <4>1 DEF Finisher, MayFinish
      <3> QED
        BY <1>0, <2>0, <3>2, <3>3, PartialRest
    <2> QED
      BY <1>6, <2>1, <2>2, FinishMoves
  <1> QED
    BY <1>1, <1>2, <1>3, <1>4, <1>5, <1>6 DEF Step

\* A scan that begins has nothing to finish, and before it began it had neither.
LEMMA ClaimPartial ==
    ASSUME LifecycleOK, PartialInv, NEW s \in Scanners, NEW limit \in Nat, Claim(s, limit)
    PROVE  PartialInv'
  <1>1. disturbed \in Nat /\ UNCHANGED disturbed
    BY ClaimType DEF LifecycleOK
  <1>2. \A k \in Keys : row'[k].status = "PARTIAL" => row[k].status = "PARTIAL"
    BY ClaimType
  <1>3. scan[s].residual = {} /\ \A q \in Scanners \ {s} : scan'[q] = scan[q]
    BY ClaimType DEF LifecycleOK, ScanOK
  <1>4. \A q \in Scanners, k \in Keys : Finisher(q, k) => Finisher(q, k)'
    BY <1>3 DEF Finisher
  <1> QED
    BY <1>1, <1>2, <1>4, PartialRest

\* So do the world and its failures ...
LEMMA WorldPartial ==
    ASSUME LifecycleOK, PartialInv, World \/ \E s \in Scanners : Abort(s)
    PROVE  PartialInv'
  <1>0. disturbed \in Nat
    BY DEF LifecycleOK
  <1>1. ASSUME NEW k \in Keys, Release(k) \/ FallDue(k) \/ LeaseExpires(k)
        PROVE  PartialInv'
    <2>1. disturbed' >= disturbed /\ disturbed' \in Nat /\ UNCHANGED scan
      BY <1>0, <1>1, ClockMoves DEF LifecycleOK
    <2>2. \A j \in Keys : row'[j].status = row[j].status
      BY <1>1, ClockMoves
    <2> QED
      BY <1>0, <2>1, <2>2, PartialRest DEF Finisher
  <1>2. ASSUME NEW k \in Keys, Publish(k) \/ Deadline(k)
        PROVE  PartialInv'
    BY <1>0, <1>2, FeedMoves, PartialRest DEF Finisher
  <1>3. CASE Crash \/ (\E s \in Scanners : Abort(s)) \/ OtherRead
    BY <1>3, EndMoves DEF PartialInv
  <1>4. CASE OtherSave
    BY <1>4, OtherMoves DEF PartialInv
  <1> QED
    BY <1>1, <1>2, <1>3, <1>4 DEF World

\* ... and hence every step of the system.
LEMMA NextPartial ==
    ASSUME TypeInv, PartialInv, [Next]_vars
    PROVE  PartialInv'
  <1>0. LifecycleOK /\ CatchUp \in Scanners /\ disturbed \in Nat
    BY DEF TypeInv, LifecycleOK
  <1>1. CASE UNCHANGED lifecycleVars
    BY <1>1 DEF lifecycleVars, PartialInv, Finisher
  <1>2. CASE TickStart
    <2>1. \A k \in Keys : row'[k].status = row[k].status
      BY <1>0, <1>2, ElapsedType DEF TickStart, LifecycleOK
    <2>2. UNCHANGED <<disturbed, scan>>
      BY <1>2 DEF TickStart
    <2> QED
      BY <1>0, <2>1, <2>2, PartialRest DEF Finisher
  <1>3. CASE TickScan
    <2>1. \E limit \in Nat : Claim(CatchUp, limit)
      BY <1>3, TickLimit
    <2> QED
      BY <1>0, <2>1, ClaimPartial
  <1>4. CASE TickStep
    BY <1>0, <1>4, StepPartial DEF TickStep
  <1>5. CASE TickEnd
    BY <1>1, <1>5 DEF TickEnd
  <1>6. CASE CatchupFails
    BY <1>0, <1>6, WorldPartial DEF CatchupFails
  <1>7. ASSUME NEW s \in Scanners, ScanStep(s) PROVE PartialInv'
    <2>1. Cardinality(Keys) \in Nat
      BY FS_CardinalityType
    <2> QED
      BY <1>0, <1>7, <2>1, ClaimPartial, StepPartial, WorldPartial DEF ScanStep
  <1>8. CASE Outside
    BY <1>0, <1>8, WorldPartial DEF Outside
  <1>9. CASE UNCHANGED vars
    BY <1>1, <1>9 DEF vars, lifecycleVars
  <1> QED
    BY <1>2, <1>3, <1>4, <1>5, <1>6, <1>7, <1>8, <1>9 DEF Next

\* A row that is PARTIAL has a scan under way that finishes it, until something dies.
THEOREM PartialFinished == Spec => []PartialIsTransient
  <1>1. CatchupInit => PartialInv
    BY DEF CatchupInit, LifecycleInit, Written, PartialInv
  <1>2. TypeInv /\ PartialInv /\ [Next]_vars => PartialInv'
    BY NextPartial
  <1>3. PartialInv => PartialIsTransient
    BY DEF PartialInv, Finisher, PartialIsTransient
  <1> QED
    BY <1>1, <1>2, <1>3, InitType, StepType, PTL DEF Spec
=============================================================================
