--------------------------- MODULE RefreshWorkProofs ---------------------------
(***************************************************************************)
(* Proofs about RefreshWork, for every set of requests and processes and   *)
(* every number of disturbances.                                           *)
(***************************************************************************)
EXTENDS RefreshWork, FiniteSetTheorems, WellFoundedInduction, TLAPS

USE RequestAssumption, RunnerAssumption, BoundAssumption

-----------------------------------------------------------------------------
(* The largest number of a finite set *)

\* Largest picks an element, and none is greater.  Of the sets of the elements
\* from some element on, one is minimal: the one from the largest element on.
LEMMA LargestSpec ==
    ASSUME NEW S \in SUBSET Nat, IsFiniteSet(S), S # {}
    PROVE  Largest(S) \in S /\ \A y \in S : y <= Largest(S)
  <1> DEFINE From(x) == {y \in S : x <= y}
             tails == {From(x) : x \in S}
  <1>1. IsWellFoundedOn(StrictSubsetOrdering(S), FiniteSubsetsOf(S))
    BY FS_StrictSubsetOrderingWellFounded
  <1>2. tails \subseteq FiniteSubsetsOf(S) /\ tails # {}
    <2>1. \A x \in S : From(x) \in SUBSET S
      OBVIOUS
    <2>2. FiniteSubsetsOf(S) = SUBSET S
      BY FS_FiniteSubsetsOfFinite
    <2> HIDE DEF From
    <2>3. tails # {}
      OBVIOUS
    <2> QED
      BY <2>1, <2>2, <2>3
  <1>3. PICK T \in tails : \A U \in tails : ~ (<<U, T>> \in StrictSubsetOrdering(S))
    <2> HIDE DEF tails
    <2> QED
      BY <1>1, <1>2, WFMin
  <1>4. PICK x \in S : T = From(x)
    BY <1>3
  <1>5. ASSUME NEW y \in S, ~ (y <= x)
        PROVE  FALSE
    <2>1. x <= y /\ x # y /\ x \in Nat /\ y \in Nat
      BY <1>5
    <2>2. From(y) \in SUBSET S /\ From(x) \in SUBSET S
      OBVIOUS
    <2>3. x \in From(x) /\ x \notin From(y)
      BY <2>1
    <2>4. From(y) \subseteq From(x)
      <3>1. \A z \in S : y <= z => x <= z
        BY <2>1
      <3> QED
        BY <3>1, Zenon
    <2>5. <<From(y), From(x)>> \in StrictSubsetOrdering(S)
      <3>1. \A U, V \in SUBSET S : U \subseteq V /\ U # V =>
              <<U, V>> \in StrictSubsetOrdering(S)
        BY DEF StrictSubsetOrdering
      <3>2. From(y) # From(x)
        BY <2>3
      <3> HIDE DEF From
      <3> QED
        BY <2>2, <2>4, <3>1, <3>2, Zenon
    <2>6. From(y) \in tails
      OBVIOUS
    <2> QED
      BY <1>3, <1>4, <2>5, <2>6
  <1> QED
    BY <1>4, <1>5 DEF Largest

-----------------------------------------------------------------------------
(* The shapes of the steps *)

\* What the typing says, without the record types.
LEMMA Typing ==
    ASSUME WellFormed
    PROVE  /\ Len(work) \in Nat /\ DOMAIN work = 1 .. Len(work)
           /\ Revision \in Nat
           /\ \A i \in 1 .. Len(work) :
                /\ work[i] \in WorkRow
                /\ work[i].generation \in Nat \ {0}
                /\ work[i].result \in Nat
                /\ work[i].parent \in Nat /\ work[i].parent < i
                /\ work[i].sections \subseteq Sections
           /\ \A q \in Requests : /\ waiter[q].work \in 0 .. Len(work)
                                  /\ client[q] \in Nat
           /\ \A r \in Runners : /\ runner[r] \in RunnerState
                                 /\ runner[r].work \in 0 .. Len(work)
                                 /\ runner[r].saved \in Nat
                                 /\ runner[r].pc # "idle" => runner[r].work # 0
           /\ DOMAIN runner = Runners /\ DOMAIN client = Requests
           /\ DOMAIN waiter = Requests
  <1>1. /\ Len(work) \in Nat /\ DOMAIN work = 1 .. Len(work)
        /\ Revision \in Nat
        /\ \A i \in 1 .. Len(work) : work[i] \in WorkRow
        /\ \A i \in 1 .. Len(work) : work[i].parent < i
    BY DEF WellFormed, Revision
  <1>2. \A row \in WorkRow : /\ row.generation \in Nat \ {0}
                             /\ row.result \in Nat /\ row.parent \in Nat
                             /\ row.sections \subseteq Sections
    BY DEF WorkRow
  <1>3. \A q \in Requests : waiter[q].work \in 0 .. Len(work) /\ client[q] \in Nat
    <2>1. \A q \in Requests : waiter[q] \in WaiterRow /\ waiter[q].work <= Len(work)
      BY DEF WellFormed
    <2>2. \A row \in WaiterRow : row.work \in Nat
      BY DEF WaiterRow
    <2> QED
      BY <1>1, <2>1, <2>2 DEF WellFormed
  <1>4. \A r \in Runners : /\ runner[r] \in RunnerState
                           /\ runner[r].work \in 0 .. Len(work)
                           /\ runner[r].saved \in Nat
                           /\ runner[r].pc # "idle" => runner[r].work # 0
    <2>1. \A r \in Runners : /\ runner[r] \in RunnerState
                             /\ runner[r].work <= Len(work)
                             /\ runner[r].pc # "idle" => runner[r].work # 0
      BY DEF WellFormed
    <2>2. \A state \in RunnerState : state.work \in Nat /\ state.saved \in Nat
      BY DEF RunnerState
    <2> QED
      BY <1>1, <2>1, <2>2
  <1> QED
    BY <1>1, <1>2, <1>3, <1>4 DEF WellFormed

\* What a step may do to one row: keep its inputs, its result and its owner, or
\* end its lease ...
RowKeeps(i) ==
    /\ work'[i].generation = work[i].generation
    /\ work'[i].parent = work[i].parent
    /\ work'[i].sections = work[i].sections
    /\ work'[i].reasons = work[i].reasons
    /\ work'[i].result = work[i].result
    /\ work'[i].status = "COMPLETED" <=> work[i].status = "COMPLETED"
    /\ work'[i].status = "RUNNING" =>
         work[i].status = "RUNNING" /\ work'[i].owner = work[i].owner

\* ... take a request in before it runs ...
RowTakes(i, q) ==
    /\ work'[i].generation = work[i].generation
    /\ work'[i].parent = work[i].parent
    /\ work'[i].sections = work[i].sections \union Wants[q]
    /\ work'[i].result = work[i].result
    /\ work'[i].status = work[i].status
    /\ work[i].status \notin {"RUNNING", "COMPLETED"}

\* ... be leased ...
RowClaimed(i, r) ==
    /\ work'[i].generation = work[i].generation
    /\ work'[i].parent = work[i].parent
    /\ work'[i].sections = work[i].sections
    /\ work'[i].reasons = work[i].reasons
    /\ work'[i].result = work[i].result
    /\ work[i].status # "COMPLETED"
    /\ work'[i].status = "RUNNING" /\ work'[i].owner = r

\* ... or complete, with a result that its generation admits.
RowCompletes(i, r) ==
    /\ work'[i].generation = work[i].generation
    /\ work'[i].parent = work[i].parent
    /\ work'[i].sections = work[i].sections
    /\ work[i].status = "RUNNING"
    /\ work'[i].status = "COMPLETED"
    /\ work'[i].result = runner[r].saved
    /\ runner[r].saved >= work[i].generation

\* What a step may do to one run: nothing that matters here, or publish.
RunKeeps(r) ==
    /\ runner'[r].work = runner[r].work
    /\ runner'[r].sections = runner[r].sections
    /\ runner'[r].reasons = runner[r].reasons
    /\ runner'[r].saved = runner[r].saved
    /\ runner'[r].pc = "saved" => runner[r].pc = "saved"

RunSaves(r) ==
    /\ runner'[r].work = runner[r].work
    /\ runner'[r].sections = runner[r].sections
    /\ runner'[r].reasons = runner[r].reasons
    /\ runner'[r].saved > Revision

\* The rows of a step that adds none.
SameRows ==
    /\ work' \in Seq(WorkRow)
    /\ Len(work') = Len(work)

Passes ==
    /\ UNCHANGED <<client, waiter>>
    /\ SameRows /\ \A i \in 1 .. Len(work) : RowKeeps(i)
    /\ \A r \in Runners : RunKeeps(r) \/ RunSaves(r) \/ runner'[r] = Idle
    /\ Revision' >= Revision

Leases(r, i) ==
    /\ UNCHANGED <<snapshots, client, waiter, disturbed>>
    /\ i \in 1 .. Len(work)
    /\ SameRows /\ RowClaimed(i, r)
    /\ \A k \in 1 .. Len(work) \ {i} :
         RowKeeps(k) /\ (~ Reclaimable(k) => work'[k] = work[k])
    /\ work[i].status = "RUNNING" => work[i].lease = "expired"
    /\ work'[i].lease = "live"
    /\ runner[r].pc = "idle"
    /\ runner'[r].pc = "refreshing" /\ runner'[r].work = i /\ ~ runner'[r].lost
    /\ runner'[r].sections = work[i].sections /\ runner'[r].reasons = work[i].reasons
    /\ \A s \in Runners \ {r} : runner'[s] = runner[s]

Closes(r) ==
    /\ UNCHANGED <<snapshots, client, waiter, disturbed>>
    /\ runner[r].pc = "saved" /\ Owns(r)
    /\ SameRows /\ RowCompletes(runner[r].work, r)
    /\ \A k \in 1 .. Len(work) \ {runner[r].work} : work'[k] = work[k] /\ RowKeeps(k)
    /\ runner'[r] = Idle
    /\ \A s \in Runners \ {r} : runner'[s] = runner[s]

\* A request is attached to a row that is already there.
Attaches(q, i) ==
    /\ UNCHANGED <<snapshots, client, runner, disturbed>>
    /\ client[q] # 0 /\ waiter[q].work = 0
    /\ i \in 1 .. Len(work)
    /\ SameRows
    /\ \/ RowTakes(i, q) /\ \A k \in 1 .. Len(work) \ {i} : work'[k] = work[k] /\ RowKeeps(k)
       \/ Equivalent(q, i) /\ UNCHANGED work /\ \A k \in 1 .. Len(work) : RowKeeps(k)
    /\ Attach(q, i, work[i].status = "RUNNING")

\* Writing one row, with its generation and its parent, adds none.
LEMMA RowWritten ==
    ASSUME WellFormed, NEW i \in 1 .. Len(work), NEW row \in WorkRow,
           work' = [work EXCEPT ![i] = row]
    PROVE  /\ SameRows
           /\ work'[i] = row
           /\ \A k \in 1 .. Len(work) \ {i} : work'[k] = work[k] /\ RowKeeps(k)
  <1>1. work \in Seq(WorkRow) /\ DOMAIN work = 1 .. Len(work) /\ Len(work) \in Nat
    BY Typing DEF WellFormed
  <1>2. work' \in Seq(WorkRow) /\ Len(work') = Len(work)
    BY <1>1
  <1>3. work'[i] = row /\ \A k \in 1 .. Len(work) \ {i} : work'[k] = work[k]
    BY <1>1
  <1> QED
    BY <1>2, <1>3 DEF SameRows, RowKeeps

\* The rows that no step but Submit, Claim and Complete changes pass.
LEMMA RowsPass ==
    ASSUME WellFormed
    PROVE  /\ UNCHANGED work => SameRows /\ \A i \in 1 .. Len(work) : RowKeeps(i)
           /\ \A i \in 1 .. Len(work) : \A row \in WorkRow :
                /\ work' = [work EXCEPT ![i] = row]
                /\ row.generation = work[i].generation
                /\ row.parent = work[i].parent
                /\ row.sections = work[i].sections
                /\ row.reasons = work[i].reasons
                /\ row.result = work[i].result
                /\ row.status = "COMPLETED" <=> work[i].status = "COMPLETED"
                /\ row.status = "RUNNING" =>
                     work[i].status = "RUNNING" /\ row.owner = work[i].owner
                => SameRows /\ \A k \in 1 .. Len(work) : RowKeeps(k)
  <1>1. UNCHANGED work => SameRows /\ \A i \in 1 .. Len(work) : RowKeeps(i)
    BY DEF WellFormed, SameRows, RowKeeps
  <1>2. ASSUME NEW i \in 1 .. Len(work), NEW row \in WorkRow,
               work' = [work EXCEPT ![i] = row],
               row.generation = work[i].generation,
               row.parent = work[i].parent,
               row.sections = work[i].sections,
               row.reasons = work[i].reasons,
               row.result = work[i].result,
               row.status = "COMPLETED" <=> work[i].status = "COMPLETED",
               row.status = "RUNNING" =>
                 work[i].status = "RUNNING" /\ row.owner = work[i].owner
        PROVE  SameRows /\ \A k \in 1 .. Len(work) : RowKeeps(k)
    <2>1. /\ SameRows /\ work'[i] = row
          /\ \A k \in 1 .. Len(work) \ {i} : RowKeeps(k)
      BY <1>2, RowWritten
    <2>2. RowKeeps(i)
      BY <1>2, <2>1 DEF RowKeeps
    <2> QED
      BY <2>1, <2>2
  <1> QED
    BY <1>1, <1>2

\* A run that only moves on, or ends, is kept.
LEMMA RunMoves ==
    ASSUME WellFormed, NEW r \in Runners, NEW state,
           runner' = [runner EXCEPT ![r] = state],
           \/ state = Idle
           \/ /\ state.work = runner[r].work
              /\ state.sections = runner[r].sections
              /\ state.reasons = runner[r].reasons
              /\ state.saved = runner[r].saved
              /\ state.pc = "saved" => runner[r].pc = "saved"
    PROVE  \A s \in Runners : RunKeeps(s) \/ RunSaves(s) \/ runner'[s] = Idle
  BY Typing DEF RunKeeps

LEMMA RunsStay ==
    UNCHANGED runner => \A s \in Runners : RunKeeps(s) \/ RunSaves(s) \/ runner'[s] = Idle
  BY DEF RunKeeps

\* Every step has one of the shapes, or reads a manifest, or queues a new row.
LEMMA SubmitShape ==
    ASSUME WellFormed, NEW q \in Requests, Submit(q)
    PROVE  \/ UNCHANGED vars
           \/ \E i \in 1 .. Len(work) : Attaches(q, i)
           \/ /\ Queue(q) /\ client[q] # 0 /\ waiter[q].work = 0
              /\ UNCHANGED <<snapshots, client, runner, disturbed>>
  <1>1. CASE waiter[q].work # 0
    BY <1>1 DEF Submit, vars
  <1>2. ASSUME waiter[q].work = 0, Join(q)
        PROVE  \E i \in 1 .. Len(work) : Attaches(q, i)
    <2>1. PICK i \in 1 .. Len(work) :
            /\ Joins(q, i)
            /\ work' = IF Mergeable(q, i) THEN [work EXCEPT ![i] = Merged(@, q)] ELSE work
            /\ Attach(q, i, work[i].status = "RUNNING")
      BY <1>2, Typing DEF Join
    <2>2. CASE Mergeable(q, i)
      <3> DEFINE row == Merged(work[i], q)
      <3>1. work' = [work EXCEPT ![i] = row]
        BY <2>1, <2>2, Typing
      <3>2. work[i] \in WorkRow /\ Wants[q] \subseteq Sections /\ Reason[q] \in Reasons
        BY Typing DEF Reasons
      <3>3. /\ row \in WorkRow
            /\ row.generation = work[i].generation /\ row.parent = work[i].parent
            /\ row.result = work[i].result /\ row.status = work[i].status
            /\ row.sections = work[i].sections \union Wants[q]
        BY <3>2 DEF Merged, WorkRow
      <3>4. work[i].status \notin {"RUNNING", "COMPLETED"}
        BY <2>2 DEF Mergeable
      <3> HIDE DEF row
      <3>5. /\ SameRows /\ work'[i] = row
            /\ \A k \in 1 .. Len(work) \ {i} : work'[k] = work[k] /\ RowKeeps(k)
        BY <3>1, <3>3, RowWritten
      <3>6. RowTakes(i, q)
        BY <3>3, <3>4, <3>5 DEF RowTakes
      <3> QED
        BY <1>2, <2>1, <3>5, <3>6 DEF Attaches, Submit
    <2>3. CASE ~ Mergeable(q, i)
      <3>1. UNCHANGED work /\ SameRows /\ \A k \in 1 .. Len(work) : RowKeeps(k)
        BY <2>1, <2>3, RowsPass
      <3>2. Equivalent(q, i)
        BY <2>1, <2>3 DEF Joins
      <3> QED
        BY <1>2, <2>1, <3>1, <3>2 DEF Attaches, Submit
    <2> QED
      BY <2>2, <2>3
  <1> QED
    BY <1>1, <1>2 DEF Submit

LEMMA ClaimShape ==
    ASSUME WellFormed, NEW r \in Runners, Claim(r)
    PROVE  \E i \in 1 .. Len(work) : Leases(r, i)
  <1> DEFINE claimed(i) == [Requeued(work[i]) EXCEPT !.status = "RUNNING", !.owner = r,
                                                     !.lease = "live"]
             row(i, k) == IF k = i THEN claimed(i)
                          ELSE IF Reclaimable(k) THEN Requeued(work[k]) ELSE work[k]
  <1>1. DOMAIN work = 1 .. Len(work) /\ Len(work) \in Nat
    BY Typing
  <1>2. PICK i \in 1 .. Len(work) :
          /\ work[i].status = "PENDING" \/ Reclaimable(i)
          /\ work' = [k \in 1 .. Len(work) |-> row(i, k)]
          /\ runner' = [runner EXCEPT ![r] =
                          [Idle EXCEPT !.pc = "refreshing", !.work = i,
                                       !.sections = work[i].sections,
                                       !.reasons = work[i].reasons]]
    BY <1>1 DEF Claim
  <1>3. ASSUME NEW k \in 1 .. Len(work)
        PROVE  /\ Requeued(work[k]) \in WorkRow
               /\ Requeued(work[k]).generation = work[k].generation
               /\ Requeued(work[k]).parent = work[k].parent
               /\ Requeued(work[k]).sections = work[k].sections
               /\ Requeued(work[k]).reasons = work[k].reasons
               /\ Requeued(work[k]).result = work[k].result
               /\ Requeued(work[k]).status = "PENDING"
    <2>1. work[k] \in WorkRow
      BY Typing
    <2> QED
      BY <2>1 DEF Requeued, WorkRow
  <1>4. /\ claimed(i) \in WorkRow
        /\ claimed(i).generation = work[i].generation
        /\ claimed(i).parent = work[i].parent
        /\ claimed(i).sections = work[i].sections
        /\ claimed(i).reasons = work[i].reasons
        /\ claimed(i).result = work[i].result
        /\ claimed(i).status = "RUNNING" /\ claimed(i).owner = r
        /\ claimed(i).lease = "live"
    <2> DEFINE before == Requeued(work[i])
    <2>1. before \in WorkRow
      BY <1>3
    <2>2. claimed(i) = [before EXCEPT !.status = "RUNNING", !.owner = r, !.lease = "live"]
      OBVIOUS
    <2> HIDE DEF before, claimed
    <2>3. /\ claimed(i) \in WorkRow
          /\ claimed(i).generation = before.generation
          /\ claimed(i).parent = before.parent
          /\ claimed(i).sections = before.sections
          /\ claimed(i).reasons = before.reasons
          /\ claimed(i).result = before.result
          /\ claimed(i).status = "RUNNING" /\ claimed(i).owner = r
          /\ claimed(i).lease = "live"
      BY <2>1, <2>2 DEF WorkRow
    <2> QED
      BY <1>3, <2>3 DEF before
  <1>5. /\ work[i].status # "COMPLETED"
        /\ work[i].status = "RUNNING" => work[i].lease = "expired"
    BY <1>2 DEF Reclaimable
  <1> HIDE DEF claimed
  <1>6. \A k \in 1 .. Len(work) : work'[k] = row(i, k) /\ row(i, k) \in WorkRow
    BY <1>2, <1>3, <1>4, Typing
  <1>7. SameRows
    BY <1>1, <1>2, <1>6 DEF SameRows
  <1>8. RowClaimed(i, r)
    BY <1>4, <1>5, <1>6 DEF RowClaimed
  <1>9. ASSUME NEW k \in 1 .. Len(work) \ {i}
        PROVE  RowKeeps(k) /\ (~ Reclaimable(k) => work'[k] = work[k])
    <2>1. CASE Reclaimable(k)
      BY <1>3, <1>6, <2>1 DEF RowKeeps, Reclaimable
    <2>2. CASE ~ Reclaimable(k)
      BY <1>6, <2>2 DEF RowKeeps
    <2> QED
      BY <2>1, <2>2
  <1>10. /\ runner'[r].pc = "refreshing" /\ runner'[r].work = i /\ ~ runner'[r].lost
         /\ runner'[r].sections = work[i].sections /\ runner'[r].reasons = work[i].reasons
         /\ \A s \in Runners \ {r} : runner'[s] = runner[s]
    BY <1>2, Typing DEF Idle
  <1> QED
    BY <1>4, <1>5, <1>6, <1>7, <1>8, <1>9, <1>10 DEF Leases, Claim

LEMMA CompleteShape ==
    ASSUME WellFormed, NEW r \in Runners, Complete(r)
    PROVE  \/ Closes(r)
           \/ /\ Passes /\ Goto(r, "failing") /\ UNCHANGED <<snapshots, work, disturbed>>
              /\ \/ runner[r].lost \/ ~ Owns(r)
                 \/ ~ (runner[r].saved >= work[runner[r].work].generation)
  <1> DEFINE i == runner[r].work
             accepted == /\ ~ runner[r].lost
                         /\ Owns(r)
                         /\ runner[r].saved >= work[i].generation
  <1>1. i \in 1 .. Len(work) /\ runner[r].pc = "saved"
    BY Typing DEF Complete
  <1>2. CASE accepted
    <2> DEFINE row == [work[i] EXCEPT !.status = "COMPLETED", !.owner = None,
                                      !.lease = "null", !.result = runner[r].saved]
    <2>1. work[i] \in WorkRow /\ runner[r].saved \in Nat
      BY <1>1, Typing
    <2>2. /\ row \in WorkRow
          /\ row.generation = work[i].generation /\ row.parent = work[i].parent
          /\ row.sections = work[i].sections
          /\ row.status = "COMPLETED" /\ row.result = runner[r].saved
      BY <2>1 DEF WorkRow
    <2>3. work' = [work EXCEPT ![i] = row]
      BY <1>1, <1>2, Typing DEF Complete
    <2> HIDE DEF row
    <2>4. /\ SameRows /\ work'[i] = row
          /\ \A k \in 1 .. Len(work) \ {i} : work'[k] = work[k] /\ RowKeeps(k)
      BY <1>1, <2>2, <2>3, RowWritten
    <2>5. RowCompletes(i, r)
      BY <1>2, <2>2, <2>4 DEF RowCompletes, Owns
    <2>6. runner'[r] = Idle /\ \A s \in Runners \ {r} : runner'[s] = runner[s]
      BY <1>2, Typing DEF Complete
    <2> QED
      BY <1>1, <1>2, <2>4, <2>5, <2>6 DEF Closes, Complete
  <1>3. CASE ~ accepted
    <2> DEFINE state == [runner[r] EXCEPT !.pc = "failing"]
    <2>1. runner[r] \in RunnerState
      BY Typing
    <2>2. /\ state.work = runner[r].work /\ state.sections = runner[r].sections
          /\ state.reasons = runner[r].reasons /\ state.saved = runner[r].saved
          /\ state.pc = "failing"
      BY <2>1 DEF RunnerState
    <2>3. runner' = [runner EXCEPT ![r] = state] /\ UNCHANGED work
      BY <1>3, Typing DEF Complete, Goto
    <2> HIDE DEF state
    <2>4. \A s \in Runners : RunKeeps(s) \/ RunSaves(s) \/ runner'[s] = Idle
      BY <2>2, <2>3, RunMoves
    <2>5. UNCHANGED <<snapshots, client, waiter>> /\ Revision' >= Revision
      BY Typing DEF Complete, Revision
    <2>6. Goto(r, "failing") /\ UNCHANGED <<snapshots, work, disturbed>>
      BY <1>3 DEF Complete
    <2> QED
      BY <1>3, <2>3, <2>4, <2>5, <2>6, RowsPass DEF Passes
  <1> QED
    BY <1>2, <1>3

LEMMA SaveShape ==
    ASSUME WellFormed, NEW r \in Runners, Save(r)
    PROVE  Passes
  <1>1. runner[r] \in RunnerState /\ DOMAIN runner = Runners /\ Revision \in Nat
    BY Typing
  <1>2. CASE runner[r].base = Revision
    <2> DEFINE state == [runner[r] EXCEPT !.pc = "saved", !.saved = Revision + 1]
    <2>1. /\ state.work = runner[r].work /\ state.sections = runner[r].sections
          /\ state.reasons = runner[r].reasons /\ state.saved = Revision + 1
      BY <1>1 DEF RunnerState
    <2>2. runner' = [runner EXCEPT ![r] = state]
      BY <1>1, <1>2 DEF Save
    <2> HIDE DEF state
    <2>3. \A s \in Runners : RunKeeps(s) \/ RunSaves(s) \/ runner'[s] = Idle
      BY <1>1, <2>1, <2>2 DEF RunKeeps, RunSaves
    <2>4. Revision' >= Revision
      BY <1>2 DEF Save, Revision, WellFormed
    <2> QED
      BY <2>3, <2>4, RowsPass DEF Passes, Save
  <1>3. CASE runner[r].base # Revision
    <2> DEFINE state == [runner[r] EXCEPT !.pc = "failing"]
    <2>1. /\ state.work = runner[r].work /\ state.sections = runner[r].sections
          /\ state.reasons = runner[r].reasons /\ state.saved = runner[r].saved
          /\ state.pc = "failing"
      BY <1>1 DEF RunnerState
    <2>2. runner' = [runner EXCEPT ![r] = state]
      BY <1>1, <1>3 DEF Save, Goto
    <2> HIDE DEF state
    <2>3. \A s \in Runners : RunKeeps(s) \/ RunSaves(s) \/ runner'[s] = Idle
      BY <2>1, <2>2, RunMoves
    <2>4. Revision' >= Revision
      BY <1>1, <1>3 DEF Save, Revision
    <2> QED
      BY <2>3, <2>4, RowsPass DEF Passes, Save
  <1> QED
    BY <1>2, <1>3

\* The other steps of a run and of its heartbeat pass.
LEMMA RunShape ==
    ASSUME WellFormed, NEW r \in Runners,
           Refreshed(r) \/ RefreshFails(r) \/ Fail(r) \/ Heartbeat(r) \/ HeartbeatFails(r)
             \/ Crash(r)
    PROVE  Passes
  <1>1. runner[r] \in RunnerState /\ DOMAIN runner = Runners /\ Revision \in Nat
    BY Typing
  <1>2. /\ UNCHANGED <<snapshots, client, waiter>> /\ Revision' >= Revision
    BY <1>1 DEF Refreshed, RefreshFails, Fail, Heartbeat, HeartbeatFails, Crash, Revision
  <1>a. ASSUME NEW state, runner' = [runner EXCEPT ![r] = state],
               state.work = runner[r].work, state.sections = runner[r].sections,
               state.reasons = runner[r].reasons, state.saved = runner[r].saved,
               state.pc = "saved" => runner[r].pc = "saved",
               UNCHANGED work
        PROVE  Passes
    <2>1. \A s \in Runners : RunKeeps(s) \/ RunSaves(s) \/ runner'[s] = Idle
      BY <1>a, RunMoves
    <2> QED
      BY <1>2, <1>a, <2>1, RowsPass DEF Passes
  <1>b. ASSUME runner' = [runner EXCEPT ![r] = Idle]
        PROVE  \A s \in Runners : RunKeeps(s) \/ RunSaves(s) \/ runner'[s] = Idle
    BY <1>b, RunMoves
  <1>f. ASSUME runner' = [runner EXCEPT ![r].pc = "failing"], UNCHANGED work
        PROVE  Passes
    <2> DEFINE state == [runner[r] EXCEPT !.pc = "failing"]
    <2>1. /\ state.work = runner[r].work /\ state.sections = runner[r].sections
          /\ state.reasons = runner[r].reasons /\ state.saved = runner[r].saved
          /\ state.pc = "failing"
      BY <1>1 DEF RunnerState
    <2>2. runner' = [runner EXCEPT ![r] = state]
      BY <1>1, <1>f
    <2> HIDE DEF state
    <2> QED
      BY <1>a, <1>f, <2>1, <2>2
  <1>3. CASE Refreshed(r)
    <2>1. CASE runner[r].lost
      <3>1. runner' = [runner EXCEPT ![r].pc = "failing"] /\ UNCHANGED work
        BY <1>3, <2>1 DEF Refreshed
      <3> QED
        BY <1>f, <3>1
    <2>2. CASE ~ runner[r].lost
      <3> DEFINE state == [runner[r] EXCEPT !.pc = "saving", !.base = Revision]
      <3>1. /\ state.work = runner[r].work /\ state.sections = runner[r].sections
            /\ state.reasons = runner[r].reasons /\ state.saved = runner[r].saved
            /\ state.pc = "saving"
        BY <1>1 DEF RunnerState
      <3>2. runner' = [runner EXCEPT ![r] = state] /\ UNCHANGED work
        BY <1>1, <1>3, <2>2 DEF Refreshed
      <3> HIDE DEF state
      <3> QED
        BY <1>a, <3>1, <3>2
    <2> QED
      BY <2>1, <2>2
  <1>4. CASE RefreshFails(r)
    BY <1>4, <1>f DEF RefreshFails, Goto
  <1>5. CASE Fail(r)
    <2>1. SameRows /\ \A k \in 1 .. Len(work) : RowKeeps(k)
      <3>1. CASE Owns(r) /\ ~ runner[r].lost
        <4> DEFINE i == runner[r].work
                   row == [work[i] EXCEPT !.status = "WAITING_BACKOFF", !.owner = None,
                                          !.lease = "null", !.due = FALSE]
        <4>1. i \in 1 .. Len(work) /\ work[i].status = "RUNNING"
          BY <1>5, <3>1, Typing DEF Fail, Owns
        <4>2. work[i] \in WorkRow
          BY <4>1, Typing
        <4>3. /\ row \in WorkRow
              /\ row.generation = work[i].generation /\ row.parent = work[i].parent
              /\ row.sections = work[i].sections /\ row.reasons = work[i].reasons
              /\ row.result = work[i].result /\ row.status = "WAITING_BACKOFF"
          BY <4>2 DEF WorkRow
        <4>4. work' = [work EXCEPT ![i] = row]
          BY <1>5, <3>1 DEF Fail
        <4> HIDE DEF row
        <4> QED
          BY <4>1, <4>3, <4>4, RowsPass
      <3>2. CASE ~ (Owns(r) /\ ~ runner[r].lost)
        BY <1>5, <3>2, RowsPass DEF Fail
      <3> QED
        BY <3>1, <3>2
    <2> QED
      BY <1>2, <1>5, <1>b, <2>1 DEF Fail, Passes
  <1>6. CASE Heartbeat(r)
    <2> DEFINE i == runner[r].work
               row == [work[i] EXCEPT !.lease = "live"]
    <2>1. i \in 1 .. Len(work)
      BY <1>6, Typing DEF Heartbeat, Beating
    <2>2. work[i] \in WorkRow
      BY <2>1, Typing
    <2>3. /\ row \in WorkRow
          /\ row.generation = work[i].generation /\ row.parent = work[i].parent
          /\ row.sections = work[i].sections /\ row.reasons = work[i].reasons
          /\ row.result = work[i].result /\ row.status = work[i].status
          /\ row.owner = work[i].owner
      BY <2>2 DEF WorkRow
    <2>4. work' = [work EXCEPT ![i] = row]
      BY <1>6, <2>1, Typing DEF Heartbeat
    <2> HIDE DEF row
    <2>5. SameRows /\ \A k \in 1 .. Len(work) : RowKeeps(k)
      BY <2>1, <2>3, <2>4, RowsPass
    <2> QED
      BY <1>2, <1>6, <2>5, RunsStay DEF Heartbeat, Passes
  <1>7. CASE HeartbeatFails(r)
    <2> DEFINE state == [runner[r] EXCEPT !.lost = TRUE]
    <2>1. /\ state.work = runner[r].work /\ state.sections = runner[r].sections
          /\ state.reasons = runner[r].reasons /\ state.saved = runner[r].saved
          /\ state.pc = runner[r].pc
      BY <1>1 DEF RunnerState
    <2>2. runner' = [runner EXCEPT ![r] = state] /\ UNCHANGED work
      BY <1>1, <1>7 DEF HeartbeatFails
    <2> HIDE DEF state
    <2> QED
      BY <1>a, <2>1, <2>2
  <1>8. CASE Crash(r)
    BY <1>2, <1>8, <1>b, RowsPass DEF Crash, Passes
  <1> QED
    BY <1>3, <1>4, <1>5, <1>6, <1>7, <1>8

\* So do the clock and other publishers.
LEMMA ClockShape ==
    ASSUME WellFormed
    PROVE  /\ \A i \in 1 .. Len(work) : LeaseExpires(i) \/ BackoffDue(i) => Passes
           /\ OtherPublish => Passes
           /\ UNCHANGED vars => Passes
  <1>1. ASSUME NEW i \in 1 .. Len(work), LeaseExpires(i) \/ BackoffDue(i)
        PROVE  Passes
    <2> DEFINE expired == [work[i] EXCEPT !.lease = "expired"]
               due == [work[i] EXCEPT !.due = TRUE]
    <2>1. work[i] \in WorkRow
      BY Typing
    <2> DEFINE Marks(row) ==
                 /\ row \in WorkRow
                 /\ row.generation = work[i].generation /\ row.parent = work[i].parent
                 /\ row.sections = work[i].sections /\ row.reasons = work[i].reasons
                 /\ row.result = work[i].result /\ row.status = work[i].status
                 /\ row.owner = work[i].owner
    <2>a. Marks(expired)
      BY <2>1 DEF WorkRow
    <2>b. Marks(due)
      BY <2>1 DEF WorkRow
    <2>2. \A row \in {expired, due} : Marks(row)
      BY <2>a, <2>b
    <2>3. work' = [work EXCEPT ![i] = expired] \/ work' = [work EXCEPT ![i] = due]
      BY <1>1, Typing DEF LeaseExpires, BackoffDue
    <2> HIDE DEF expired, due
    <2>4. SameRows /\ \A k \in 1 .. Len(work) : RowKeeps(k)
      BY <2>2, <2>3, RowsPass
    <2>5. UNCHANGED <<snapshots, client, waiter, runner>> /\ Revision' >= Revision
      BY <1>1, Typing DEF LeaseExpires, BackoffDue, Revision
    <2> QED
      BY <2>4, <2>5, RunsStay DEF Passes
  <1>2. ASSUME OtherPublish
        PROVE  Passes
    <2>1. Revision' >= Revision
      BY <1>2 DEF OtherPublish, Revision, WellFormed
    <2> QED
      BY <1>2, <2>1, RowsPass, RunsStay DEF OtherPublish, Passes
  <1>3. ASSUME UNCHANGED vars
        PROVE  Passes
    <2>1. Revision' >= Revision
      BY <1>3, Typing DEF vars, Revision
    <2> QED
      BY <1>3, <2>1, RowsPass, RunsStay DEF vars, Passes
  <1> QED
    BY <1>1, <1>2, <1>3

\* The shapes of the steps of the specification.
LEMMA StepShape ==
    ASSUME WellFormed, [Next]_vars
    PROVE  \/ Passes
           \/ \E q \in Requests : ReadManifest(q)
           \/ \E q \in Requests : \E i \in 1 .. Len(work) : Attaches(q, i)
           \/ \E q \in Requests : /\ Queue(q) /\ client[q] # 0 /\ waiter[q].work = 0
                                  /\ UNCHANGED <<snapshots, client, runner, disturbed>>
           \/ \E r \in Runners : \E i \in 1 .. Len(work) : Leases(r, i)
           \/ \E r \in Runners : Closes(r)
  <1>1. DOMAIN work = 1 .. Len(work)
    BY Typing
  <1>2. ASSUME NEW r \in Runners,
               Run(r) \/ RefreshFails(r) \/ Heartbeat(r) \/ HeartbeatFails(r) \/ Crash(r)
        PROVE  Passes \/ Closes(r)
    BY <1>2, RunShape, SaveShape, CompleteShape DEF Run
  <1> QED
    BY <1>1, <1>2, SubmitShape, ClaimShape, ClockShape DEF Next

-----------------------------------------------------------------------------
(* Rows, runs and generations stay well formed *)

\* A new generation comes after the published revisions and after all others.
LEMMA NewGeneration ==
    ASSUME WellFormed
    PROVE  /\ NextGeneration \in Nat \ {0}
           /\ NextGeneration > Revision
           /\ \A i \in 1 .. Len(work) : NextGeneration > work[i].generation
           /\ \/ NextGeneration = Revision + 1
              \/ \E i \in 1 .. Len(work) : NextGeneration = work[i].generation + 1
  <1> DEFINE generations == {work[i].generation : i \in DOMAIN work}
             f == [i \in 1 .. Len(work) |-> work[i].generation]
  <1>1. DOMAIN work = 1 .. Len(work) /\ Len(work) \in Nat /\ Revision \in Nat
    BY Typing
  <1>2. IsFiniteSet(generations)
    <2>1. IsFiniteSet(1 .. Len(work))
      BY <1>1, FS_Interval
    <2>2. f \in Surjection(1 .. Len(work), generations)
      BY <1>1 DEF Surjection
    <2> QED
      BY <2>1, <2>2, FS_Surjection
  <1>3. IsFiniteSet({Revision} \union generations)
    <2>1. IsFiniteSet({Revision})
      BY FS_Singleton
    <2> QED
      BY <1>2, <2>1, FS_Union
  <1>4. generations \in SUBSET Nat /\ \A i \in 1 .. Len(work) : work[i].generation \in generations
    BY <1>1, Typing
  <1> HIDE DEF generations
  <1>5. /\ Largest({Revision} \union generations) \in {Revision} \union generations
        /\ \A y \in {Revision} \union generations : y <= Largest({Revision} \union generations)
    BY <1>1, <1>3, <1>4, LargestSpec
  <1> DEFINE last == Largest({Revision} \union generations)
  <1>6. NextGeneration = last + 1
    BY DEF NextGeneration, generations
  <1>7. /\ last \in Nat /\ Revision <= last
        /\ \A i \in 1 .. Len(work) : work[i].generation <= last
        /\ last = Revision \/ \E i \in 1 .. Len(work) : last = work[i].generation
    BY <1>1, <1>4, <1>5 DEF generations
  <1>8. \A i \in 1 .. Len(work) : work[i].generation \in Nat
    BY Typing
  <1> HIDE DEF last
  <1> QED
    BY <1>1, <1>6, <1>7, <1>8

\* The running row that a new one complements is a running row, if there is one.
LEMMA RunningRowSpec ==
    ASSUME WellFormed
    PROVE  /\ RunningRow \in 0 .. Len(work)
           /\ RunningRow # 0 => work[RunningRow].status = "RUNNING"
  <1> DEFINE running == {i \in DOMAIN work : work[i].status = "RUNNING"}
  <1>1. DOMAIN work = 1 .. Len(work) /\ Len(work) \in Nat
    BY Typing
  <1>2. {0} \union running \in SUBSET (0 .. Len(work))
    BY <1>1
  <1>3. IsFiniteSet({0} \union running) /\ {0} \union running \in SUBSET Nat
    <2>1. IsFiniteSet(0 .. Len(work))
      BY <1>1, FS_Interval
    <2> QED
      BY <1>1, <1>2, <2>1, FS_Subset
  <1>4. Largest({0} \union running) \in {0} \union running
    BY <1>2, <1>3, LargestSpec
  <1>5. RunningRow = Largest({0} \union running)
    BY DEF RunningRow
  <1> QED
    BY <1>1, <1>4, <1>5

\* The row that a request queues, and what it leaves to the running row.
QueuedRow(q) ==
    [status |-> "PENDING", generation |-> NextGeneration, sections |-> Residual(q),
     reasons |-> {Reason[q]}, parent |-> RunningRow, owner |-> None, lease |-> "null",
     due |-> FALSE, result |-> 0]

LEMMA QueuedRowSpec ==
    ASSUME WellFormed, NEW q \in Requests, Queue(q)
    PROVE  /\ work' \in Seq(WorkRow)
           /\ Len(work') = Len(work) + 1
           /\ \A i \in 1 .. Len(work) : work'[i] = work[i]
           /\ work'[Len(work) + 1] = QueuedRow(q)
           /\ QueuedRow(q) \in WorkRow
           /\ Wants[q] \subseteq Residual(q) \union
                (IF RunningRow = 0 THEN {} ELSE work[RunningRow].sections)
  <1>1. /\ work \in Seq(WorkRow) /\ Len(work) \in Nat
        /\ Wants[q] \subseteq Sections /\ Reason[q] \in Reasons
    BY Typing DEF WellFormed, Reasons
  <1>2. /\ Residual(q) \subseteq Wants[q]
        /\ Wants[q] \subseteq Residual(q) \union
             (IF RunningRow = 0 THEN {} ELSE work[RunningRow].sections)
    BY DEF Residual
  <1>3. QueuedRow(q) \in WorkRow
    <2>1. RunningRow \in Nat /\ NextGeneration \in Nat \ {0}
      BY <1>1, RunningRowSpec, NewGeneration
    <2> QED
      BY <1>1, <1>2, <2>1 DEF QueuedRow, WorkRow
  <1>4. work' = Append(work, QueuedRow(q))
    BY DEF Queue, QueuedRow
  <1> HIDE DEF QueuedRow
  <1> QED
    BY <1>1, <1>2, <1>3, <1>4

\* What runs and publishers do to their own state.
LEMMA RunnersTyped ==
    ASSUME WellFormed, [Next]_vars
    PROVE  /\ snapshots' \in Seq(Nat)
           /\ runner' \in [Runners -> RunnerState]
           /\ disturbed' \in 0 .. Disturbances
           /\ \A r \in Runners : runner'[r].pc # "idle" => runner'[r].work # 0
  <1>1. /\ snapshots \in Seq(Nat) /\ runner \in [Runners -> RunnerState]
        /\ disturbed \in 0 .. Disturbances /\ Revision \in Nat
        /\ \A r \in Runners : /\ runner[r].pc # "idle" => runner[r].work # 0
                              /\ runner[r].work \in Nat
    BY Typing DEF WellFormed
  <1> DEFINE Published == snapshots' \in Seq(Nat)
             Counted == disturbed' \in 0 .. Disturbances
             Moved == /\ runner' \in [Runners -> RunnerState]
                      /\ \A r \in Runners : runner'[r].pc # "idle" => runner'[r].work # 0
  <1>2. /\ UNCHANGED snapshots => Published
        /\ UNCHANGED disturbed \/ Disturb => Counted
        /\ UNCHANGED runner => Moved
    BY <1>1 DEF Disturb
  <1>3. ASSUME NEW r \in Runners, NEW state \in RunnerState,
               runner' = [runner EXCEPT ![r] = state],
               state.pc # "idle" => state.work # 0
        PROVE  Moved
    BY <1>1, <1>3
  <1> HIDE DEF Moved
  <1>4. ASSUME NEW r \in Runners, runner' = [runner EXCEPT ![r] = Idle]
        PROVE  Moved
    <2>1. Idle \in RunnerState /\ Idle.pc = "idle"
      BY DEF Idle, RunnerState
    <2> QED
      BY <1>3, <1>4, <2>1
  <1>5. ASSUME NEW r \in Runners, NEW pc, Goto(r, pc), runner[r].pc # "idle",
               pc \in {"refreshing", "saving", "saved", "failing"}
        PROVE  Moved
    <2> DEFINE state == [runner[r] EXCEPT !.pc = pc]
    <2>1. state \in RunnerState /\ state.work = runner[r].work
      BY <1>1, <1>5 DEF RunnerState
    <2>2. runner' = [runner EXCEPT ![r] = state]
      BY <1>1, <1>5 DEF Goto
    <2> HIDE DEF state
    <2> QED
      BY <1>1, <1>3, <1>5, <2>1, <2>2
  <1>6. ASSUME NEW r \in Runners, Claim(r)
        PROVE  Moved
    <2>1. PICK i \in 1 .. Len(work) :
            runner' = [runner EXCEPT ![r] =
                         [Idle EXCEPT !.pc = "refreshing", !.work = i,
                                      !.sections = work[i].sections,
                                      !.reasons = work[i].reasons]]
      BY <1>6, Typing DEF Claim
    <2> DEFINE state == [Idle EXCEPT !.pc = "refreshing", !.work = i,
                                     !.sections = work[i].sections,
                                     !.reasons = work[i].reasons]
    <2>2. work[i] \in WorkRow /\ i \in Nat \ {0}
      BY Typing
    <2>3. state \in RunnerState /\ state.work = i
      BY <2>2 DEF WorkRow, RunnerState, Idle
    <2>4. runner' = [runner EXCEPT ![r] = state]
      BY <2>1
    <2> HIDE DEF state
    <2> QED
      BY <1>3, <2>2, <2>3, <2>4
  <1>7. ASSUME NEW r \in Runners, Refreshed(r)
        PROVE  Moved
    <2>1. CASE runner[r].lost
      <3>1. Goto(r, "failing")
        BY <1>1, <1>7, <2>1 DEF Refreshed, Goto
      <3> QED
        BY <1>5, <1>7, <3>1 DEF Refreshed
    <2>2. CASE ~ runner[r].lost
      <3> DEFINE state == [runner[r] EXCEPT !.pc = "saving", !.base = Revision]
      <3>1. state \in RunnerState /\ state.work = runner[r].work
        BY <1>1 DEF RunnerState
      <3>2. runner' = [runner EXCEPT ![r] = state] /\ runner[r].work # 0
        BY <1>1, <1>7, <2>2 DEF Refreshed
      <3> HIDE DEF state
      <3> QED
        BY <1>3, <3>1, <3>2
    <2> QED
      BY <2>1, <2>2
  <1>8. ASSUME NEW r \in Runners, Save(r)
        PROVE  Moved /\ Published
    <2>1. CASE runner[r].base = Revision
      <3> DEFINE state == [runner[r] EXCEPT !.pc = "saved", !.saved = Revision + 1]
      <3>1. state \in RunnerState /\ state.work = runner[r].work
        <4>1. runner[r] \in RunnerState /\ Revision + 1 \in Nat
          BY <1>1
        <4> QED
          BY <4>1 DEF RunnerState
      <3>2. runner' = [runner EXCEPT ![r] = state] /\ runner[r].work # 0
        BY <1>1, <1>8, <2>1 DEF Save
      <3> HIDE DEF state
      <3>3. Published
        <4>1. snapshots' = Append(snapshots, runner[r].work) /\ runner[r].work \in Nat
          BY <1>1, <1>8, <2>1 DEF Save
        <4> QED
          BY <1>1, <4>1
      <3> QED
        BY <1>3, <3>1, <3>2, <3>3
    <2>2. CASE runner[r].base # Revision
      BY <1>2, <1>5, <1>8, <2>2 DEF Save
    <2> QED
      BY <2>1, <2>2
  <1>9. ASSUME NEW r \in Runners, Complete(r)
        PROVE  Moved
    <2>1. runner[r].pc = "saved" /\ (Goto(r, "failing") \/ runner' = [runner EXCEPT ![r] = Idle])
      BY <1>9 DEF Complete
    <2> QED
      BY <1>4, <1>5, <2>1
  <1>10. ASSUME NEW r \in Runners, HeartbeatFails(r)
         PROVE  Moved
    <2> DEFINE state == [runner[r] EXCEPT !.lost = TRUE]
    <2>1. state \in RunnerState /\ state.work = runner[r].work /\ state.pc = runner[r].pc
      BY <1>1 DEF RunnerState
    <2>2. runner' = [runner EXCEPT ![r] = state]
      BY <1>1, <1>10 DEF HeartbeatFails
    <2> HIDE DEF state
    <2> QED
      BY <1>1, <1>3, <2>1, <2>2
  <1>11. OtherPublish => Published
    BY <1>1 DEF OtherPublish
  <1> HIDE DEF Published, Counted
  <1>12. ASSUME NEW q \in Requests, ReadManifest(q) \/ Submit(q)
         PROVE  Published /\ Counted /\ Moved
    BY <1>2, <1>12 DEF ReadManifest, Submit
  <1>13. ASSUME NEW r \in Runners,
                \/ Claim(r) \/ Run(r) \/ RefreshFails(r)
                \/ Heartbeat(r) \/ HeartbeatFails(r) \/ Crash(r)
         PROVE  Published /\ Counted /\ Moved
    <2>1. CASE Claim(r)
      BY <1>2, <1>6, <2>1 DEF Claim
    <2>2. CASE Refreshed(r)
      BY <1>2, <1>7, <2>2 DEF Refreshed
    <2>3. CASE Save(r)
      BY <1>2, <1>8, <2>3 DEF Save
    <2>4. CASE Complete(r)
      BY <1>2, <1>9, <2>4 DEF Complete
    <2>5. CASE Fail(r)
      BY <1>2, <1>4, <2>5 DEF Fail
    <2>6. CASE RefreshFails(r)
      BY <1>2, <1>5, <2>6 DEF RefreshFails
    <2>7. CASE Heartbeat(r)
      BY <1>2, <2>7 DEF Heartbeat
    <2>8. CASE HeartbeatFails(r)
      BY <1>2, <1>10, <2>8 DEF HeartbeatFails
    <2>9. CASE Crash(r)
      BY <1>2, <1>4, <2>9 DEF Crash
    <2> QED
      BY <1>13, <2>1, <2>2, <2>3, <2>4, <2>5, <2>6, <2>7, <2>8, <2>9 DEF Run
  <1>14. ASSUME NEW i \in DOMAIN work, LeaseExpires(i) \/ BackoffDue(i)
         PROVE  Published /\ Counted /\ Moved
    BY <1>2, <1>14 DEF LeaseExpires, BackoffDue
  <1>15. ASSUME OtherPublish \/ UNCHANGED vars
         PROVE  Published /\ Counted /\ Moved
    BY <1>2, <1>11, <1>15 DEF OtherPublish, vars
  <1>16. Published /\ Counted /\ Moved
    BY <1>12, <1>13, <1>14, <1>15 DEF Next
  <1> QED
    BY <1>16 DEF Published, Counted, Moved

\* No step moves a row, so generations stay in insertion order.
LEMMA RowsOrdered ==
    ASSUME WellFormed, SameRows,
           \A i \in 1 .. Len(work) : /\ work'[i].generation = work[i].generation
                                     /\ work'[i].parent = work[i].parent
    PROVE  /\ work' \in Seq(WorkRow) /\ DOMAIN work' = 1 .. Len(work) /\ Len(work') = Len(work)
           /\ \A i \in DOMAIN work' : work'[i].parent < i
           /\ \A i, k \in DOMAIN work' : i < k => work'[i].generation < work'[k].generation
  <1>1. work' \in Seq(WorkRow) /\ DOMAIN work' = 1 .. Len(work) /\ Len(work') = Len(work)
    BY DEF SameRows
  <1>2. \A i, k \in 1 .. Len(work) : i < k => work[i].generation < work[k].generation
    BY Typing DEF WellFormed
  <1>3. \A i \in 1 .. Len(work) : work[i].parent < i
    BY Typing
  <1> QED
    BY <1>1, <1>2, <1>3

LEMMA WellFormedInit == Init => WellFormed
  <1> SUFFICES ASSUME Init
               PROVE  WellFormed
    OBVIOUS
  <1>1. work = <<>> /\ Len(work) = 0 /\ DOMAIN work = {}
    BY DEF Init
  <1>2. snapshots \in Seq(Nat) /\ work \in Seq(WorkRow)
    BY DEF Init
  <1>3. client \in [Requests -> Nat] /\ disturbed \in 0 .. Disturbances
    BY DEF Init
  <1>4. waiter \in [Requests -> WaiterRow] /\ \A q \in Requests : waiter[q].work = 0
    BY DEF Init, WaiterRow
  <1>5. Idle \in RunnerState /\ Idle.work = 0 /\ Idle.pc = "idle"
    BY DEF Idle, RunnerState
  <1>6. /\ runner \in [Runners -> RunnerState]
        /\ \A r \in Runners : runner[r].work = 0 /\ runner[r].pc = "idle"
    BY <1>5 DEF Init
  <1> QED
    BY <1>1, <1>2, <1>3, <1>4, <1>6 DEF WellFormed

LEMMA WellFormedStep ==
    ASSUME WellFormed, [Next]_vars
    PROVE  WellFormed'
  <1> DEFINE Rows == /\ work' \in Seq(WorkRow)
                     /\ \A i \in DOMAIN work' : work'[i].parent < i
                     /\ \A i, k \in DOMAIN work' :
                          i < k => work'[i].generation < work'[k].generation
             Consumers == /\ client' \in [Requests -> Nat]
                          /\ waiter' \in [Requests -> WaiterRow]
                          /\ \A q \in Requests : waiter'[q].work <= Len(work')
             Runs == \A r \in Runners : runner'[r].work <= Len(work')
  <1>1. /\ Len(work) \in Nat /\ DOMAIN work = 1 .. Len(work) /\ Revision \in Nat
        /\ client \in [Requests -> Nat] /\ waiter \in [Requests -> WaiterRow]
        /\ \A q \in Requests : waiter[q].work \in Nat /\ waiter[q].work <= Len(work)
        /\ \A r \in Runners : runner[r].work \in Nat /\ runner[r].work <= Len(work)
    BY Typing DEF WellFormed
  <1>2. SameRows /\ UNCHANGED <<client, waiter>> => Consumers
    BY <1>1 DEF SameRows
  <1>3. Idle.work = 0
    BY DEF Idle
  <1>4. ASSUME SameRows, \A r \in Runners : runner'[r].work = runner[r].work \/ runner'[r] = Idle
        PROVE  Runs
    BY <1>1, <1>3, <1>4 DEF SameRows
  <1>5. ASSUME NEW q \in Requests, NEW i \in Nat, NEW late \in BOOLEAN, Attach(q, i, late),
               i <= Len(work'), Len(work') \in Nat, Len(work') >= Len(work), UNCHANGED client
        PROVE  Consumers
    <2>1. waiter' \in [Requests -> WaiterRow]
      BY <1>1, <1>5 DEF Attach, WaiterRow
    <2>2. ASSUME NEW p \in Requests
          PROVE  waiter'[p].work <= Len(work')
      <3>1. CASE p = q
        BY <1>1, <1>5, <3>1 DEF Attach
      <3>2. CASE p # q
        <4>1. waiter'[p] = waiter[p]
          BY <1>1, <1>5, <3>2 DEF Attach
        <4> QED
          BY <1>1, <1>5, <4>1
      <3> QED
        BY <3>1, <3>2
    <2> QED
      BY <1>1, <1>5, <2>1, <2>2
  <1> HIDE DEF Consumers, Runs
  <1>6. CASE Passes
    <2>1. Rows
      BY <1>6, RowsOrdered DEF Passes, RowKeeps
    <2>2. Runs
      <3>1. \A r \in Runners : runner'[r].work = runner[r].work \/ runner'[r] = Idle
        BY <1>6 DEF Passes, RunKeeps, RunSaves
      <3> QED
        BY <1>4, <1>6, <3>1 DEF Passes
    <2> QED
      BY <1>2, <1>6, <2>1, <2>2, RunnersTyped DEF Passes, WellFormed, Consumers, Runs
  <1>7. ASSUME NEW q \in Requests, ReadManifest(q)
        PROVE  WellFormed'
    <2>1. SameRows /\ \A i \in 1 .. Len(work) : RowKeeps(i)
      BY <1>7, RowsPass DEF ReadManifest
    <2>2. Rows
      BY <2>1, RowsOrdered DEF RowKeeps
    <2>3. Consumers
      BY <1>1, <1>7 DEF ReadManifest, Consumers
    <2>4. Runs
      BY <1>4, <1>7, <2>1 DEF ReadManifest
    <2> QED
      BY <2>2, <2>3, <2>4, RunnersTyped DEF WellFormed, Consumers, Runs
  <1>8. ASSUME NEW q \in Requests, NEW i \in 1 .. Len(work), Attaches(q, i)
        PROVE  WellFormed'
    <2>1. \A k \in 1 .. Len(work) : work'[k].generation = work[k].generation
                                    /\ work'[k].parent = work[k].parent
      BY <1>8 DEF Attaches, RowTakes, RowKeeps
    <2>2. Rows /\ Len(work') = Len(work)
      BY <1>8, <2>1, RowsOrdered DEF Attaches
    <2>3. Consumers
      <3> DEFINE late == work[i].status = "RUNNING"
      <3>1. Attach(q, i, late) /\ late \in BOOLEAN /\ UNCHANGED client
        BY <1>8 DEF Attaches
      <3>2. i \in Nat /\ i <= Len(work') /\ Len(work') \in Nat /\ Len(work') >= Len(work)
        BY <1>1, <2>2
      <3> HIDE DEF late
      <3> QED
        BY <1>5, <3>1, <3>2
    <2>4. Runs
      BY <1>4, <1>8 DEF Attaches
    <2> QED
      BY <2>2, <2>3, <2>4, RunnersTyped DEF WellFormed, Consumers, Runs
  <1>9. ASSUME NEW q \in Requests, Queue(q), UNCHANGED <<snapshots, client, runner, disturbed>>
        PROVE  WellFormed'
    <2>1. /\ work' \in Seq(WorkRow) /\ Len(work') = Len(work) + 1
          /\ \A i \in 1 .. Len(work) : work'[i] = work[i]
          /\ work'[Len(work) + 1] = QueuedRow(q)
      BY <1>9, QueuedRowSpec
    <2>2. /\ QueuedRow(q).generation = NextGeneration
          /\ QueuedRow(q).parent \in 0 .. Len(work)
      BY RunningRowSpec DEF QueuedRow
    <2>3. DOMAIN work' = 1 .. (Len(work) + 1)
      BY <2>1
    <2>4. ASSUME NEW i \in DOMAIN work'
          PROVE  work'[i].parent < i
      <3>1. CASE i = Len(work) + 1
        <4>1. work'[i].parent \in 0 .. Len(work) /\ i = Len(work) + 1
          BY <2>1, <2>2, <3>1
        <4> QED
          BY <1>1, <4>1
      <3>2. CASE i # Len(work) + 1
        <4>1. i \in 1 .. Len(work)
          BY <1>1, <2>3, <3>2
        <4> QED
          BY <2>1, <4>1, Typing
      <3> QED
        BY <3>1, <3>2
    <2>5. ASSUME NEW i \in DOMAIN work', NEW k \in DOMAIN work', i < k
          PROVE  work'[i].generation < work'[k].generation
      <3>1. i \in 1 .. Len(work)
        BY <1>1, <2>3, <2>5
      <3>2. CASE k = Len(work) + 1
        BY <2>1, <2>2, <3>1, <3>2, NewGeneration, Typing
      <3>3. CASE k # Len(work) + 1
        <4>1. k \in 1 .. Len(work)
          BY <1>1, <2>3, <3>3
        <4>2. work[i].generation < work[k].generation
          BY <1>1, <2>5, <3>1, <4>1 DEF WellFormed
        <4> QED
          BY <2>1, <3>1, <4>1, <4>2
      <3> QED
        BY <3>2, <3>3
    <2>6. Rows
      BY <2>1, <2>4, <2>5
    <2>7. Consumers
      <3>1. Attach(q, Len(work) + 1, FALSE) /\ UNCHANGED client
        BY <1>9 DEF Queue
      <3>2. /\ Len(work) + 1 \in Nat /\ Len(work) + 1 <= Len(work')
            /\ Len(work') \in Nat /\ Len(work') >= Len(work)
        BY <1>1, <2>1
      <3> QED
        BY <1>5, <3>1, <3>2
    <2>8. Runs
      BY <1>1, <1>9, <2>1 DEF Runs
    <2> QED
      BY <2>6, <2>7, <2>8, RunnersTyped DEF WellFormed, Consumers, Runs
  <1>10. ASSUME NEW r \in Runners, NEW i \in 1 .. Len(work), Leases(r, i)
         PROVE  WellFormed'
    <2>1. \A k \in 1 .. Len(work) : work'[k].generation = work[k].generation
                                    /\ work'[k].parent = work[k].parent
      BY <1>10 DEF Leases, RowClaimed, RowKeeps
    <2>2. Rows /\ Len(work') = Len(work)
      BY <1>10, <2>1, RowsOrdered DEF Leases
    <2>3. Consumers
      BY <1>2, <1>10 DEF Leases
    <2>4. Runs
      <3>1. runner'[r].work = i /\ \A s \in Runners \ {r} : runner'[s] = runner[s]
        BY <1>10 DEF Leases
      <3>2. i <= Len(work') /\ \A s \in Runners : runner[s].work <= Len(work')
        BY <1>1, <2>2
      <3> QED
        BY <3>1, <3>2 DEF Runs
    <2> QED
      BY <2>2, <2>3, <2>4, RunnersTyped DEF WellFormed, Consumers, Runs
  <1>11. ASSUME NEW r \in Runners, Closes(r)
         PROVE  WellFormed'
    <2>1. \A k \in 1 .. Len(work) : work'[k].generation = work[k].generation
                                    /\ work'[k].parent = work[k].parent
      BY <1>11 DEF Closes, RowCompletes, RowKeeps
    <2>2. Rows
      BY <1>11, <2>1, RowsOrdered DEF Closes
    <2>3. Consumers
      BY <1>2, <1>11 DEF Closes
    <2>4. Runs
      BY <1>4, <1>11 DEF Closes
    <2> QED
      BY <2>2, <2>3, <2>4, RunnersTyped DEF WellFormed, Consumers, Runs
  <1> QED
    BY <1>6, <1>7, <1>8, <1>9, <1>10, <1>11, StepShape

\* Rows, runs, waiters and generations stay well formed: work rows only refer to
\* earlier rows and generations grow in insertion order, so UNIQUE(symbol,
\* generation) never fires and ORDER BY generation is the order of the queue.
THEOREM WellFormedThm == Spec => []WellFormed
  BY WellFormedInit, WellFormedStep, PTL DEF Spec

-----------------------------------------------------------------------------
(* What a runner works on *)

\* A run that still owns its row after a step that keeps row and run owned it.
LEMMA OwnsBefore ==
    ASSUME NEW s \in Runners, NEW i, RowKeeps(i), i = runner[s].work,
           runner'[s].work = i, Owns(s)'
    PROVE  Owns(s)
  BY DEF Owns, RowKeeps

\* In every shape of a step, a run that owns a row afterwards has leased it in
\* this step, or it owned it before, and the row and the run kept their inputs.
LEMMA OwnedLater ==
    ASSUME WellFormed, [Next]_vars, NEW s \in Runners, runner'[s].work # 0, Owns(s)'
    PROVE  \/ \E i \in 1 .. Len(work) : Leases(s, i)
           \/ /\ runner[s].work \in 1 .. Len(work)
              /\ Owns(s)
              /\ work'[runner[s].work].sections = work[runner[s].work].sections
              /\ work'[runner[s].work].reasons = work[runner[s].work].reasons
              /\ RunKeeps(s) \/ RunSaves(s)
  <1> DEFINE i == runner[s].work
             Kept == /\ i \in 1 .. Len(work)
                     /\ Owns(s)
                     /\ work'[i].sections = work[i].sections
                     /\ work'[i].reasons = work[i].reasons
                     /\ RunKeeps(s) \/ RunSaves(s)
  <1>1. i \in 0 .. Len(work) /\ Len(work) \in Nat /\ Idle.work = 0
    BY Typing DEF Idle
  <1>2. ASSUME runner'[s].work = i, i # 0 => RowKeeps(i), RunKeeps(s) \/ RunSaves(s)
        PROVE  Kept
    <2>1. i # 0 /\ i \in 1 .. Len(work)
      BY <1>1, <1>2
    <2>2. Owns(s)
      BY <1>2, <2>1, OwnsBefore
    <2> QED
      BY <1>2, <2>1, <2>2 DEF RowKeeps
  <1>3. ASSUME runner'[s] = runner[s]
        PROVE  runner'[s].work = i /\ RunKeeps(s)
    BY <1>3 DEF RunKeeps
  <1> HIDE DEF Kept
  <1>4. CASE Passes
    <2>1. RunKeeps(s) \/ RunSaves(s)
      BY <1>1, <1>4 DEF Passes
    <2>2. i # 0 => RowKeeps(i)
      BY <1>1, <1>4 DEF Passes
    <2> QED
      BY <1>2, <2>1, <2>2 DEF RunKeeps, RunSaves, Kept
  <1>5. ASSUME NEW q \in Requests, ReadManifest(q)
        PROVE  Kept
    <2>1. \A k \in 1 .. Len(work) : RowKeeps(k)
      BY <1>5, RowsPass DEF ReadManifest
    <2> QED
      BY <1>1, <1>2, <1>3, <1>5, <2>1 DEF ReadManifest
  <1>6. ASSUME NEW q \in Requests, NEW k \in 1 .. Len(work), Attaches(q, k)
        PROVE  Kept
    <2>1. runner'[s] = runner[s]
      BY <1>6 DEF Attaches
    <2>2. i # 0 => RowKeeps(i)
      <3>1. ASSUME i = k, RowTakes(k, q)
            PROVE  FALSE
        BY <1>3, <2>1, <3>1 DEF Owns, RowTakes
      <3> QED
        BY <1>1, <1>6, <3>1 DEF Attaches
    <2> QED
      BY <1>2, <1>3, <2>1, <2>2
  <1>7. ASSUME NEW q \in Requests, Queue(q), UNCHANGED <<snapshots, client, runner, disturbed>>
        PROVE  Kept
    <2>1. \A k \in 1 .. Len(work) : RowKeeps(k)
      BY <1>7, QueuedRowSpec DEF RowKeeps
    <2> QED
      BY <1>1, <1>2, <1>3, <1>7, <2>1
  <1>8. ASSUME NEW r \in Runners, NEW k \in 1 .. Len(work), Leases(r, k), r # s
        PROVE  Kept
    <2>1. runner'[s] = runner[s]
      BY <1>8 DEF Leases
    <2>2. i # k
      BY <1>3, <1>8, <2>1 DEF Owns, Leases, RowClaimed
    <2>3. i # 0 => RowKeeps(i)
      BY <1>1, <1>8, <2>2 DEF Leases
    <2> QED
      BY <1>2, <1>3, <2>1, <2>3
  <1>9. ASSUME NEW r \in Runners, Closes(r)
        PROVE  Kept
    <2>1. r # s
      BY <1>1, <1>9 DEF Closes
    <2>2. runner'[s] = runner[s]
      BY <1>9, <2>1 DEF Closes
    <2>3. i # runner[r].work
      BY <1>3, <1>9, <2>2 DEF Owns, Closes, RowCompletes
    <2>4. i # 0 => RowKeeps(i)
      BY <1>1, <1>9, <2>3 DEF Closes
    <2> QED
      BY <1>2, <1>3, <2>2, <2>4
  <1> QED
    BY <1>4, <1>5, <1>6, <1>7, <1>8, <1>9, StepShape DEF Kept

LEMMA OwnedInputsStep ==
    ASSUME WellFormed, OwnedInputsFrozen, [Next]_vars
    PROVE  OwnedInputsFrozen'
  <1> SUFFICES ASSUME NEW s \in Runners, runner'[s].work # 0, Owns(s)'
               PROVE  /\ runner'[s].sections = work'[runner'[s].work].sections
                      /\ runner'[s].reasons = work'[runner'[s].work].reasons
    BY DEF OwnedInputsFrozen
  <1>1. CASE \E i \in 1 .. Len(work) : Leases(s, i)
    BY <1>1 DEF Leases, RowClaimed
  <1>2. CASE /\ runner[s].work \in 1 .. Len(work)
             /\ Owns(s)
             /\ work'[runner[s].work].sections = work[runner[s].work].sections
             /\ work'[runner[s].work].reasons = work[runner[s].work].reasons
             /\ RunKeeps(s) \/ RunSaves(s)
    <2>1. /\ runner'[s].work = runner[s].work
          /\ runner'[s].sections = runner[s].sections
          /\ runner'[s].reasons = runner[s].reasons
      BY <1>2 DEF RunKeeps, RunSaves
    <2>2. runner[s].work # 0
      BY <1>2
    <2> QED
      BY <1>2, <2>1, <2>2 DEF OwnedInputsFrozen
  <1> QED
    BY <1>1, <1>2, OwnedLater

\* While a worker owns a row, the sections and the reasons it claimed are those
\* of the row: no request is merged into a generation that already runs.
THEOREM OwnedInputsFrozenThm == Spec => []OwnedInputsFrozen
  <1>1. Init => OwnedInputsFrozen
    <2>1. Idle.work = 0
      BY DEF Idle
    <2> QED
      BY <2>1 DEF Init, OwnedInputsFrozen
  <1>2. WellFormed /\ OwnedInputsFrozen /\ [Next]_vars => OwnedInputsFrozen'
    BY OwnedInputsStep
  <1> QED
    BY <1>1, <1>2, WellFormedThm, PTL DEF Spec

-----------------------------------------------------------------------------
(* What a request waits for *)

Queues(q) ==
    /\ Queue(q) /\ client[q] # 0 /\ waiter[q].work = 0
    /\ UNCHANGED <<snapshots, client, runner, disturbed>>

\* Rows keep their place and never lose a section.
LEMMA RowsGrow ==
    ASSUME WellFormed, [Next]_vars, NEW i \in 1 .. Len(work)
    PROVE  /\ i \in 1 .. Len(work')
           /\ work'[i].generation = work[i].generation
           /\ work'[i].parent = work[i].parent
           /\ work[i].sections \subseteq work'[i].sections
           /\ \/ UNCHANGED <<work[i].status, work[i].result>>
              \/ work'[i].status # "COMPLETED" /\ work[i].status # "COMPLETED"
                 /\ work'[i].result = work[i].result
              \/ \E r \in Runners : Closes(r) /\ i = runner[r].work
  <1>1. Len(work) \in Nat
    BY Typing
  <1>2. SameRows => i \in 1 .. Len(work')
    BY DEF SameRows
  <1>3. ASSUME RowKeeps(i)
        PROVE  /\ work'[i].generation = work[i].generation
               /\ work'[i].parent = work[i].parent
               /\ work[i].sections \subseteq work'[i].sections
               /\ \/ UNCHANGED <<work[i].status, work[i].result>>
                  \/ work'[i].status # "COMPLETED" /\ work[i].status # "COMPLETED"
                     /\ work'[i].result = work[i].result
    BY <1>3 DEF RowKeeps
  <1>4. CASE Passes
    BY <1>2, <1>3, <1>4 DEF Passes
  <1>5. CASE \E q \in Requests : ReadManifest(q)
    BY <1>2, <1>3, <1>5, RowsPass DEF ReadManifest
  <1>6. CASE \E q \in Requests : \E k \in 1 .. Len(work) : Attaches(q, k)
    BY <1>2, <1>3, <1>6 DEF Attaches, RowTakes
  <1>7. CASE \E q \in Requests : /\ Queue(q) /\ client[q] # 0 /\ waiter[q].work = 0
                                 /\ UNCHANGED <<snapshots, client, runner, disturbed>>
    BY <1>1, <1>7, QueuedRowSpec
  <1>8. CASE \E r \in Runners : \E k \in 1 .. Len(work) : Leases(r, k)
    BY <1>2, <1>3, <1>8 DEF Leases, RowClaimed
  <1>9. CASE \E r \in Runners : Closes(r)
    BY <1>2, <1>3, <1>9 DEF Closes, RowCompletes
  <1> QED
    BY <1>4, <1>5, <1>6, <1>7, <1>8, <1>9, StepShape

\* A request waits for a row from the step that attaches it on.
LEMMA WaitersStay ==
    ASSUME WellFormed, [Next]_vars, NEW q \in Requests
    PROVE  \/ waiter'[q] = waiter[q]
           \/ \E i \in 1 .. Len(work) : Attaches(q, i)
           \/ Queues(q)
  <1>1. \A p \in Requests : \A i, late : Attach(p, i, late) /\ p # q => waiter'[q] = waiter[q]
    BY Typing DEF Attach
  <1>2. CASE \E p \in Requests : \E i \in 1 .. Len(work) : Attaches(p, i)
    BY <1>1, <1>2 DEF Attaches
  <1>3. CASE \E p \in Requests : /\ Queue(p) /\ client[p] # 0 /\ waiter[p].work = 0
                                 /\ UNCHANGED <<snapshots, client, runner, disturbed>>
    BY <1>1, <1>3 DEF Queue, Queues
  <1> QED
    BY <1>2, <1>3, StepShape DEF Passes, ReadManifest, Leases, Closes

\* The row that a request queues is the last one.
LEMMA QueuesSpec ==
    ASSUME WellFormed, NEW q \in Requests, Queues(q)
    PROVE  /\ Len(work') = Len(work) + 1
           /\ \A i \in 1 .. Len(work) : work'[i] = work[i]
           /\ work'[Len(work) + 1].status = "PENDING"
           /\ work'[Len(work) + 1].result = 0
           /\ work'[Len(work) + 1].parent = RunningRow
           /\ work'[Len(work) + 1].sections = Residual(q)
           /\ waiter'[q].work = Len(work) + 1
           /\ UNCHANGED <<snapshots, client, runner>>
  BY QueuedRowSpec, Typing DEF Queues, Queue, QueuedRow, Attach

\* A waiter that is attached refers to a row.
LEMMA AttachesSpec ==
    ASSUME WellFormed, NEW q \in Requests, NEW i \in 1 .. Len(work), Attaches(q, i)
    PROVE  /\ waiter'[q].work = i
           /\ waiter'[q].late <=> work[i].status = "RUNNING"
           /\ Len(work') = Len(work)
           /\ Wants[q] \subseteq work'[i].sections
           /\ work[i].status # "COMPLETED" /\ work'[i].status # "COMPLETED"
           /\ work'[i].result = work[i].result
           /\ UNCHANGED <<snapshots, client, runner>>
  BY Typing DEF Attaches, Attach, RowTakes, RowKeeps, Equivalent, SameRows

\* The sections of a row and of the row it complements.
Covers(i) == work[i].sections \union
               (IF work[i].parent = 0 THEN {} ELSE work[work[i].parent].sections)

LEMMA WaiterCoveredStep ==
    ASSUME WellFormed, WaiterCovered, [Next]_vars
    PROVE  WaiterCovered'
  <1> SUFFICES ASSUME NEW q \in Requests, NEW i, i = waiter'[q].work, i # 0
               PROVE  Wants[q] \subseteq Covers(i)'
    BY DEF WaiterCovered, Covers
  <1>1. \A k \in 1 .. Len(work) : Covers(k) \subseteq Covers(k)'
    <2> SUFFICES ASSUME NEW k \in 1 .. Len(work)
                 PROVE  Covers(k) \subseteq Covers(k)'
      OBVIOUS
    <2>1. /\ work'[k].parent = work[k].parent
          /\ work[k].sections \subseteq work'[k].sections
      BY RowsGrow
    <2>2. work[k].parent # 0 => work[k].parent \in 1 .. Len(work)
      <3>1. Len(work) \in Nat /\ work[k].parent \in Nat /\ work[k].parent < k
        BY Typing
      <3> QED
        BY <3>1
    <2>3. work[k].parent # 0 =>
            work[work[k].parent].sections \subseteq work'[work[k].parent].sections
      BY <2>2, RowsGrow
    <2> QED
      BY <2>1, <2>3 DEF Covers
  <1>2. CASE waiter'[q] = waiter[q]
    <2>1. i \in 1 .. Len(work)
      <3>1. Len(work) \in Nat /\ waiter[q].work \in 0 .. Len(work)
        BY Typing
      <3> QED
        BY <1>2, <3>1
    <2>2. Wants[q] \subseteq Covers(i)
      BY <1>2, <2>1 DEF WaiterCovered, Covers
    <2> QED
      BY <1>1, <1>2, <2>1, <2>2
  <1>3. CASE \E k \in 1 .. Len(work) : Attaches(q, k)
    <2>1. i \in 1 .. Len(work) /\ Wants[q] \subseteq work'[i].sections
      <3>1. PICK k \in 1 .. Len(work) : Attaches(q, k)
        BY <1>3
      <3>2. waiter'[q].work = k /\ Wants[q] \subseteq work'[k].sections
        BY <3>1, AttachesSpec
      <3> QED
        BY <3>2
    <2> QED
      BY <2>1 DEF Covers
  <1>4. CASE Queues(q)
    <2>1. RunningRow \in 0 .. Len(work)
      BY RunningRowSpec
    <2>2. Wants[q] \subseteq Residual(q) \union
            (IF RunningRow = 0 THEN {} ELSE work[RunningRow].sections)
      BY <1>4, QueuedRowSpec DEF Queues
    <2>3. RunningRow # 0 => work'[RunningRow] = work[RunningRow]
      BY <1>4, <2>1, QueuesSpec
    <2>4. /\ work'[i].parent = RunningRow /\ work'[i].sections = Residual(q)
      BY <1>4, QueuesSpec
    <2> QED
      BY <2>2, <2>3, <2>4 DEF Covers
  <1> QED
    BY <1>2, <1>3, <1>4, WaitersStay

\* Whatever is merged, split off or retried, the row that a request waits for and
\* the running row that it complements cover the required_sections.
THEOREM WaiterCoveredThm == Spec => []WaiterCovered
  <1>1. Init => WaiterCovered
    BY DEF Init, WaiterCovered
  <1>2. WellFormed /\ WaiterCovered /\ [Next]_vars => WaiterCovered'
    BY WaiterCoveredStep
  <1> QED
    BY <1>1, <1>2, WellFormedThm, PTL DEF Spec

-----------------------------------------------------------------------------
(* Answers are newer than what the consumer was shown *)

\* A consumer has read no revision that is not published, and it reads the
\* manifest before it waits.
ClientsKnown ==
    \A q \in Requests : client[q] <= Revision /\ (waiter[q].work # 0 => client[q] # 0)

\* What the owner of a row has saved for it is newer than what was shown to the
\* requests that were attached before the row ran.
SavedNewer ==
    \A r \in Runners : \A q \in Requests :
        /\ runner[r].pc = "saved" /\ Owns(r)
        /\ waiter[q].work = runner[r].work /\ ~ waiter[q].late
        => client[q] < runner[r].saved

\* Revisions only grow.
LEMMA RevisionGrows ==
    ASSUME WellFormed, [Next]_vars
    PROVE  Revision' \in Nat /\ Revision' >= Revision
  <1>1. WellFormed' /\ Revision \in Nat
    BY WellFormedStep, Typing
  <1>2. Revision' \in Nat
    BY <1>1 DEF WellFormed, Revision
  <1>3. UNCHANGED snapshots => Revision' = Revision
    BY DEF Revision
  <1> QED
    BY <1>1, <1>2, <1>3, StepShape DEF Passes, ReadManifest, Attaches, Leases, Closes

LEMMA ClientsStep ==
    ASSUME WellFormed, ClientsKnown, [Next]_vars
    PROVE  /\ ClientsKnown'
           /\ Revision' >= Revision
           /\ \A q \in Requests : waiter[q].work # 0 => client'[q] = client[q]
  <1>1. Revision \in Nat /\ \A q \in Requests : client[q] \in Nat /\ client[q] <= Revision
    BY Typing DEF ClientsKnown
  <1>2. Revision' \in Nat /\ Revision' >= Revision
    BY RevisionGrows
  <1>3. ASSUME NEW q \in Requests
        PROVE  \/ UNCHANGED client[q]
               \/ client[q] = 0 /\ client'[q] = Revision /\ UNCHANGED waiter
    <2>1. CASE \E p \in Requests : ReadManifest(p)
      BY <2>1, Typing DEF ReadManifest
    <2>2. CASE UNCHANGED client
      BY <2>2
    <2> QED
      BY <2>1, <2>2, StepShape DEF Passes, Attaches, Leases, Closes
  <1>4. ASSUME NEW q \in Requests
        PROVE  client'[q] <= Revision'
    BY <1>1, <1>2, <1>3
  <1>5. ASSUME NEW q \in Requests, waiter[q].work # 0
        PROVE  client[q] # 0 /\ client'[q] = client[q]
    BY <1>3, <1>5 DEF ClientsKnown
  <1>6. ASSUME NEW q \in Requests, waiter'[q].work # 0
        PROVE  client'[q] # 0
    <2>1. CASE waiter'[q] = waiter[q]
      BY <1>5, <1>6, <2>1
    <2>2. CASE waiter'[q] # waiter[q]
      <3>1. client[q] # 0 /\ UNCHANGED client
        BY <2>2, WaitersStay DEF Attaches, Queues
      <3> QED
        BY <3>1
    <2> QED
      BY <2>1, <2>2
  <1> QED
    BY <1>2, <1>4, <1>5, <1>6 DEF ClientsKnown

LEMMA SavedStep ==
    ASSUME WellFormed, ClientsKnown, SavedNewer, [Next]_vars
    PROVE  SavedNewer'
  <1> SUFFICES ASSUME NEW s \in Runners, NEW q \in Requests,
                      runner'[s].pc = "saved", Owns(s)',
                      waiter'[q].work = runner'[s].work, ~ waiter'[q].late
               PROVE  client'[q] < runner'[s].saved
    BY DEF SavedNewer
  <1>1. runner'[s].work # 0
    BY RunnersTyped
  <1>2. ~ \E i \in 1 .. Len(work) : Leases(s, i)
    BY DEF Leases
  <1>3. /\ runner[s].work \in 1 .. Len(work)
        /\ Owns(s)
        /\ RunKeeps(s) \/ RunSaves(s)
    BY <1>1, <1>2, OwnedLater
  <1>4. runner'[s].work = runner[s].work /\ work[runner[s].work].status = "RUNNING"
    BY <1>3 DEF RunKeeps, RunSaves, Owns
  <1>5. waiter'[q] = waiter[q]
    <2>1. ~ \E i \in 1 .. Len(work) : Attaches(q, i)
      BY <1>4, AttachesSpec
    <2>2. ~ Queues(q)
      BY <1>3, <1>4, QueuesSpec, Typing
    <2> QED
      BY <2>1, <2>2, WaitersStay
  <1>6. client'[q] = client[q] /\ client[q] <= Revision
    BY <1>1, <1>5, ClientsStep DEF ClientsKnown
  <1>7. CASE RunKeeps(s)
    <2>1. runner[s].pc = "saved" /\ runner'[s].saved = runner[s].saved
      BY <1>7 DEF RunKeeps
    <2>2. waiter[q].work = runner[s].work /\ ~ waiter[q].late
      BY <1>4, <1>5
    <2> QED
      BY <1>3, <1>6, <2>1, <2>2 DEF SavedNewer
  <1>8. CASE RunSaves(s)
    <2>1. runner'[s].saved > Revision
      BY <1>8 DEF RunSaves
    <2>2. runner'[s].saved \in Nat /\ Revision \in Nat /\ client[q] \in Nat
      <3>1. \A state \in RunnerState : state.saved \in Nat
        BY DEF RunnerState
      <3> QED
        BY <3>1, RunnersTyped, Typing
    <2> QED
      BY <1>6, <2>1, <2>2
  <1> QED
    BY <1>3, <1>7, <1>8

LEMMA ServedStep ==
    ASSUME WellFormed, ClientsKnown, SavedNewer, QueuedServedByNewer, [Next]_vars
    PROVE  QueuedServedByNewer'
  <1> SUFFICES ASSUME NEW q \in Requests, NEW i, i = waiter'[q].work,
                      i # 0, ~ waiter'[q].late, work'[i].status = "COMPLETED"
               PROVE  work'[i].result > client'[q]
    BY DEF QueuedServedByNewer
  <1>1. waiter'[q] = waiter[q]
    <2>1. ~ \E k \in 1 .. Len(work) : Attaches(q, k)
      BY AttachesSpec
    <2>2. ~ Queues(q)
      BY QueuesSpec
    <2> QED
      BY <2>1, <2>2, WaitersStay
  <1>2. client'[q] = client[q] /\ client[q] \in Nat
    BY <1>1, ClientsStep, Typing
  <1>3. i \in 1 .. Len(work)
    <2>1. Len(work) \in Nat /\ waiter[q].work \in 0 .. Len(work)
      BY Typing
    <2> QED
      BY <1>1, <2>1
  <1>4. CASE UNCHANGED <<work[i].status, work[i].result>>
    BY <1>1, <1>2, <1>4 DEF QueuedServedByNewer
  <1>5. CASE \E r \in Runners : Closes(r) /\ i = runner[r].work
    <2>1. PICK r \in Runners : Closes(r) /\ i = runner[r].work
      BY <1>5
    <2>2. work'[i].result = runner[r].saved /\ runner[r].pc = "saved" /\ Owns(r)
      BY <2>1 DEF Closes, RowCompletes
    <2>3. client[q] < runner[r].saved
      BY <1>1, <2>1, <2>2 DEF SavedNewer
    <2>4. runner[r].saved \in Nat
      BY Typing
    <2> QED
      BY <1>2, <2>2, <2>3, <2>4
  <1> QED
    BY <1>3, <1>4, <1>5, RowsGrow

\* A request that was queued or merged before its row ran is answered with a
\* snapshot that is newer than the manifest its consumer had read, whatever lease
\* was lost and whatever run had published for the row before.
THEOREM QueuedServedByNewerThm == Spec => []QueuedServedByNewer
  <1> DEFINE Inv == ClientsKnown /\ SavedNewer /\ QueuedServedByNewer
  <1>1. Init => Inv
    <2> SUFFICES ASSUME Init
                 PROVE  Inv
      OBVIOUS
    <2>1. \A q \in Requests : client[q] = 0 /\ waiter[q].work = 0
      BY DEF Init
    <2>2. \A r \in Runners : runner[r].pc = "idle"
      BY DEF Init, Idle
    <2>3. Revision \in Nat
      BY WellFormedInit, Typing
    <2> QED
      BY <2>1, <2>2, <2>3 DEF ClientsKnown, SavedNewer, QueuedServedByNewer
  <1>2. WellFormed /\ Inv /\ [Next]_vars => Inv'
    BY ClientsStep, SavedStep, ServedStep
  <1> QED
    BY <1>1, <1>2, WellFormedThm, PTL DEF Spec

-----------------------------------------------------------------------------
(* Rows and answers *)

Awaited == \A i \in 1 .. Len(work) : \E q \in Requests : waiter[q].work = i

\* A row has a result exactly when it is completed.
Answered == \A i \in 1 .. Len(work) : work[i].status = "COMPLETED" <=> work[i].result # 0

LEMMA AwaitedStep ==
    ASSUME WellFormed, Awaited, [Next]_vars
    PROVE  Awaited'
  <1> SUFFICES ASSUME NEW i \in 1 .. Len(work')
               PROVE  \E q \in Requests : waiter'[q].work = i
    BY DEF Awaited
  <1>1. Len(work) \in Nat
    BY Typing
  <1>2. ASSUME i \in 1 .. Len(work)
        PROVE  \E q \in Requests : waiter'[q].work = i
    <2>1. PICK q \in Requests : waiter[q].work = i
      BY <1>2 DEF Awaited
    <2>2. waiter[q].work # 0
      BY <1>2, <2>1
    <2>3. waiter'[q] = waiter[q]
      BY <2>2, WaitersStay DEF Attaches, Queues
    <2> QED
      BY <2>1, <2>3
  <1>3. ASSUME i \notin 1 .. Len(work)
        PROVE  \E q \in Requests : Queues(q) /\ i = Len(work) + 1
    <2>1. Len(work') # Len(work)
      BY <1>3
    <2>2. \E q \in Requests : Queues(q)
      BY <2>1, RowsPass, StepShape
         DEF Passes, ReadManifest, Attaches, Queues, Leases, Closes, SameRows
    <2>3. PICK q \in Requests : Queues(q)
      BY <2>2
    <2>4. Len(work') = Len(work) + 1
      BY <2>3, QueuesSpec
    <2>5. i = Len(work) + 1
      BY <1>1, <1>3, <2>4
    <2> QED
      BY <2>3, <2>5
  <1> QED
    BY <1>2, <1>3, QueuesSpec

LEMMA RowCount ==
    ASSUME NEW n \in Nat
    PROVE  IsFiniteSet(1 .. n) /\ Cardinality(1 .. n) = n
  <1>1. 1 \in Int /\ n \in Int
    OBVIOUS
  <1>2. /\ IsFiniteSet(1 .. n)
        /\ Cardinality(1 .. n) = IF 1 > n THEN 0 ELSE n - 1 + 1
    BY <1>1, FS_Interval, Zenon
  <1> QED
    BY <1>2

\* Of different rows different requests are waiters.
LEMMA OneRowPerRequest ==
    ASSUME WellFormed, Awaited
    PROVE  Len(work) <= Cardinality(Requests)
  <1> DEFINE one(i) == CHOOSE q \in Requests : waiter[q].work = i
             f == [i \in 1 .. Len(work) |-> one(i)]
  <1>1. Len(work) \in Nat
    BY Typing
  <1>2. \A i \in 1 .. Len(work) : one(i) \in Requests /\ waiter[one(i)].work = i
    BY DEF Awaited
  <1> HIDE DEF one
  <1>3. f \in Injection(1 .. Len(work), Requests)
    <2>1. f \in [1 .. Len(work) -> Requests]
      BY <1>2
    <2>2. \A i, k \in 1 .. Len(work) : f[i] = f[k] => i = k
      BY <1>2
    <2> QED
      BY <2>1, <2>2 DEF Injection, IsInjective
  <1> HIDE DEF f
  <1>4. Cardinality(1 .. Len(work)) <= Cardinality(Requests)
    BY <1>3, FS_Injection
  <1> QED
    BY <1>1, <1>4, RowCount

LEMMA AnsweredStep ==
    ASSUME WellFormed, Answered, [Next]_vars
    PROVE  Answered'
  <1> SUFFICES ASSUME NEW i \in 1 .. Len(work')
               PROVE  work'[i].status = "COMPLETED" <=> work'[i].result # 0
    BY DEF Answered
  <1>1. Len(work) \in Nat
    BY Typing
  <1>2. CASE i \in 1 .. Len(work)
    <2>1. CASE UNCHANGED <<work[i].status, work[i].result>>
      BY <1>2, <2>1 DEF Answered
    <2>2. CASE /\ work'[i].status # "COMPLETED" /\ work[i].status # "COMPLETED"
               /\ work'[i].result = work[i].result
      BY <1>2, <2>2 DEF Answered
    <2>3. ASSUME NEW r \in Runners, Closes(r), i = runner[r].work
          PROVE  work'[i].status = "COMPLETED" /\ work'[i].result # 0
      <3>1. work'[i].status = "COMPLETED" /\ work'[i].result >= work[i].generation
        BY <2>3 DEF Closes, RowCompletes
      <3>2. work[i].generation \in Nat \ {0}
        BY <1>2, Typing
      <3>3. work'[i].result = runner[r].saved /\ runner[r].saved \in Nat
        BY <2>3, Typing DEF Closes, RowCompletes
      <3> QED
        BY <3>1, <3>2, <3>3
    <2> QED
      BY <1>2, <2>1, <2>2, <2>3, RowsGrow
  <1>3. CASE i \notin 1 .. Len(work)
    <2>1. Len(work') # Len(work)
      BY <1>3
    <2>2. PICK q \in Requests : Queues(q)
      BY <2>1, RowsPass, StepShape
         DEF Passes, ReadManifest, Attaches, Queues, Leases, Closes, SameRows
    <2>3. i = Len(work) + 1
      BY <1>1, <1>3, <2>2, QueuesSpec
    <2> QED
      BY <2>2, <2>3, QueuesSpec
  <1> QED
    BY <1>2, <1>3

LEMMA RowsInvariant == Spec => [](WellFormed /\ Awaited /\ Answered)
  <1>1. Init => Awaited /\ Answered
    BY DEF Init, Awaited, Answered
  <1>2. WellFormed /\ Awaited /\ Answered /\ [Next]_vars => Awaited' /\ Answered'
    BY AwaitedStep, AnsweredStep
  <1> QED
    BY <1>1, <1>2, WellFormedThm, PTL DEF Spec

-----------------------------------------------------------------------------
(* Rows, leases and generations implement the promise to consumers *)

LEMMA OwedInit == Init => Owed!Init
  <1> SUFFICES ASSUME Init
               PROVE  OwedRequests = {} /\ Answers = [q \in Requests |-> 0]
    BY DEF Owed!Init
  <1>1. \A q \in Requests : waiter[q].work = 0
    BY DEF Init
  <1> QED
    BY <1>1 DEF OwedRequests, Answers

\* A step that serves nobody leaves the answers of all requests that wait.
LEMMA AnswersStay ==
    ASSUME WellFormed, [Next]_vars, NEW q \in Requests, waiter[q].work # 0,
           ~ \E r \in Runners : Closes(r) /\ waiter[q].work = runner[r].work
    PROVE  /\ waiter'[q] = waiter[q]
           /\ work'[waiter[q].work].result = work[waiter[q].work].result
           /\ work'[waiter[q].work].status = "COMPLETED" <=>
                work[waiter[q].work].status = "COMPLETED"
  <1>1. waiter'[q] = waiter[q]
    BY WaitersStay DEF Attaches, Queues
  <1>2. waiter[q].work \in 1 .. Len(work)
    <2>1. Len(work) \in Nat /\ waiter[q].work \in 0 .. Len(work)
      BY Typing
    <2> QED
      BY <2>1
  <1> QED
    BY <1>1, <1>2, RowsGrow

LEMMA OwedStep ==
    ASSUME WellFormed, Awaited, Answered, [Next]_vars
    PROVE  [Owed!Next]_(<<OwedRequests, Answers>>)
  <1>1. /\ Len(work) \in Nat
        /\ \A q \in Requests : waiter[q].work \in Nat
        /\ \A q \in Requests : waiter[q].work # 0 => waiter[q].work \in 1 .. Len(work)
    <2>1. Len(work) \in Nat /\ \A q \in Requests : waiter[q].work \in 0 .. Len(work)
      BY Typing
    <2> QED
      BY <2>1
  <1>2. /\ \A q \in Requests : Answers[q] = IF waiter[q].work = 0 THEN 0
                                            ELSE work[waiter[q].work].result
        /\ \A q \in Requests : Answers'[q] = IF waiter'[q].work = 0 THEN 0
                                             ELSE work'[waiter'[q].work].result
        /\ Answers = [q \in Requests |-> Answers[q]]
        /\ Answers' = [q \in Requests |-> Answers'[q]]
    BY DEF Answers
  <1>3. /\ \A q \in Requests : q \in OwedRequests <=>
              waiter[q].work # 0 /\ work[waiter[q].work].status # "COMPLETED"
        /\ \A q \in Requests : q \in OwedRequests' <=>
              waiter'[q].work # 0 /\ work'[waiter'[q].work].status # "COMPLETED"
        /\ OwedRequests \subseteq Requests /\ OwedRequests' \subseteq Requests
    BY DEF OwedRequests
  <1>4. CASE \E r \in Runners : Closes(r)
    <2>1. PICK r \in Runners : Closes(r)
      BY <1>4
    <2> DEFINE i == runner[r].work
               batch == {q \in Requests : waiter[q].work = i}
    <2>2. /\ i \in 1 .. Len(work) /\ runner[r].saved \in Nat \ {0}
          /\ work[i].status = "RUNNING"
          /\ work'[i].status = "COMPLETED" /\ work'[i].result = runner[r].saved
          /\ UNCHANGED waiter
      <3>1. /\ i \in 0 .. Len(work) /\ i # 0 /\ runner[r].saved \in Nat
            /\ UNCHANGED waiter
        BY <2>1, Typing DEF Closes
      <3>2. i \in 1 .. Len(work)
        BY <1>1, <3>1
      <3>3. runner[r].saved >= work[i].generation /\ work[i].generation \in Nat \ {0}
        BY <2>1, <3>2, Typing DEF Closes, RowCompletes
      <3> QED
        BY <2>1, <3>1, <3>2, <3>3 DEF Closes, RowCompletes
    <2>3. \A k \in 1 .. Len(work) \ {i} :
            /\ work'[k].result = work[k].result
            /\ work'[k].status = "COMPLETED" <=> work[k].status = "COMPLETED"
      BY <2>1 DEF Closes, RowKeeps
    <2>4. batch # {} /\ batch \subseteq OwedRequests
      BY <1>3, <2>2 DEF Awaited
    <2>5. OwedRequests' = OwedRequests \ batch
      BY <1>1, <1>3, <2>2, <2>3
    <2>6. /\ \A q \in batch : Answers'[q] = runner[r].saved
          /\ \A q \in Requests \ batch : Answers'[q] = Answers[q]
      BY <1>1, <1>2, <2>2, <2>3
    <2>7. \A q \in Requests : Answers[q] \in Nat
      BY <1>1, <1>2, Typing
    <2> HIDE DEF batch, i
    <2>8. \A q \in Requests : Answers'[q] \in (Nat \ {0}) \union {0}
      BY <2>2, <2>6, <2>7
    <2>9. Answers' \in [Requests -> (Nat \ {0}) \union {0}]
      BY <1>2, <2>8
    <2>10. batch \in SUBSET OwedRequests /\ Owed!Serve(batch)
      BY <2>2, <2>4, <2>5, <2>6, <2>9 DEF Owed!Serve
    <2> QED
      BY <2>10 DEF Owed!Next
  <1>5. CASE ~ \E r \in Runners : Closes(r)
    <2>1. \A q \in Requests : waiter[q].work # 0 =>
            /\ waiter'[q] = waiter[q]
            /\ Answers'[q] = Answers[q]
            /\ q \in OwedRequests' <=> q \in OwedRequests
      BY <1>2, <1>3, <1>5, AnswersStay
    <2>2. ASSUME \A q \in Requests : waiter'[q] = waiter[q]
          PROVE  UNCHANGED <<OwedRequests, Answers>>
      <3>1. \A q \in Requests : /\ Answers'[q] = Answers[q]
                                /\ q \in OwedRequests' <=> q \in OwedRequests
        BY <1>2, <1>3, <2>1, <2>2
      <3>2. OwedRequests' = OwedRequests
        BY <1>3, <3>1
      <3>3. Answers' = Answers
        BY <1>2, <3>1
      <3> QED
        BY <3>2, <3>3
    <2>3. ASSUME NEW q \in Requests, waiter'[q] # waiter[q]
          PROVE  Owed!Accept(q)
      <3>1. waiter[q].work = 0 /\ \A p \in Requests \ {q} : waiter'[p] = waiter[p]
        BY <2>3, WaitersStay, Typing DEF Attaches, Queues, Queue, Attach
      <3>2. /\ waiter'[q].work # 0 /\ work'[waiter'[q].work].status # "COMPLETED"
            /\ work'[waiter'[q].work].result = 0
        <4>1. ASSUME NEW i \in 1 .. Len(work), Attaches(q, i)
              PROVE  /\ waiter'[q].work = i /\ work'[i].status # "COMPLETED"
                     /\ work'[i].result = 0
          BY <4>1, AttachesSpec DEF Answered
        <4>2. CASE Queues(q)
          BY <1>1, <4>2, QueuesSpec
        <4> QED
          BY <2>3, <4>1, <4>2, WaitersStay
      <3>3. \A p \in Requests \ {q} : /\ Answers'[p] = Answers[p]
                                      /\ p \in OwedRequests' <=> p \in OwedRequests
        BY <1>2, <1>3, <2>1, <3>1
      <3>4. Answers[q] = 0 /\ Answers'[q] = 0 /\ q \notin OwedRequests /\ q \in OwedRequests'
        BY <1>2, <1>3, <3>1, <3>2
      <3>5. OwedRequests' = OwedRequests \union {q}
        BY <1>3, <3>3, <3>4
      <3>6. Answers' = Answers
        BY <1>2, <3>3, <3>4
      <3> QED
        BY <3>4, <3>5, <3>6 DEF Owed!Accept
    <2> QED
      BY <2>2, <2>3 DEF Owed!Next
  <1> QED
    BY <1>4, <1>5

\* The rows, leases and generations of the sync service implement the promise of
\* OwedRefresh: an accepted request stays owed until its row completes, all that
\* share the row are answered at once by one revision, and an answer stays.
THEOREM ImplementsOwedThm == Spec => ImplementsOwed
  <1>1. Init => Owed!Init
    BY OwedInit
  <1>2. WellFormed /\ Awaited /\ Answered /\ [Next]_vars
          => [Owed!Next]_(<<OwedRequests, Answers>>)
    BY OwedStep
  <1> QED
    BY <1>1, <1>2, RowsInvariant, PTL DEF Spec, ImplementsOwed, Owed!Spec

-----------------------------------------------------------------------------
(* Duplicate requests never multiply work: what pays for a snapshot *)

\* A snapshot that counts for its row: the run still has the lease.
Sound(r) == ~ runner[r].lost /\ Owns(r) /\ work[runner[r].work].lease = "live"

\* A disturbance pays for the snapshot of a run that will not complete its row ...
Doomed(r) == runner[r].pc \in {"refreshing", "saving"} /\ ~ Sound(r)
DoomedRuns == {r \in Runners : Doomed(r)}

\* ... a row pays for the snapshot that completes it ...
Accepted(r) ==
    /\ runner[r].pc = "saved" /\ Sound(r)
    /\ runner[r].saved >= work[runner[r].work].generation
Charged ==
    {i \in 1 .. Len(work) : \/ work[i].status = "COMPLETED"
                            \/ \E r \in Runners : runner[r].work = i /\ Accepted(r)}

\* ... and the lead of the generations over the revisions for those refused.
Gap == IF Len(work) # 0 /\ work[Len(work)].generation > Revision
       THEN work[Len(work)].generation - Revision
       ELSE 0

Spent == Revision + Gap
Dooms == Cardinality(DoomedRuns)
Earned == 1 + Len(work) + Cardinality(Charged) + disturbed

Account == IsFiniteSet(DoomedRuns) /\ Spent + Dooms <= Earned

LEMMA OneMore ==
    ASSUME NEW S, NEW T, NEW x, IsFiniteSet(T)
    PROVE  /\ Cardinality(T) \in Nat
           /\ S \subseteq T => /\ IsFiniteSet(S) /\ Cardinality(S) \in Nat
                               /\ Cardinality(S) <= Cardinality(T)
           /\ S \ {x} \subseteq T => /\ IsFiniteSet(S) /\ Cardinality(S) \in Nat
                                     /\ Cardinality(S) <= Cardinality(T) + 1
           /\ S \subseteq T /\ x \in T /\ x \notin S =>
                Cardinality(S) + 1 <= Cardinality(T)
  <1>1. \A U : IsFiniteSet(U) => Cardinality(U) \in Nat
    BY FS_CardinalityType
  <1>2. \A U, V : IsFiniteSet(U) /\ V \subseteq U =>
          IsFiniteSet(V) /\ Cardinality(V) <= Cardinality(U)
    BY FS_Subset, Zenon
  <1>3. /\ IsFiniteSet(T \union {x})
        /\ x \notin T => Cardinality(T \union {x}) = Cardinality(T) + 1
        /\ x \in T => Cardinality(T \union {x}) = Cardinality(T)
    BY FS_AddElement
  <1>4. /\ IsFiniteSet(T \ {x})
        /\ x \in T => Cardinality(T \ {x}) = Cardinality(T) - 1
    BY FS_RemoveElement
  <1>5. ASSUME S \ {x} \subseteq T
        PROVE  IsFiniteSet(S) /\ Cardinality(S) \in Nat /\ Cardinality(S) <= Cardinality(T) + 1
    <2>1. S \subseteq T \union {x}
      BY <1>5
    <2>2. IsFiniteSet(S) /\ Cardinality(S) <= Cardinality(T \union {x})
      BY <1>2, <1>3, <2>1
    <2>3. Cardinality(S) \in Nat /\ Cardinality(T) \in Nat
      BY <1>1, <2>2
    <2> QED
      BY <1>3, <2>2, <2>3
  <1>6. ASSUME S \subseteq T, x \in T, x \notin S
        PROVE  Cardinality(S) + 1 <= Cardinality(T)
    <2>1. S \subseteq T \ {x}
      BY <1>6
    <2>2. IsFiniteSet(S) /\ Cardinality(S) <= Cardinality(T \ {x})
      BY <1>2, <1>4, <2>1
    <2>3. Cardinality(S) \in Nat /\ Cardinality(T) \in Nat
      BY <1>1, <2>2
    <2> QED
      BY <1>4, <1>6, <2>2, <2>3
  <1> QED
    BY <1>1, <1>2, <1>5, <1>6

\* The rows that are charged are a finite set, no larger than the rows.
LEMMA ChargedRows ==
    ASSUME WellFormed
    PROVE  IsFiniteSet(Charged) /\ Cardinality(Charged) <= Len(work)
  <1>1. Len(work) \in Nat
    BY Typing
  <1>2. IsFiniteSet(1 .. Len(work)) /\ Cardinality(1 .. Len(work)) = Len(work)
    BY <1>1, RowCount
  <1>3. Charged \subseteq 1 .. Len(work)
    BY DEF Charged
  <1> QED
    BY <1>2, <1>3, OneMore

\* The lead of the generations.
LEMMA GapSpec ==
    ASSUME WellFormed
    PROVE  /\ Gap \in Nat
           /\ \A i \in 1 .. Len(work) : work[i].generation <= Revision + Gap
  <1>1. Len(work) \in Nat /\ Revision \in Nat
    BY Typing
  <1>2. Len(work) # 0 => work[Len(work)].generation \in Nat
    BY <1>1, Typing
  <1>3. Gap \in Nat /\ (Len(work) # 0 => work[Len(work)].generation <= Revision + Gap)
    BY <1>1, <1>2 DEF Gap
  <1>4. ASSUME NEW i \in 1 .. Len(work)
        PROVE  work[i].generation <= work[Len(work)].generation
    <2>1. i = Len(work) \/ i < Len(work)
      BY <1>1
    <2>2. i < Len(work) => work[i].generation < work[Len(work)].generation
      <3>1. \A j, k \in 1 .. Len(work) : j < k => work[j].generation < work[k].generation
        BY Typing DEF WellFormed
      <3>2. Len(work) \in 1 .. Len(work)
        BY <1>1
      <3> QED
        BY <3>1, <3>2
    <2>3. work[i].generation \in Nat /\ Len(work) # 0
      BY <1>1, Typing
    <2> QED
      BY <1>2, <2>1, <2>2, <2>3
  <1> QED
    BY <1>1, <1>2, <1>3, <1>4, Typing

LEMMA GapStays ==
    ASSUME WellFormed, WellFormed', Len(work') = Len(work), Revision' >= Revision,
           \A i \in 1 .. Len(work) : work'[i].generation = work[i].generation
    PROVE  /\ Gap \in Nat /\ Gap' \in Nat /\ Gap' <= Gap
           /\ Revision' = Revision + 1 /\ Gap # 0 => Gap' + 1 = Gap
  <1>1. /\ Len(work) \in Nat /\ Revision \in Nat /\ Revision' \in Nat
    BY Typing, WellFormed' DEF WellFormed, Revision
  <1>2. Len(work) # 0 => /\ work[Len(work)].generation \in Nat
                         /\ work'[Len(work)].generation = work[Len(work)].generation
    BY <1>1, Typing
  <1> QED
    BY <1>1, <1>2 DEF Gap

\* A step spares a run when it does not doom it and leaves what it has earned.
Spares(s) == (Doomed(s)' => Doomed(s)) /\ (Accepted(s) => runner[s].work \in Charged')

\* A run spares whom it does not concern.
LEMMA SparesOthers ==
    ASSUME WellFormed, Len(work') >= Len(work), Len(work') \in Nat,
           NEW s \in Runners, runner'[s] = runner[s],
           runner[s].work # 0 /\ Sound(s) =>
             /\ work'[runner[s].work].status = "RUNNING"
             /\ work'[runner[s].work].owner = s
             /\ work'[runner[s].work].lease = "live"
             /\ work'[runner[s].work].generation = work[runner[s].work].generation
    PROVE  Spares(s)
  <1>1. /\ runner[s].work \in 0 .. Len(work) /\ Len(work) \in Nat
        /\ runner[s].pc # "idle" => runner[s].work # 0
    BY Typing
  <1>2. ASSUME Doomed(s)', ~ Doomed(s)
        PROVE  FALSE
    <2>1. Sound(s) /\ runner[s].work # 0
      BY <1>1, <1>2 DEF Doomed
    <2>2. Sound(s)'
      BY <2>1 DEF Sound, Owns
    <2> QED
      BY <1>2, <2>2 DEF Doomed
  <1>3. ASSUME Accepted(s)
        PROVE  runner[s].work \in Charged'
    <2>1. Sound(s) /\ runner[s].work # 0
      BY <1>1, <1>3 DEF Accepted
    <2>2. Sound(s)'
      BY <2>1 DEF Sound, Owns
    <2>3. Accepted(s)'
      BY <1>3, <2>1, <2>2 DEF Accepted
    <2>4. runner[s].work \in 1 .. Len(work')
      BY <1>1, <2>1
    <2> QED
      BY <2>3, <2>4 DEF Charged
  <1> QED
    BY <1>2, <1>3 DEF Spares

\* What a step does to the runs that it spares and the rows that stay completed.
LEMMA Balance ==
    ASSUME WellFormed, WellFormed', [Next]_vars, NEW r
    PROVE  /\ (\A s \in Runners : Spares(s)) =>
                DoomedRuns' \subseteq DoomedRuns /\ Charged \subseteq Charged'
           /\ (\A s \in Runners \ {r} : Spares(s)) =>
                /\ DoomedRuns' \ {r} \subseteq DoomedRuns
                /\ Charged \ {runner[r].work} \subseteq Charged'
                /\ ~ Doomed(r)' => DoomedRuns' \subseteq DoomedRuns
                /\ ~ Accepted(r) => Charged \subseteq Charged'
  <1>1. ASSUME NEW i \in 1 .. Len(work), work[i].status = "COMPLETED"
        PROVE  i \in Charged'
    <2>1. work'[i].status = "COMPLETED" /\ i \in 1 .. Len(work')
      BY <1>1, RowsGrow DEF Closes, RowCompletes
    <2> QED
      BY <2>1 DEF Charged
  <1>2. ASSUME NEW i \in Charged,
               \A s \in Runners : Accepted(s) /\ runner[s].work = i => i \in Charged'
        PROVE  i \in Charged'
    BY <1>1, <1>2 DEF Charged
  <1>3. ASSUME \A s \in Runners : Spares(s)
        PROVE  DoomedRuns' \subseteq DoomedRuns /\ Charged \subseteq Charged'
    <2>1. DoomedRuns' \subseteq DoomedRuns
      BY <1>3 DEF DoomedRuns, Spares
    <2> QED
      BY <1>2, <1>3, <2>1 DEF Spares
  <1>4. ASSUME \A s \in Runners \ {r} : Spares(s)
        PROVE  /\ DoomedRuns' \ {r} \subseteq DoomedRuns
               /\ Charged \ {runner[r].work} \subseteq Charged'
               /\ ~ Doomed(r)' => DoomedRuns' \subseteq DoomedRuns
               /\ ~ Accepted(r) => Charged \subseteq Charged'
    <2>1. DoomedRuns' \ {r} \subseteq DoomedRuns
      BY <1>4 DEF DoomedRuns, Spares
    <2>2. ~ Doomed(r)' => DoomedRuns' \subseteq DoomedRuns
      BY <1>4 DEF DoomedRuns, Spares
    <2>3. Charged \ {runner[r].work} \subseteq Charged'
      BY <1>2, <1>4 DEF Spares
    <2>4. ~ Accepted(r) => Charged \subseteq Charged'
      BY <1>2, <1>4 DEF Spares
    <2> QED
      BY <2>1, <2>2, <2>3, <2>4
  <1> QED
    BY <1>3, <1>4

\* The sums are numbers.
AmountsOK ==
    /\ Spent \in Nat /\ Earned \in Nat
    /\ IsFiniteSet(Charged) /\ Cardinality(Charged) \in Nat
    /\ IsFiniteSet(DoomedRuns) => Dooms \in Nat
    /\ Len(work) \in Nat /\ disturbed \in Nat /\ Revision \in Nat /\ Gap \in Nat

LEMMA Amounts == WellFormed => AmountsOK
  <1> SUFFICES ASSUME WellFormed
               PROVE  AmountsOK
    OBVIOUS
  <1>1. Len(work) \in Nat /\ disturbed \in Nat /\ Revision \in Nat /\ Gap \in Nat
    BY Typing, GapSpec DEF WellFormed
  <1>2. IsFiniteSet(Charged) /\ Cardinality(Charged) \in Nat
    BY ChargedRows, OneMore
  <1>3. IsFiniteSet(DoomedRuns) => Dooms \in Nat
    BY OneMore DEF Dooms
  <1> QED
    BY <1>1, <1>2, <1>3 DEF Spent, Earned, AmountsOK

LEMMA AmountsNext == WellFormed' => AmountsOK'
  BY Amounts, PTL

\* What a sum of its parts does.
LEMMA Sums ==
    /\ \A r, g, rr, gg \in Nat :
         /\ rr = r /\ gg <= g => rr + gg <= r + g
         /\ rr = r + 1 /\ gg <= g => rr + gg <= r + g + 1
         /\ rr = r + 1 /\ gg + 1 = g => rr + gg <= r + g
         /\ rr = r /\ gg <= g + 1 => rr + gg <= r + g + 1
    /\ \A n, c, cc, b, bb \in Nat :
         /\ b <= bb /\ c <= cc => n + c + b <= n + cc + bb
         /\ bb = b + 1 /\ c <= cc + 1 => n + c + b <= n + cc + bb
         /\ bb = b + 1 /\ c <= cc => n + c + b + 1 <= n + cc + bb
         /\ bb = b /\ c + 1 <= cc => n + c + b + 1 <= n + cc + bb
    /\ \A n, c, cc, b \in Nat : c <= cc => (1 + n + c + b) + 1 <= 1 + (n + 1) + cc + b
  <1>1. \A r, g, rr, gg \in Nat :
          /\ rr = r /\ gg <= g => rr + gg <= r + g
          /\ rr = r + 1 /\ gg <= g => rr + gg <= r + g + 1
          /\ rr = r + 1 /\ gg + 1 = g => rr + gg <= r + g
          /\ rr = r /\ gg <= g + 1 => rr + gg <= r + g + 1
    OBVIOUS
  <1>2. \A n, c, cc, b, bb \in Nat :
          /\ b <= bb /\ c <= cc => n + c + b <= n + cc + bb
          /\ bb = b + 1 /\ c <= cc + 1 => n + c + b <= n + cc + bb
          /\ bb = b + 1 /\ c <= cc => n + c + b + 1 <= n + cc + bb
          /\ bb = b /\ c + 1 <= cc => n + c + b + 1 <= n + cc + bb
    OBVIOUS
  <1>3. \A n, c, cc, b \in Nat : c <= cc => (1 + n + c + b) + 1 <= 1 + (n + 1) + cc + b
    OBVIOUS
  <1> QED
    BY <1>1, <1>2, <1>3

\* The account stays balanced when what is spent on top is earned on top.
LEMMA Settled ==
    ASSUME WellFormed, WellFormed', Account, IsFiniteSet(DoomedRuns'),
           \/ Spent' <= Spent /\ Dooms' <= Dooms /\ Earned <= Earned'
           \/ Spent' <= Spent /\ Dooms' <= Dooms + 1 /\ Earned + 1 <= Earned'
           \/ Spent' <= Spent + 1 /\ Dooms' <= Dooms /\ Earned + 1 <= Earned'
           \/ Spent' <= Spent + 1 /\ Dooms' + 1 <= Dooms /\ Earned <= Earned'
    PROVE  Account'
  <1>1. \A s, ss, d, dd, e, ee \in Nat :
          /\ s + d <= e
          /\ \/ ss <= s /\ dd <= d /\ e <= ee
             \/ ss <= s /\ dd <= d + 1 /\ e + 1 <= ee
             \/ ss <= s + 1 /\ dd <= d /\ e + 1 <= ee
             \/ ss <= s + 1 /\ dd + 1 <= d /\ e <= ee
          => ss + dd <= ee
    OBVIOUS
  <1>2. /\ Spent \in Nat /\ Spent' \in Nat /\ Dooms \in Nat /\ Dooms' \in Nat
        /\ Earned \in Nat /\ Earned' \in Nat
    BY Amounts, AmountsNext DEF AmountsOK, Account
  <1>3. Spent + Dooms <= Earned
    BY DEF Account
  <1>4. Spent' + Dooms' <= Earned'
    BY <1>1, <1>2, <1>3
  <1> QED
    BY <1>4 DEF Account

\* What is earned when no row is added.
LEMMA EarnedSpec ==
    ASSUME WellFormed, WellFormed', Len(work') = Len(work)
    PROVE  /\ disturbed' >= disturbed /\ Cardinality(Charged) <= Cardinality(Charged')
                => Earned <= Earned'
           /\ disturbed' = disturbed + 1 /\ Cardinality(Charged) <= Cardinality(Charged') + 1
                => Earned <= Earned'
           /\ disturbed' = disturbed + 1 /\ Cardinality(Charged) <= Cardinality(Charged')
                => Earned + 1 <= Earned'
           /\ disturbed' = disturbed /\ Cardinality(Charged) + 1 <= Cardinality(Charged')
                => Earned + 1 <= Earned'
  <1> DEFINE n == 1 + Len(work)
             c == Cardinality(Charged)
             cc == Cardinality(Charged')
  <1>1. /\ n \in Nat /\ c \in Nat /\ cc \in Nat /\ disturbed \in Nat /\ disturbed' \in Nat
    BY Amounts, AmountsNext DEF AmountsOK
  <1>2. Earned = n + c + disturbed /\ Earned' = n + cc + disturbed'
    BY DEF Earned
  <1>3. disturbed' >= disturbed => disturbed <= disturbed'
    BY <1>1
  <1> HIDE DEF n, c, cc
  <1>4. /\ disturbed' >= disturbed /\ c <= cc => Earned <= Earned'
        /\ disturbed' = disturbed + 1 /\ c <= cc + 1 => Earned <= Earned'
        /\ disturbed' = disturbed + 1 /\ c <= cc => Earned + 1 <= Earned'
        /\ disturbed' = disturbed /\ c + 1 <= cc => Earned + 1 <= Earned'
    BY <1>1, <1>2, <1>3, Sums
  <1> QED
    BY <1>4 DEF c, cc

\* A step that publishes nothing and adds no row keeps the account when it spares
\* all runs, or all but one and counts as a disturbance.
LEMMA AccountKept ==
    ASSUME WellFormed, WellFormed', [Next]_vars, Account,
           Revision' = Revision, Len(work') = Len(work),
           \/ disturbed' >= disturbed /\ \A s \in Runners : Spares(s)
           \/ /\ disturbed' = disturbed + 1
              /\ \E r \in Runners : /\ \A s \in Runners \ {r} : Spares(s)
                                    /\ ~ Doomed(r)' \/ ~ Accepted(r)
    PROVE  Account'
  <1>1. IsFiniteSet(DoomedRuns) /\ IsFiniteSet(Charged')
    BY AmountsNext DEF AmountsOK, Account
  <1>2. Spent' <= Spent
    <2>1. /\ \A i \in 1 .. Len(work) : work'[i].generation = work[i].generation
          /\ Revision' >= Revision
      BY RowsGrow, Typing
    <2>2. Gap \in Nat /\ Gap' \in Nat /\ Gap' <= Gap /\ Revision \in Nat
      BY <2>1, GapStays, Typing
    <2> QED
      BY <2>2, Sums DEF Spent
  <1>3. ASSUME disturbed' >= disturbed, \A s \in Runners : Spares(s)
        PROVE  Account'
    <2>1. DoomedRuns' \subseteq DoomedRuns /\ Charged \subseteq Charged'
      BY <1>3, Balance
    <2>2. IsFiniteSet(DoomedRuns') /\ Dooms' <= Dooms
      BY <1>1, <2>1, OneMore DEF Dooms
    <2>3. Cardinality(Charged) <= Cardinality(Charged')
      BY <1>1, <2>1, OneMore
    <2> QED
      BY <1>2, <1>3, <2>2, <2>3, EarnedSpec, Settled
  <1>4. ASSUME NEW r \in Runners, disturbed' = disturbed + 1,
               \A s \in Runners \ {r} : Spares(s), ~ Doomed(r)'
        PROVE  Account'
    <2>1. DoomedRuns' \subseteq DoomedRuns /\ Charged \ {runner[r].work} \subseteq Charged'
      BY <1>4, Balance
    <2>2. IsFiniteSet(DoomedRuns') /\ Dooms' <= Dooms
      BY <1>1, <2>1, OneMore DEF Dooms
    <2>3. Cardinality(Charged) <= Cardinality(Charged') + 1
      BY <1>1, <2>1, OneMore
    <2> QED
      BY <1>2, <1>4, <2>2, <2>3, EarnedSpec, Settled
  <1>5. ASSUME NEW r \in Runners, disturbed' = disturbed + 1,
               \A s \in Runners \ {r} : Spares(s), ~ Accepted(r)
        PROVE  Account'
    <2>1. DoomedRuns' \ {r} \subseteq DoomedRuns /\ Charged \subseteq Charged'
      BY <1>5, Balance
    <2>2. IsFiniteSet(DoomedRuns') /\ Dooms' <= Dooms + 1
      BY <1>1, <2>1, OneMore DEF Dooms
    <2>3. Cardinality(Charged) <= Cardinality(Charged')
      BY <1>1, <2>1, OneMore
    <2> QED
      BY <1>2, <1>5, <2>2, <2>3, EarnedSpec, Settled
  <1> QED
    BY <1>3, <1>4, <1>5

\* The row of a run that is sound has that run as its only owner.
LEMMA SoundRow ==
    ASSUME WellFormed, NEW s \in Runners, runner[s].work # 0, Sound(s)
    PROVE  /\ runner[s].work \in 1 .. Len(work)
           /\ work[runner[s].work].status = "RUNNING"
           /\ work[runner[s].work].owner = s
           /\ work[runner[s].work].lease = "live"
           /\ ~ runner[s].lost
           /\ \A r \in Runners \ {s} : runner[r].work = runner[s].work => ~ Owns(r)
  <1>1. runner[s].work \in 1 .. Len(work)
    <2>1. Len(work) \in Nat /\ runner[s].work \in 0 .. Len(work)
      BY Typing
    <2> QED
      BY <2>1
  <1> QED
    BY <1>1 DEF Sound, Owns

\* A step that leaves the rows, or writes only a row of another owner, spares.
LEMMA SparesQuiet ==
    ASSUME WellFormed, SameRows, NEW s \in Runners, runner'[s] = runner[s],
           NEW i, \A k \in 1 .. Len(work) \ {i} : work'[k] = work[k],
           runner[s].work # i \/ ~ Sound(s)
    PROVE  Spares(s)
  <1>1. Len(work') >= Len(work) /\ Len(work') \in Nat
    BY Typing DEF SameRows
  <1>2. ASSUME runner[s].work # 0, Sound(s)
        PROVE  /\ work'[runner[s].work] = work[runner[s].work]
               /\ work[runner[s].work].status = "RUNNING"
               /\ work[runner[s].work].owner = s
               /\ work[runner[s].work].lease = "live"
    BY <1>2, SoundRow
  <1> QED
    BY <1>1, <1>2, SparesOthers

\* A run that only moves while it publishes is spared.
LEMMA SparesMoved ==
    ASSUME WellFormed, NEW r \in Runners, ~ Accepted(r),
           \/ ~ Doomed(r)'
           \/ /\ runner[r].pc \in {"refreshing", "saving"}
              /\ Sound(r) => Sound(r)'
    PROVE  Spares(r)
  BY DEF Spares, Doomed

LEMMA SubmitAccount ==
    ASSUME WellFormed, WellFormed', [Next]_vars, Account, NEW q \in Requests,
           ReadManifest(q) \/ \E i \in 1 .. Len(work) : Attaches(q, i)
    PROVE  Account'
  <1>1. UNCHANGED <<snapshots, runner, disturbed>> /\ SameRows
    BY RowsPass DEF ReadManifest, Attaches
  <1>2. ASSUME NEW s \in Runners
        PROVE  Spares(s)
    <2>1. CASE UNCHANGED work
      <3> DEFINE none == Len(work) + 1
      <3>1. runner[s].work # none
        <4>1. Len(work) \in Nat /\ runner[s].work \in 0 .. Len(work)
          BY Typing
        <4> QED
          BY <4>1
      <3>2. runner'[s] = runner[s] /\ \A k \in 1 .. Len(work) \ {none} : work'[k] = work[k]
        BY <1>1, <2>1
      <3> HIDE DEF none
      <3> QED
        BY <1>1, <3>1, <3>2, SparesQuiet
    <2>2. ASSUME NEW i \in 1 .. Len(work), RowTakes(i, q),
                 \A k \in 1 .. Len(work) \ {i} : work'[k] = work[k]
          PROVE  Spares(s)
      <3>1. runner[s].work # i \/ ~ Sound(s)
        BY <2>2 DEF RowTakes, Sound, Owns
      <3> QED
        BY <1>1, <2>2, <3>1, SparesQuiet
    <2> QED
      BY <2>1, <2>2 DEF ReadManifest, Attaches
  <1>3. Revision' = Revision /\ Len(work') = Len(work) /\ disturbed' >= disturbed
    BY <1>1, Amounts DEF Revision, SameRows, AmountsOK
  <1> QED
    BY <1>2, <1>3, AccountKept

\* A new row pays for the lead that its generation may take.
LEMMA QueueAccount ==
    ASSUME WellFormed, WellFormed', [Next]_vars, Account, NEW q \in Requests, Queues(q)
    PROVE  Account'
  <1>1. /\ Len(work') = Len(work) + 1
        /\ \A i \in 1 .. Len(work) : work'[i] = work[i]
        /\ work'[Len(work) + 1].generation = NextGeneration
        /\ UNCHANGED <<snapshots, runner, disturbed>> /\ Revision' = Revision
    <2>1. QueuedRow(q).generation = NextGeneration
      BY DEF QueuedRow
    <2> QED
      BY <2>1, QueuedRowSpec DEF Queues, Revision
  <1>2. /\ Len(work) \in Nat /\ Len(work') \in Nat /\ Revision \in Nat /\ Gap \in Nat
        /\ Gap' \in Nat /\ Cardinality(Charged) \in Nat /\ Cardinality(Charged') \in Nat
        /\ IsFiniteSet(Charged') /\ disturbed \in Nat
    BY Amounts, AmountsNext DEF AmountsOK
  <1>3. \A s \in Runners : Spares(s)
    <2>1. Len(work') >= Len(work)
      BY <1>1, <1>2
    <2> QED
      BY <1>1, <1>2, <2>1, SoundRow, SparesOthers
  <1>4. DoomedRuns' \subseteq DoomedRuns /\ Charged \subseteq Charged'
    BY <1>3, Balance
  <1>5. IsFiniteSet(DoomedRuns') /\ Dooms' <= Dooms
    BY <1>4, OneMore DEF Dooms, Account
  <1>6. Earned + 1 <= Earned'
    <2>1. Cardinality(Charged) <= Cardinality(Charged')
      BY <1>2, <1>4, OneMore
    <2> QED
      BY <1>1, <1>2, <2>1, Sums DEF Earned
  <1>7. Gap' <= Gap + 1
    <2>1. NextGeneration \in Nat /\ NextGeneration <= Revision + Gap + 1
      <3>1. NextGeneration \in Nat
        BY NewGeneration
      <3>2. CASE NextGeneration = Revision + 1
        BY <1>2, <3>2
      <3>3. ASSUME NEW i \in 1 .. Len(work), NextGeneration = work[i].generation + 1
            PROVE  NextGeneration <= Revision + Gap + 1
        <4>1. work[i].generation \in Nat /\ work[i].generation <= Revision + Gap
          BY Typing, GapSpec
        <4> QED
          BY <1>2, <3>3, <4>1
      <3> QED
        BY <3>1, <3>2, <3>3, NewGeneration
    <2>2. Gap' = IF NextGeneration > Revision THEN NextGeneration - Revision ELSE 0
      BY <1>1, <1>2 DEF Gap
    <2> QED
      BY <1>2, <2>1, <2>2
  <1>8. Spent' <= Spent + 1
    BY <1>1, <1>2, <1>7, Sums DEF Spent
  <1> QED
    BY <1>5, <1>6, <1>8, Settled

LEMMA ClaimAccount ==
    ASSUME WellFormed, WellFormed', [Next]_vars, Account,
           NEW r \in Runners, NEW i \in 1 .. Len(work), Leases(r, i)
    PROVE  Account'
  <1>1. Len(work') = Len(work) /\ Len(work') \in Nat /\ disturbed \in Nat
    BY Amounts DEF Leases, SameRows, AmountsOK
  <1>2. ASSUME NEW s \in Runners \ {r}
        PROVE  Spares(s)
    <2>1. runner'[s] = runner[s] /\ Len(work') >= Len(work)
      BY <1>1 DEF Leases
    <2>2. ASSUME runner[s].work # 0, Sound(s)
          PROVE  /\ work'[runner[s].work] = work[runner[s].work]
                 /\ work[runner[s].work].status = "RUNNING"
                 /\ work[runner[s].work].owner = s
                 /\ work[runner[s].work].lease = "live"
      <3>1. /\ runner[s].work \in 1 .. Len(work)
            /\ work[runner[s].work].status = "RUNNING"
            /\ work[runner[s].work].owner = s
            /\ work[runner[s].work].lease = "live"
        BY <2>2, SoundRow
      <3>2. ~ Reclaimable(runner[s].work) /\ runner[s].work # i
        BY <3>1 DEF Reclaimable, Leases
      <3> QED
        BY <3>1, <3>2 DEF Leases
    <2> QED
      BY <1>1, <2>1, <2>2, SparesOthers
  <1>3. Spares(r)
    <2>1. ~ Accepted(r)
      BY DEF Leases, Accepted
    <2>2. Sound(r)'
      BY DEF Leases, RowClaimed, Sound, Owns
    <2> QED
      BY <2>1, <2>2, SparesMoved DEF Doomed
  <1>4. Revision' = Revision /\ disturbed' >= disturbed
    BY <1>1 DEF Leases, Revision
  <1> QED
    BY <1>1, <1>2, <1>3, <1>4, AccountKept

LEMMA CloseAccount ==
    ASSUME WellFormed, WellFormed', [Next]_vars, Account, NEW r \in Runners, Closes(r)
    PROVE  Account'
  <1> DEFINE i == runner[r].work
  <1>1. Len(work') = Len(work) /\ Len(work') \in Nat /\ disturbed \in Nat /\ SameRows
    BY Amounts DEF Closes, SameRows, AmountsOK
  <1>2. i \in 1 .. Len(work)
    <2>1. i \in 0 .. Len(work) /\ i # 0 /\ Len(work) \in Nat
      BY Typing DEF Closes
    <2> QED
      BY <2>1
  <1>3. ASSUME NEW s \in Runners \ {r}
        PROVE  Spares(s)
    <2>1. runner[s].work # i \/ ~ Sound(s)
      BY <1>2, SoundRow DEF Closes
    <2> QED
      BY <1>1, <2>1, SparesQuiet DEF Closes
  <1>4. Spares(r)
    <2>1. ~ Doomed(r)'
      BY DEF Closes, Doomed, Idle
    <2>2. i \in Charged'
      BY <1>1, <1>2 DEF Closes, RowCompletes, Charged
    <2> QED
      BY <2>1, <2>2 DEF Spares
  <1>5. Revision' = Revision /\ disturbed' >= disturbed
    BY <1>1 DEF Closes, Revision
  <1> QED
    BY <1>1, <1>3, <1>4, <1>5, AccountKept

\* The steps of a run that neither publish nor lease nor complete.
LEMMA RunAccount ==
    ASSUME WellFormed, WellFormed', [Next]_vars, Account, NEW r \in Runners,
           \/ Refreshed(r) \/ RefreshFails(r) \/ Complete(r) \/ Fail(r)
           \/ Heartbeat(r) \/ HeartbeatFails(r) \/ Crash(r)
    PROVE  Account'
  <1> DEFINE i == runner[r].work
             Others == \A s \in Runners \ {r} : Spares(s)
  <1>1. /\ runner[r] \in RunnerState /\ DOMAIN runner = Runners /\ Revision \in Nat
        /\ i \in 0 .. Len(work) /\ Len(work) \in Nat /\ disturbed \in Nat
        /\ runner[r].pc # "idle" => i # 0
    BY Typing, Amounts DEF AmountsOK
  <1>2. ASSUME UNCHANGED snapshots, SameRows,
               \/ disturbed' >= disturbed /\ Spares(r)
               \/ disturbed' = disturbed + 1 /\ (~ Doomed(r)' \/ ~ Accepted(r)),
               Others
        PROVE  Account'
    <2>1. Revision' = Revision /\ Len(work') = Len(work)
      BY <1>2 DEF Revision, SameRows
    <2> QED
      BY <1>2, <2>1, AccountKept
  <1>3. ASSUME SameRows, \A s \in Runners \ {r} : runner'[s] = runner[s],
               \A k \in 1 .. Len(work) \ {i} : work'[k] = work[k],
               UNCHANGED work \/ Owns(r)
        PROVE  Others
    <2> SUFFICES ASSUME NEW s \in Runners \ {r}
                 PROVE  Spares(s)
      OBVIOUS
    <2>1. CASE UNCHANGED work
      <3>1. runner[s].work # Len(work) + 1
        <4>1. Len(work) \in Nat /\ runner[s].work \in 0 .. Len(work)
          BY Typing
        <4> QED
          BY <4>1
      <3>2. \A k \in 1 .. Len(work) \ {Len(work) + 1} : work'[k] = work[k]
        BY <2>1
      <3> QED
        BY <1>3, <3>1, <3>2, SparesQuiet
    <2>2. CASE Owns(r) /\ i # 0
      <3>1. runner[s].work # i \/ ~ Sound(s)
        BY <2>2, SoundRow
      <3> QED
        BY <1>3, <3>1, SparesQuiet
    <2>3. CASE i = 0
      <3>1. \A k \in 1 .. Len(work) : work'[k] = work[k]
        BY <1>1, <1>3, <2>3
      <3>2. Spares(s)
        <4>1. runner[s].work # Len(work) + 1
          <5>1. Len(work) \in Nat /\ runner[s].work \in 0 .. Len(work)
            BY Typing
          <5> QED
            BY <5>1
        <4>2. \A k \in 1 .. Len(work) \ {Len(work) + 1} : work'[k] = work[k]
          BY <3>1
        <4> QED
          BY <1>3, <4>1, <4>2, SparesQuiet
      <3> QED
        BY <3>2
    <2> QED
      BY <1>3, <2>1, <2>2, <2>3
  <1>4. UNCHANGED work => SameRows /\ \A k \in 1 .. Len(work) \ {i} : work'[k] = work[k]
    BY RowsPass
  <1> HIDE DEF Others
  <1>5. ASSUME NEW state, runner' = [runner EXCEPT ![r] = state]
        PROVE  runner'[r] = state /\ \A s \in Runners \ {r} : runner'[s] = runner[s]
    BY <1>1, <1>5
  <1>6. ASSUME Goto(r, "failing") \/ runner' = [runner EXCEPT ![r] = Idle]
        PROVE  /\ ~ Doomed(r)'
               /\ \A s \in Runners \ {r} : runner'[s] = runner[s]
    <2>1. CASE Goto(r, "failing")
      <3>1. /\ runner'[r].pc = "failing"
            /\ \A s \in Runners \ {r} : runner'[s] = runner[s]
        BY <1>1, <2>1 DEF Goto, RunnerState
      <3> QED
        BY <3>1 DEF Doomed
    <2>2. CASE runner' = [runner EXCEPT ![r] = Idle]
      <3>1. runner'[r] = Idle /\ \A s \in Runners \ {r} : runner'[s] = runner[s]
        BY <1>1, <2>2
      <3>2. Idle.pc = "idle"
        BY DEF Idle
      <3> QED
        BY <3>1, <3>2 DEF Doomed
    <2> QED
      BY <1>6, <2>1, <2>2
  <1>7. CASE Refreshed(r)
    <2>1. UNCHANGED <<snapshots, work, disturbed>> /\ runner[r].pc = "refreshing"
      BY <1>7 DEF Refreshed
    <2>2. ~ Accepted(r)
      BY <2>1 DEF Accepted
    <2>3. CASE runner[r].lost
      <3>1. Goto(r, "failing")
        BY <1>1, <1>7, <2>3 DEF Refreshed, Goto
      <3>2. Spares(r)
        BY <1>6, <2>2, <3>1, SparesMoved
      <3> QED
        BY <1>1, <1>2, <1>3, <1>4, <1>6, <2>1, <3>1, <3>2
    <2>4. CASE ~ runner[r].lost
      <3> DEFINE state == [runner[r] EXCEPT !.pc = "saving", !.base = Revision]
      <3>1. state.work = runner[r].work /\ state.lost = runner[r].lost
        BY <1>1 DEF RunnerState
      <3>2. runner' = [runner EXCEPT ![r] = state]
        BY <1>1, <1>7, <2>4 DEF Refreshed
      <3> HIDE DEF state
      <3>3. runner'[r] = state /\ \A s \in Runners \ {r} : runner'[s] = runner[s]
        BY <1>5, <3>2
      <3>4. Sound(r) => Sound(r)'
        BY <2>1, <3>1, <3>3 DEF Sound, Owns
      <3>5. Spares(r)
        BY <2>1, <2>2, <3>4, SparesMoved
      <3> QED
        BY <1>1, <1>2, <1>3, <1>4, <2>1, <3>3, <3>5
    <2> QED
      BY <2>3, <2>4
  <1>8. CASE RefreshFails(r)
    <2>1. /\ UNCHANGED <<snapshots, work>> /\ disturbed' = disturbed + 1
          /\ Goto(r, "failing")
      BY <1>8 DEF RefreshFails, Disturb
    <2> QED
      BY <1>2, <1>3, <1>4, <1>6, <2>1
  <1>9. CASE Complete(r)
    <2>1. CASE Closes(r)
      BY <2>1, CloseAccount
    <2>2. CASE /\ Goto(r, "failing") /\ UNCHANGED <<snapshots, work, disturbed>>
               /\ \/ runner[r].lost \/ ~ Owns(r)
                  \/ ~ (runner[r].saved >= work[runner[r].work].generation)
      <3>1. ~ Accepted(r)
        BY <2>2 DEF Accepted, Sound
      <3>2. Spares(r)
        BY <1>6, <2>2, <3>1, SparesMoved
      <3> QED
        BY <1>1, <1>2, <1>3, <1>4, <1>6, <2>2, <3>2
    <2> QED
      BY <1>9, <2>1, <2>2, CompleteShape
  <1>10. CASE Fail(r)
    <2>1. /\ UNCHANGED <<snapshots, disturbed>> /\ runner[r].pc = "failing"
          /\ runner' = [runner EXCEPT ![r] = Idle]
      BY <1>10 DEF Fail
    <2>2. ~ Accepted(r)
      BY <2>1 DEF Accepted
    <2>3. Spares(r)
      BY <1>6, <2>1, <2>2, SparesMoved
    <2>4. /\ SameRows /\ \A k \in 1 .. Len(work) \ {i} : work'[k] = work[k]
          /\ UNCHANGED work \/ Owns(r)
      <3>1. SameRows
        BY <1>10, RunShape DEF Passes
      <3>2. CASE ~ runner[r].lost /\ Owns(r)
        BY <1>1, <1>10, <3>1, <3>2 DEF Fail
      <3>3. CASE ~ (~ runner[r].lost /\ Owns(r))
        BY <1>10, <3>1, <3>3 DEF Fail
      <3> QED
        BY <3>2, <3>3
    <2> QED
      BY <1>1, <1>2, <1>3, <1>6, <2>1, <2>3, <2>4
  <1>11. CASE Heartbeat(r)
    <2>1. /\ UNCHANGED <<snapshots, runner, disturbed>> /\ Owns(r) /\ i \in 1 .. Len(work)
          /\ work' = [work EXCEPT ![i].lease = "live"] /\ ~ runner[r].lost
      BY <1>1, <1>11 DEF Heartbeat, Beating
    <2>2. SameRows
      BY <1>11, RunShape DEF Passes
    <2>3. /\ \A k \in 1 .. Len(work) \ {i} : work'[k] = work[k]
          /\ work'[i].status = work[i].status /\ work'[i].owner = work[i].owner
          /\ work'[i].generation = work[i].generation /\ work'[i].lease = "live"
      <3>1. work[i] \in WorkRow /\ DOMAIN work = 1 .. Len(work)
        BY <2>1, Typing
      <3> QED
        BY <2>1, <3>1 DEF WorkRow
    <2>4. Spares(r)
      <3>1. Len(work') >= Len(work) /\ Len(work') \in Nat
        BY <1>1, <2>2 DEF SameRows
      <3> QED
        BY <2>1, <2>3, <3>1, SparesOthers DEF Owns
    <2> QED
      BY <1>1, <1>2, <1>3, <2>1, <2>2, <2>3, <2>4
  <1>12. CASE HeartbeatFails(r)
    <2> DEFINE state == [runner[r] EXCEPT !.lost = TRUE]
    <2>1. /\ UNCHANGED <<snapshots, work>> /\ Beating(r)
          /\ runner' = [runner EXCEPT ![r] = state]
          /\ IF Owns(r) THEN disturbed' = disturbed + 1 ELSE disturbed' = disturbed
      BY <1>1, <1>12 DEF HeartbeatFails, Disturb
    <2>2. state.pc = runner[r].pc
      BY <1>1 DEF RunnerState
    <2> HIDE DEF state
    <2>3. runner'[r] = state /\ \A s \in Runners \ {r} : runner'[s] = runner[s]
      BY <1>5, <2>1
    <2>4. CASE Owns(r)
      <3>1. ~ Doomed(r)' \/ ~ Accepted(r)
        BY <2>2, <2>3 DEF Doomed, Accepted
      <3> QED
        BY <1>1, <1>2, <1>3, <1>4, <2>1, <2>3, <2>4, <3>1
    <2>5. CASE ~ Owns(r)
      <3>1. Spares(r)
        BY <2>2, <2>3, <2>5 DEF Spares, Doomed, Accepted, Sound
      <3> QED
        BY <1>1, <1>2, <1>3, <1>4, <2>1, <2>3, <2>5, <3>1
    <2> QED
      BY <2>4, <2>5
  <1>13. CASE Crash(r)
    <2>1. /\ UNCHANGED <<snapshots, work>> /\ disturbed' = disturbed + 1
          /\ runner' = [runner EXCEPT ![r] = Idle]
      BY <1>13 DEF Crash, Disturb
    <2> QED
      BY <1>2, <1>3, <1>4, <1>6, <2>1
  <1> QED
    BY <1>7, <1>8, <1>9, <1>10, <1>11, <1>12, <1>13

\* What pays for the snapshot of a run.
LEMMA SaveAccount ==
    ASSUME WellFormed, WellFormed', [Next]_vars, Account, NEW r \in Runners, Save(r)
    PROVE  Account'
  <1> DEFINE i == runner[r].work
  <1>1. /\ runner[r] \in RunnerState /\ DOMAIN runner = Runners /\ Revision \in Nat
        /\ i \in 1 .. Len(work) /\ Len(work) \in Nat /\ disturbed \in Nat
        /\ snapshots \in Seq(Nat)
        /\ runner[r].pc = "saving" /\ UNCHANGED <<work, disturbed>> /\ SameRows
    <2>1. i \in 0 .. Len(work) /\ i # 0 /\ Len(work) \in Nat
      BY Typing DEF Save
    <2>2. i \in 1 .. Len(work)
      BY <2>1
    <2>3. UNCHANGED <<work, disturbed>> /\ SameRows
      BY RowsPass DEF Save
    <2> QED
      BY <2>1, <2>2, <2>3, Typing, Amounts DEF Save, WellFormed, AmountsOK
  <1>2. ~ Accepted(r) /\ Len(work') = Len(work)
    BY <1>1 DEF Accepted
  <1>3. ASSUME \A s \in Runners \ {r} : runner'[s] = runner[s]
        PROVE  \A s \in Runners \ {r} : Spares(s)
    <2> SUFFICES ASSUME NEW s \in Runners \ {r}
                 PROVE  Spares(s)
      OBVIOUS
    <2>1. runner[s].work # Len(work) + 1
      <3>1. Len(work) \in Nat /\ runner[s].work \in 0 .. Len(work)
        BY Typing
      <3> QED
        BY <3>1
    <2>2. \A k \in 1 .. Len(work) \ {Len(work) + 1} : work'[k] = work[k]
      BY <1>1
    <2> QED
      BY <1>1, <1>3, <2>1, <2>2, SparesQuiet
  <1>4. CASE runner[r].base # Revision
    <2>1. Goto(r, "failing") /\ UNCHANGED snapshots
      BY <1>4 DEF Save
    <2>2. runner'[r].pc = "failing" /\ \A s \in Runners \ {r} : runner'[s] = runner[s]
      BY <1>1, <2>1 DEF Goto, RunnerState
    <2>3. Spares(r)
      BY <1>2, <2>2, SparesMoved DEF Doomed
    <2>4. Revision' = Revision /\ disturbed' >= disturbed
      BY <1>1, <2>1 DEF Revision
    <2> QED
      BY <1>2, <1>3, <2>2, <2>3, <2>4, AccountKept
  <1>5. CASE runner[r].base = Revision
    <2> DEFINE state == [runner[r] EXCEPT !.pc = "saved", !.saved = Revision + 1]
    <2>1. /\ state.work = runner[r].work /\ state.lost = runner[r].lost
          /\ state.pc = "saved" /\ state.saved = Revision + 1
      BY <1>1 DEF RunnerState
    <2>2. runner' = [runner EXCEPT ![r] = state]
      BY <1>1, <1>5 DEF Save
    <2> HIDE DEF state
    <2>3. runner'[r] = state /\ \A s \in Runners \ {r} : runner'[s] = runner[s]
      BY <1>1, <2>2
    <2>4. Revision' = Revision + 1
      BY <1>1, <1>5 DEF Save, Revision
    <2>5. \A s \in Runners \ {r} : Spares(s)
      BY <1>3, <2>3
    <2>6. ~ Doomed(r)' /\ (Sound(r) => Sound(r)')
      BY <1>1, <2>1, <2>3 DEF Doomed, Sound, Owns
    <2>7. DoomedRuns' \subseteq DoomedRuns /\ Charged \subseteq Charged'
      BY <1>2, <2>5, <2>6, Balance
    <2>8. /\ IsFiniteSet(DoomedRuns) /\ IsFiniteSet(DoomedRuns') /\ Dooms' <= Dooms
          /\ IsFiniteSet(Charged') /\ Cardinality(Charged) <= Cardinality(Charged')
      <3>1. IsFiniteSet(DoomedRuns) /\ IsFiniteSet(Charged')
        BY AmountsNext DEF Account, AmountsOK
      <3> QED
        BY <2>7, <3>1, OneMore DEF Dooms
    <2>9. Gap \in Nat /\ Gap' \in Nat /\ Gap' <= Gap /\ (Gap # 0 => Gap' + 1 = Gap)
          /\ Revision' \in Nat
      <3>1. /\ \A k \in 1 .. Len(work) : work'[k].generation = work[k].generation
            /\ Revision' >= Revision
        BY <1>1, <2>4
      <3>2. Revision' = Revision + 1
        BY <2>4
      <3> QED
        BY <1>1, <1>2, <3>1, <3>2, GapStays, AmountsNext DEF AmountsOK
    <2>10. Spent' <= Spent + 1 /\ (Gap # 0 => Spent' <= Spent)
      <3>1. Gap # 0 => Gap' + 1 = Gap
        BY <2>9
      <3> QED
        BY <1>1, <2>4, <2>9, <3>1, Sums DEF Spent
    <2>11. Earned <= Earned'
      <3>1. disturbed' >= disturbed
        BY <1>1
      <3> QED
        BY <1>2, <2>8, <3>1, EarnedSpec
    <2>12. CASE ~ Sound(r)
      <3>1. r \in DoomedRuns /\ r \notin DoomedRuns'
        BY <1>1, <2>6, <2>12 DEF DoomedRuns, Doomed
      <3>2. Dooms' + 1 <= Dooms
        BY <2>7, <2>8, <3>1, OneMore DEF Dooms
      <3> QED
        BY <2>8, <2>10, <2>11, <3>2, Settled
    <2>13. CASE Sound(r) /\ Revision + 1 >= work[i].generation
      <3>1. Accepted(r)'
        BY <1>1, <2>1, <2>3, <2>6, <2>13 DEF Accepted
      <3>2. i \in Charged'
        BY <1>1, <1>2, <2>1, <2>3, <3>1 DEF Charged
      <3>3. i \notin Charged
        <4>1. work[i].status = "RUNNING"
          BY <2>13 DEF Sound, Owns
        <4>2. ASSUME NEW s \in Runners, runner[s].work = i, Accepted(s)
              PROVE  FALSE
          <5>1. s # r
            BY <1>2, <4>2
          <5>2. ~ Owns(s)
            BY <1>1, <2>13, <4>2, <5>1, SoundRow
          <5> QED
            BY <4>2, <5>2 DEF Accepted, Sound
        <4> QED
          BY <4>1, <4>2 DEF Charged
      <3>4. Cardinality(Charged) + 1 <= Cardinality(Charged')
        BY <2>7, <2>8, <3>2, <3>3, OneMore
      <3>5. Earned + 1 <= Earned'
        BY <1>1, <1>2, <3>4, EarnedSpec
      <3> QED
        BY <2>8, <2>10, <3>5, Settled
    <2>14. CASE ~ (Revision + 1 >= work[i].generation)
      <3>1. work[i].generation \in Nat /\ work[i].generation <= Revision + Gap
        BY <1>1, Typing, GapSpec
      <3>2. Gap # 0
        BY <1>1, <2>9, <2>14, <3>1
      <3> QED
        BY <2>8, <2>10, <2>11, <3>2, Settled
    <2> QED
      BY <2>12, <2>13, <2>14
  <1> QED
    BY <1>4, <1>5

\* An expired lease of a run that goes on is a disturbance, and so is a snapshot
\* of another publisher.
LEMMA ClockAccount ==
    ASSUME WellFormed, WellFormed', [Next]_vars, Account
    PROVE  /\ \A i \in 1 .. Len(work) : LeaseExpires(i) \/ BackoffDue(i) => Account'
           /\ OtherPublish => Account'
           /\ UNCHANGED vars => Account'
  <1>1. disturbed \in Nat /\ Len(work) \in Nat /\ Revision \in Nat /\ snapshots \in Seq(Nat)
    BY Amounts DEF AmountsOK, WellFormed
  <1>2. ASSUME UNCHANGED <<work, runner>>, NEW s \in Runners
        PROVE  Spares(s)
    <2>1. runner[s].work # Len(work) + 1
      <3>1. Len(work) \in Nat /\ runner[s].work \in 0 .. Len(work)
        BY Typing
      <3> QED
        BY <3>1
    <2>2. \A k \in 1 .. Len(work) \ {Len(work) + 1} : work'[k] = work[k]
      BY <1>2
    <2>3. SameRows /\ runner'[s] = runner[s]
      BY <1>2, RowsPass
    <2> QED
      BY <2>1, <2>2, <2>3, SparesQuiet
  <1>3. ASSUME NEW i \in 1 .. Len(work), LeaseExpires(i) \/ BackoffDue(i)
        PROVE  Account'
    <2>1. /\ UNCHANGED <<snapshots, runner>> /\ Revision' = Revision
          /\ SameRows /\ Len(work') = Len(work)
          /\ \A k \in 1 .. Len(work) \ {i} : work'[k] = work[k]
      <3>1. SameRows
        BY <1>3, ClockShape DEF Passes
      <3>2. \A k \in 1 .. Len(work) \ {i} : work'[k] = work[k]
        BY <1>3, Typing DEF LeaseExpires, BackoffDue
      <3> QED
        BY <1>3, <3>1, <3>2 DEF LeaseExpires, BackoffDue, Revision, SameRows
    <2>2. ASSUME NEW s \in Runners, runner[s].work # i \/ ~ Sound(s)
          PROVE  Spares(s)
      BY <2>1, <2>2, SparesQuiet
    <2>3. ASSUME NEW s \in Runners, ~ runner[s].pc \in {"refreshing", "saving", "saved"}
          PROVE  Spares(s)
      BY <2>1, <2>3 DEF Spares, Doomed, Accepted
    <2>4. CASE \E s \in Runners : /\ runner[s].work = i /\ Sound(s)
                                  /\ runner[s].pc \in {"refreshing", "saving", "saved"}
      <3>1. PICK s \in Runners : /\ runner[s].work = i /\ Sound(s)
                                 /\ runner[s].pc \in {"refreshing", "saving", "saved"}
        BY <2>4
      <3>2. i # 0 /\ work[i].status = "RUNNING"
        BY <3>1 DEF Sound, Owns
      <3>3. Attended(i)
        BY <3>1 DEF Attended, Beating, Sound
      <3>4. disturbed' = disturbed + 1
        BY <1>3, <3>2, <3>3 DEF LeaseExpires, BackoffDue, Disturb
      <3>5. \A p \in Runners \ {s} : runner[p].work = i => ~ Sound(p)
        BY <3>1, <3>2, SoundRow DEF Sound
      <3>6. \A p \in Runners \ {s} : Spares(p)
        BY <2>2, <3>5
      <3>7. ~ Doomed(s)' \/ ~ Accepted(s)
        BY <2>1 DEF Doomed, Accepted
      <3> QED
        BY <2>1, <3>4, <3>6, <3>7, AccountKept
    <2>5. CASE ~ \E s \in Runners : /\ runner[s].work = i /\ Sound(s)
                                    /\ runner[s].pc \in {"refreshing", "saving", "saved"}
      <3>1. \A s \in Runners : Spares(s)
        BY <2>2, <2>3, <2>5
      <3>2. disturbed' >= disturbed
        BY <1>1, <1>3 DEF LeaseExpires, BackoffDue, Disturb
      <3> QED
        BY <2>1, <3>1, <3>2, AccountKept
    <2> QED
      BY <2>4, <2>5
  <1>4. ASSUME OtherPublish
        PROVE  Account'
    <2>1. /\ Len(work') = Len(work) /\ disturbed' = disturbed + 1 /\ Revision' = Revision + 1
          /\ UNCHANGED <<work, runner>>
      BY <1>1, <1>4 DEF OtherPublish, Disturb, Revision
    <2>2. \A s \in Runners : Spares(s)
      BY <1>2, <2>1
    <2>3. DoomedRuns' \subseteq DoomedRuns /\ Charged \subseteq Charged'
      BY <2>2, Balance
    <2>4. /\ IsFiniteSet(DoomedRuns') /\ Dooms' <= Dooms
          /\ Cardinality(Charged) <= Cardinality(Charged')
      <3>1. IsFiniteSet(DoomedRuns) /\ IsFiniteSet(Charged')
        BY AmountsNext DEF Account, AmountsOK
      <3> QED
        BY <2>3, <3>1, OneMore DEF Dooms
    <2>5. Earned + 1 <= Earned'
      BY <2>1, <2>4, EarnedSpec
    <2>6. Spent' <= Spent + 1
      <3>1. Revision' >= Revision
        BY <1>1, <2>1
      <3>2. Gap \in Nat /\ Gap' \in Nat /\ Gap' <= Gap /\ Revision' \in Nat
        BY <2>1, <3>1, GapStays, AmountsNext DEF AmountsOK
      <3> QED
        BY <1>1, <2>1, <3>2, Sums DEF Spent
    <2> QED
      BY <2>4, <2>5, <2>6, Settled
  <1>5. ASSUME UNCHANGED vars
        PROVE  Account'
    <2>1. \A s \in Runners : Spares(s)
      BY <1>2, <1>5 DEF vars
    <2>2. /\ Revision' = Revision /\ Len(work') = Len(work) /\ disturbed' >= disturbed
      BY <1>1, <1>5 DEF vars, Revision
    <2> QED
      BY <2>1, <2>2, AccountKept
  <1> QED
    BY <1>3, <1>4, <1>5

LEMMA AccountStep ==
    ASSUME WellFormed, Account, [Next]_vars
    PROVE  Account'
  <1>1. WellFormed' /\ DOMAIN work = 1 .. Len(work)
    BY WellFormedStep, Typing
  <1>2. ASSUME NEW q \in Requests, Submit(q)
        PROVE  Account'
    BY <1>1, <1>2, SubmitShape, SubmitAccount, QueueAccount, ClockAccount DEF Queues
  <1>3. ASSUME NEW r \in Runners, Claim(r)
        PROVE  Account'
    BY <1>1, <1>3, ClaimShape, ClaimAccount
  <1>4. ASSUME NEW r \in Runners,
               \/ Run(r) \/ RefreshFails(r) \/ Heartbeat(r) \/ HeartbeatFails(r) \/ Crash(r)
        PROVE  Account'
    BY <1>1, <1>4, RunAccount, SaveAccount DEF Run
  <1> QED
    BY <1>1, <1>2, <1>3, <1>4, SubmitAccount, ClockAccount DEF Next

LEMMA AccountInit == Init => Account
  <1> SUFFICES ASSUME Init
               PROVE  Account
    OBVIOUS
  <1>1. Len(work) = 0 /\ disturbed = 0 /\ Revision = 1
    BY DEF Init, Revision
  <1>2. DoomedRuns = {}
    BY DEF Init, DoomedRuns, Doomed, Idle
  <1>3. IsFiniteSet(DoomedRuns) /\ Dooms = 0
    BY <1>2, FS_EmptySet DEF Dooms
  <1>4. Gap = 0
    BY <1>1 DEF Gap
  <1>5. Cardinality(Charged) \in Nat
    BY WellFormedInit, Amounts DEF AmountsOK
  <1> QED
    BY <1>1, <1>3, <1>4, <1>5 DEF Account, Spent, Earned

Published == Revision # 0

\* The rows are at most as many as the requests, and the snapshots at most as
\* many as the rows, the refused results and the disturbances pay for: a repeated
\* or a duplicate request adds no work, whatever is retried or reclaimed.
THEOREM TypeOKThm == Spec => []TypeOK
  <1>1. WellFormed /\ Awaited /\ Account /\ Published => TypeOK
    <2> SUFFICES ASSUME WellFormed, Awaited, Account, Published
                 PROVE  Frugal
      BY DEF TypeOK
    <2>1. Len(work) <= Cardinality(Requests) /\ Cardinality(Requests) \in Nat
      BY OneRowPerRequest, FS_CardinalityType
    <2>2. Cardinality(Charged) <= Len(work)
      BY ChargedRows
    <2>3. /\ Spent \in Nat /\ Dooms \in Nat /\ Revision \in Nat /\ Gap \in Nat
          /\ Len(work) \in Nat /\ Cardinality(Charged) \in Nat /\ disturbed \in Nat
      BY Amounts DEF AmountsOK, Account
    <2>4. disturbed <= Disturbances
      BY DEF WellFormed
    <2>5. Revision <= 1 + Len(work) + Cardinality(Charged) + disturbed
      BY <2>3 DEF Account, Spent, Earned
    <2>6. \A w, c, q, b, n \in Nat : c <= w /\ w <= q /\ b <= n
            => 1 + w + c + b <= 1 + 2 * q + n
      OBVIOUS
    <2>7. 1 + Len(work) + Cardinality(Charged) + disturbed
            <= 1 + 2 * Cardinality(Requests) + Disturbances
      BY <2>1, <2>2, <2>3, <2>4, <2>6
    <2> QED
      BY <2>1, <2>3, <2>5, <2>7 DEF Frugal, Published
  <1>2. WellFormed /\ Account /\ [Next]_vars => Account'
    BY AccountStep
  <1>3. WellFormed /\ Published /\ [Next]_vars => Published'
    BY RevisionGrows, Typing DEF Published
  <1>4. Init => Account /\ Published
    BY AccountInit DEF Init, Revision, Published
  <1> QED
    BY <1>1, <1>2, <1>3, <1>4, RowsInvariant, PTL DEF Spec
================================================================================
