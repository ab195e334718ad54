-------------------------- MODULE EventFactsProofs --------------------------
(***************************************************************************)
(* Proofs about EventFacts, for all times, values, refreshers, workers.    *)
(***************************************************************************)
EXTENDS EventFacts, TLAPS

USE TimesAssumption, ValuesAssumption, KeyAssumption, RoundsAssumption, NoneAssumption

\* Whoever writes by a key that it has read needs the row still to be there, and a row with
\* the status of a quarantine is hidden from the writers too.
Held ==
    /\ row # None /\ row.status = "QUARANTINED" => row.hidden
    /\ \A r \in Refreshers : pass[r].kind = "audit" => row # None
    /\ \A w \in Workers : job[w].kind = "stored" => row # None

TypeInv == EventTypeOK /\ Held

-----------------------------------------------------------------------------
(* The values the actions build *)

LEMMA RowType ==
    ASSUME NEW r \in Row, NEW a \in Maybe, NEW s \in Statuses, NEW v \in Maybe
    PROVE  /\ r # None
           /\ [r EXCEPT !.actual = a, !.official = TRUE, !.surprise = v, !.status = s] \in Row
           /\ [r EXCEPT !.status = s, !.hidden = TRUE] \in Row
           /\ [r EXCEPT !.status = s] \in Row
  BY DEF Row

\* An upsert creates a row, or merges with one and keeps what must stay.
LEMMA UpsertType ==
    ASSUME NEW p \in Payload
    PROVE  /\ Created(p) \in Row
           /\ Created(p).status = "QUARANTINED" => Created(p).hidden
           /\ \A old \in Row :
                /\ Merged(old, p) \in Row
                /\ (old.status = "QUARANTINED" => old.hidden)
                     => (Merged(old, p).status = "QUARANTINED" => Merged(old, p).hidden)
                /\ old.hidden => Merged(old, p).hidden
                /\ old.untrusted => Merged(old, p).untrusted
                /\ old.actual # None => Merged(old, p).actual # None
                /\ Merged(old, p).official = old.official
                /\ Merged(old, p).surprise = old.surprise
  <1>1. /\ Reported(p) \in Maybe /\ StatusOf(p) \in Statuses
        /\ StatusOf(p) = "QUARANTINED" => ~ p.accepted
    BY DEF Reported, StatusOf, Payload, Maybe, Statuses
  <1>2. None \in Maybe
    BY DEF Maybe
  <1>3. Created(p) \in Row /\ (Created(p).status = "QUARANTINED" => Created(p).hidden)
    BY <1>1, <1>2 DEF Created, Row, Payload
  <1>4. ASSUME NEW old \in Row
        PROVE  /\ Merged(old, p) \in Row
               /\ (old.status = "QUARANTINED" => old.hidden)
                    => (Merged(old, p).status = "QUARANTINED" => Merged(old, p).hidden)
               /\ old.hidden => Merged(old, p).hidden
               /\ old.untrusted => Merged(old, p).untrusted
               /\ old.actual # None => Merged(old, p).actual # None
               /\ Merged(old, p).official = old.official
               /\ Merged(old, p).surprise = old.surprise
    <2>1. Kept(Reported(p), old.actual) \in Maybe
          /\ (old.actual # None => Kept(Reported(p), old.actual) # None)
      BY <1>1 DEF Kept, Row
    <2>2. "QUARANTINED" \in Statuses /\ old.status \in Statuses
      BY DEF Statuses, Row
    <2> QED
      BY <1>1, <2>1, <2>2 DEF Merged, Row, Payload
  <1> QED
    BY <1>3, <1>4

\* Hiding facts keeps what they say.
LEMMA FactsType ==
    ASSUME fact \in [Origins -> Fact \union {None}]
    PROVE  /\ QuarantinedFacts \in [Origins -> Fact \union {None}]
           /\ \A o \in Origins :
                /\ fact[o] # None => QuarantinedFacts[o] # None
                /\ fact[o] # None => QuarantinedFacts[o].actual = fact[o].actual
  <1> SUFFICES ASSUME NEW o \in Origins
               PROVE  /\ QuarantinedFacts[o] \in Fact \union {None}
                      /\ fact[o] # None => QuarantinedFacts[o] # None
                      /\ fact[o] # None => QuarantinedFacts[o].actual = fact[o].actual
    BY DEF QuarantinedFacts
  <1>1. CASE fact[o] = None
    BY <1>1 DEF QuarantinedFacts, Quarantined
  <1>2. CASE fact[o] # None
    <2>1. fact[o] \in Fact
      BY <1>2
    <2>2. [fact[o] EXCEPT !.hidden = TRUE] \in Fact
          /\ [fact[o] EXCEPT !.hidden = TRUE].actual = fact[o].actual
      BY <2>1 DEF Fact
    <2> QED
      BY <1>2, <2>1, <2>2 DEF QuarantinedFacts, Quarantined
  <1> QED
    BY <1>1, <1>2

\* A recorded fact is a fact, and the others stay.
LEMMA StoreType ==
    ASSUME fact \in [Origins -> Fact \union {None}], NEW k \in Origins, NEW v \in Maybe,
           fact' = [fact EXCEPT ![k] = [actual |-> v, hidden |-> @ # None /\ @.hidden]]
    PROVE  /\ fact' \in [Origins -> Fact \union {None}]
           /\ fact'[k] # None /\ fact'[k].actual = v
           /\ \A o \in Origins \ {k} : fact'[o] = fact[o]
  <1>1. (fact[k] # None /\ fact[k].hidden) \in BOOLEAN
    BY DEF Fact
  <1>2. [actual |-> v, hidden |-> fact[k] # None /\ fact[k].hidden] \in Fact
    BY <1>1 DEF Fact
  <1> QED
    BY <1>2

-----------------------------------------------------------------------------
(* What a step does to the row *)

\* A row stays, a quarantine stays and an actual stays.
Grows ==
    row # None =>
      /\ row' # None
      /\ row.hidden => row'.hidden
      /\ row.untrusted => row'.untrusted
      /\ row.actual # None => row'.actual # None

\* A row with the status of a quarantine is hidden.
Sound == row' # None /\ row'.status = "QUARANTINED" => row'.hidden

LEMMA UpsertStep ==
    ASSUME TypeInv, NEW r \in Refreshers, Upsert(r)
    PROVE  /\ row' \in Row /\ fact' \in [Origins -> Fact \union {None}]
           /\ Grows /\ Sound
           /\ row # None => row'.official = row.official /\ row'.surprise = row.surprise
           /\ row = None => ~ row'.official /\ row'.surprise = None
           /\ \A o \in Origins : fact[o] # None =>
                fact'[o] # None /\ fact'[o].actual = fact[o].actual
  <1> DEFINE p == pass[r].payload
             next == IF row = None THEN Created(p) ELSE Merged(row, p)
  <1>1. p \in Payload
    BY DEF TypeInv, EventTypeOK, Upsert, Pass
  <1>2. row \in Row \union {None} /\ (row # None /\ row.status = "QUARANTINED" => row.hidden)
        /\ fact \in [Origins -> Fact \union {None}]
    BY DEF TypeInv, EventTypeOK, Held
  <1>3. next \in Row /\ (next.status = "QUARANTINED" => next.hidden)
    BY <1>1, <1>2, UpsertType
  <1>4. row' = next /\ fact' \in {fact, QuarantinedFacts}
    BY DEF Upsert
  <1>5. next # None
    BY <1>3
  <1>6. ~ Created(p).official /\ Created(p).surprise = None
    BY DEF Created
  <1> QED
    BY <1>1, <1>2, <1>3, <1>4, <1>5, <1>6, UpsertType, FactsType DEF Grows, Sound

\* An official answer, recorded on the row and as a fact of one origin.
LEMMA OfficialStep ==
    ASSUME TypeInv, NEW v \in Values, NEW k \in {"official", "forced"}, row # None,
           \E s \in Surprises(v) : row' = Official(v, s),
           fact' = [fact EXCEPT ![k] = [actual |-> v, hidden |-> @ # None /\ @.hidden]]
    PROVE  /\ row' \in Row /\ fact' \in [Origins -> Fact \union {None}]
           /\ Grows /\ Sound
           /\ SurpriseIsOfficial'
  <1>1. PICK s \in Surprises(v) : row' = Official(v, s)
    OBVIOUS
  <1>2. s \in Maybe /\ v \in Maybe /\ v # None /\ (s # None => s = v)
    BY DEF Surprises, Maybe
  <1>3. row \in Row /\ fact \in [Origins -> Fact \union {None}] /\ k \in Origins
    BY DEF TypeInv, EventTypeOK, Origins
  <1>4. row' \in Row
    BY <1>1, <1>2, <1>3, RowType DEF Official, Statuses
  <1>5. /\ row'.actual = v /\ row'.surprise = s
        /\ row'.hidden = row.hidden /\ row'.untrusted = row.untrusted
        /\ row'.status = "RELEASED"
    BY <1>1, <1>3 DEF Official, Row
  <1>6. /\ fact' \in [Origins -> Fact \union {None}]
        /\ fact'[k] # None /\ fact'[k].actual = v
    BY <1>2, <1>3, StoreType
  <1>7. row' # None
    BY <1>4
  <1> QED
    BY <1>2, <1>4, <1>5, <1>6, <1>7 DEF Grows, Sound, SurpriseIsOfficial

-----------------------------------------------------------------------------
(* Every step *)

\* What a step keeps: the types, the growth of the row, and what has passed.
Keeps == TypeInv' /\ Grows /\ now <= now'

Backed == SurpriseIsOfficial => SurpriseIsOfficial'

\* A step that leaves the tables alone, or only a part of the row that does not matter.
LEMMA SameTables ==
    ASSUME UNCHANGED <<row, fact>>
    PROVE  Grows /\ Backed
  BY DEF Grows, Backed, SurpriseIsOfficial

LEMMA SameFacts ==
    ASSUME UNCHANGED fact, row # None, row' # None,
           row'.actual = row.actual, row.untrusted => row'.untrusted, row.hidden => row'.hidden,
           row'.official = row.official, row'.surprise = row.surprise
    PROVE  Grows /\ Backed
  BY DEF Grows, Backed, SurpriseIsOfficial

\* The tables are typed, and a row does not go.
Tables ==
    /\ row' \in Row \union {None}
    /\ row # None => row' # None
    /\ Sound
    /\ fact' \in [Origins -> Fact \union {None}]
    /\ rounds' \in 0 .. MaxRounds

LEMMA SameTyped ==
    ASSUME TypeInv, UNCHANGED <<row, fact>>, UNCHANGED rounds \/ Start
    PROVE  Tables
  BY DEF TypeInv, EventTypeOK, Held, Sound, Tables, Start

LEMMA ClockStands ==
    ASSUME TypeInv, UNCHANGED now
    PROVE  now <= now'
  BY DEF TypeInv, EventTypeOK

LEMMA PassStep ==
    ASSUME TypeInv, Tables, NEW r \in Refreshers, NEW x \in Pass,
           x.kind = "audit" => row' # None,
           pass' = [pass EXCEPT ![r] = x], UNCHANGED <<now, job, force>>
    PROVE  TypeInv' /\ now <= now'
  BY ClockStands DEF TypeInv, EventTypeOK, Held, Sound, Tables

LEMMA JobStep ==
    ASSUME TypeInv, Tables, NEW w \in Workers, NEW x \in Job,
           x.kind = "stored" => row' # None,
           job' = [job EXCEPT ![w] = x], UNCHANGED <<now, pass, force>>
    PROVE  TypeInv' /\ now <= now'
  BY ClockStands DEF TypeInv, EventTypeOK, Held, Sound, Tables

LEMMA TableStep ==
    ASSUME TypeInv, Tables, force' \in Reconciliation, UNCHANGED <<now, pass, job>>
    PROVE  TypeInv' /\ now <= now'
  BY ClockStands DEF TypeInv, EventTypeOK, Held, Sound, Tables

LEMMA Kinds ==
    /\ Idle \in Pass /\ [kind |-> "audit"] \in Pass /\ Idle.kind = "idle"
    /\ Idle \in Job /\ [kind |-> "field"] \in Job /\ [kind |-> "stored"] \in Job
    /\ Idle \in Reconciliation
  BY DEF Idle, Pass, Job, Reconciliation

LEMMA RefresherStep ==
    ASSUME TypeInv, NEW r \in Refreshers,
           Fetch(r) \/ Load(r) \/ Upsert(r) \/ ReadRecords(r) \/ Audit(r)
    PROVE  Keeps /\ Backed
  <1>1. CASE Fetch(r)
    <2>1. PICK at \in Times \union {None}, accepted \in BOOLEAN, trusted \in BOOLEAN :
            pass' = [pass EXCEPT ![r] = [kind |-> "upsert",
              payload |-> [at |-> at, actual |-> None, accepted |-> accepted,
                           trusted |-> trusted]]]
      BY <1>1 DEF Fetch
    <2> DEFINE x == [kind |-> "upsert",
             payload |-> [at |-> at, actual |-> None, accepted |-> accepted,
                          trusted |-> trusted]]
    <2>2. x \in Pass /\ x.kind # "audit"
      BY DEF Pass, Payload, Maybe
    <2>3. Tables
      BY <1>1, SameTyped DEF Fetch
    <2> HIDE DEF x
    <2>4. TypeInv' /\ now <= now'
      BY <1>1, <2>1, <2>2, <2>3, PassStep DEF Fetch, x
    <2> QED
      BY <1>1, <2>4, SameTables DEF Fetch, Keeps
  <1>2. CASE Load(r)
    <2>1. PICK secondary \in Maybe, trusted \in BOOLEAN :
            pass' = [pass EXCEPT ![r] = [kind |-> "upsert",
              payload |-> [at |-> row.at,
                           actual |-> IF Shown = "RELEASED" THEN row.actual ELSE secondary,
                           accepted |-> TRUE, trusted |-> trusted]]]
      BY <1>2 DEF Load
    <2> DEFINE a == IF Shown = "RELEASED" THEN row.actual ELSE secondary
               x == [kind |-> "upsert",
                     payload |-> [at |-> row.at, actual |-> a, accepted |-> TRUE, trusted |-> trusted]]
    <2>2. a \in Maybe /\ row.at \in Times \union {None}
      BY <1>2 DEF Load, Visible, Writable, TypeInv, EventTypeOK, Row
    <2>3. x \in Pass /\ x.kind # "audit"
      BY <2>2 DEF Pass, Payload
    <2>4. pass' = [pass EXCEPT ![r] = x]
      BY <2>1
    <2>5. Tables
      BY <1>2, SameTyped DEF Load
    <2> HIDE DEF x
    <2>6. TypeInv' /\ now <= now'
      BY <1>2, <2>3, <2>4, <2>5, PassStep DEF Load
    <2> QED
      BY <1>2, <2>6, SameTables DEF Load, Keeps
  <1>3. CASE Upsert(r)
    <2>1. row' # None /\ row' \in Row /\ fact' \in [Origins -> Fact \union {None}] /\ Grows /\ Sound
      BY <1>3, UpsertStep
    <2>2. Tables
      BY <1>3, <2>1 DEF Upsert, Tables, TypeInv, EventTypeOK
    <2>3. TypeInv' /\ now <= now'
      BY <1>3, <2>1, <2>2, PassStep, Kinds DEF Upsert
    <2>4. Backed
      BY <1>3, <2>1, UpsertStep DEF Backed, SurpriseIsOfficial, Origins
    <2> QED
      BY <1>3, <2>1, <2>3, <2>4 DEF Upsert, Keeps
  <1>4. CASE ReadRecords(r)
    <2>1. Tables
      BY <1>4, SameTyped DEF ReadRecords
    <2>2. TypeInv' /\ now <= now'
      BY <1>4, <2>1, PassStep, Kinds DEF ReadRecords, Visible, Writable
    <2> QED
      BY <1>4, <2>2, SameTables DEF ReadRecords, Keeps
  <1>5. CASE Audit(r)
    <2>1. row \in Row /\ row # None /\ "QUARANTINED" \in Statuses
      BY <1>5, RowType DEF Audit, Held, Statuses, TypeInv, EventTypeOK
    <2>2. row' \in Row /\ row' # None
      BY <1>5, <2>1, RowType DEF Audit, Maybe
    <2>3. /\ row'.actual = row.actual /\ row'.untrusted = row.untrusted
          /\ row.hidden => row'.hidden
          /\ row'.official = row.official /\ row'.surprise = row.surprise
      BY <1>5, <2>1 DEF Audit, Row
    <2>4. Grows /\ Backed
      BY <1>5, <2>1, <2>2, <2>3, SameFacts DEF Audit
    <2>5. Sound
      BY <1>5, <2>1 DEF Audit, Row, Sound, TypeInv, Held
    <2>6. Tables
      BY <1>5, <2>2, <2>5 DEF Audit, Tables, TypeInv, EventTypeOK
    <2>7. TypeInv' /\ now <= now'
      BY <1>5, <2>2, <2>6, PassStep, Kinds DEF Audit
    <2> QED
      BY <1>5, <2>4, <2>7 DEF Audit, Keeps
  <1> QED
    BY <1>1, <1>2, <1>3, <1>4, <1>5

LEMMA WorkerStep ==
    ASSUME TypeInv, NEW w \in Workers,
           Answer(w) \/ ApplyActual(w) \/ ApplyField(w) \/ ReadBack(w) \/ StoreFact(w)
    PROVE  Keeps /\ Backed
  <1>0. job \in [Workers -> Job] /\ row \in Row \union {None}
        /\ fact \in [Origins -> Fact \union {None}]
    BY DEF TypeInv, EventTypeOK
  <1>1. CASE Answer(w)
    <2>1. PICK j \in Job : j.kind # "stored" /\ job' = [job EXCEPT ![w] = j]
      <3>1. CASE \E v \in Values : job' = [job EXCEPT ![w] = [kind |-> "actual", actual |-> v]]
        BY <3>1 DEF Job
      <3>2. CASE job' = [job EXCEPT ![w] = [kind |-> "field"]]
        BY <3>2, Kinds
      <3> QED
        BY <1>1, <3>1, <3>2 DEF Answer
    <2>2. Tables
      BY <1>1, SameTyped DEF Answer
    <2>3. TypeInv' /\ now <= now'
      BY <1>1, <2>1, <2>2, JobStep DEF Answer
    <2> QED
      BY <1>1, <2>3, SameTables DEF Answer, Keeps
  <1>2. CASE ApplyActual(w)
    <2> DEFINE v == job[w].actual
    <2>1. v \in Values
      BY <1>0, <1>2 DEF ApplyActual, Job
    <2>2. CASE Writable
      <3>1. row # None
        BY <2>2 DEF Writable
      <3>2. /\ \E s \in Surprises(v) : row' = Official(v, s)
            /\ fact' = [fact EXCEPT !["official"] =
                          [actual |-> v, hidden |-> @ # None /\ @.hidden]]
        BY <1>2, <2>2 DEF ApplyActual
      <3> HIDE DEF v
      <3>3. /\ row' \in Row /\ fact' \in [Origins -> Fact \union {None}]
            /\ Grows /\ Sound /\ SurpriseIsOfficial'
        BY <2>1, <3>1, <3>2, OfficialStep
      <3>4. Tables
        BY <1>2, <3>1, <3>3 DEF ApplyActual, Tables, Grows, TypeInv, EventTypeOK
      <3>5. TypeInv' /\ now <= now'
        BY <1>2, <3>4, JobStep, Kinds DEF ApplyActual
      <3> QED
        BY <1>2, <3>3, <3>5 DEF ApplyActual, Keeps, Backed
    <2>3. CASE ~ Writable
      <3>1. UNCHANGED <<row, fact>>
        BY <1>2, <2>3 DEF ApplyActual
      <3>2. Tables
        BY <1>2, <3>1, SameTyped DEF ApplyActual
      <3>3. TypeInv' /\ now <= now'
        BY <1>2, <3>2, JobStep, Kinds DEF ApplyActual
      <3> QED
        BY <1>2, <3>1, <3>3, SameTables DEF ApplyActual, Keeps
    <2> QED
      BY <2>2, <2>3
  <1>3. CASE ApplyField(w)
    <2>1. Tables
      BY <1>3, SameTyped DEF ApplyField
    <2>2. CASE Writable
      BY <1>3, <2>1, <2>2, JobStep, Kinds, SameTables DEF ApplyField, Writable, Keeps
    <2>3. CASE ~ Writable
      BY <1>3, <2>1, <2>3, JobStep, Kinds, SameTables DEF ApplyField, Keeps
    <2> QED
      BY <2>2, <2>3
  <1>4. CASE ReadBack(w)
    <2>1. row \in Row
      BY <1>0, <1>4 DEF ReadBack, TypeInv, Held
    <2>2. [kind |-> "restored", actual |-> row.actual] \in Job
      BY <2>1 DEF Row, Job
    <2>3. PICK x \in Job : x.kind # "stored" /\ job' = [job EXCEPT ![w] = x]
      BY <1>4, <2>2, Kinds DEF ReadBack
    <2>4. Tables
      BY <1>4, SameTyped DEF ReadBack
    <2>5. TypeInv' /\ now <= now'
      BY <1>4, <2>3, <2>4, JobStep DEF ReadBack
    <2> QED
      BY <1>4, <2>5, SameTables DEF ReadBack, Keeps
  <1>5. CASE StoreFact(w)
    <2>1. job[w].actual \in Maybe /\ "research" \in Origins
      BY <1>0, <1>5 DEF StoreFact, Job, Origins
    <2>2. /\ fact' \in [Origins -> Fact \union {None}]
          /\ \A o \in Origins \ {"research"} : fact'[o] = fact[o]
      BY <1>0, <1>5, <2>1, StoreType DEF StoreFact
    <2>3. Tables
      BY <1>0, <1>5, <2>2 DEF StoreFact, Tables, Sound, TypeInv, EventTypeOK, Held
    <2>4. TypeInv' /\ now <= now'
      BY <1>5, <2>3, JobStep, Kinds DEF StoreFact
    <2>5. Grows /\ Backed
      BY <1>5, <2>2 DEF StoreFact, Grows, Backed, SurpriseIsOfficial, Origins
    <2> QED
      BY <1>5, <2>4, <2>5 DEF StoreFact, Keeps
  <1> QED
    BY <1>1, <1>2, <1>3, <1>4, <1>5

LEMMA OtherStep ==
    ASSUME TypeInv, Release \/ MarkUnavailable \/ Prepare \/ Reconcile \/ Abandon
    PROVE  Keeps /\ Backed
  <1>0. /\ row \in Row \union {None} /\ fact \in [Origins -> Fact \union {None}]
        /\ force \in Reconciliation /\ now \in {0} \union Times
    BY DEF TypeInv, EventTypeOK
  <1>1. CASE Release
    <2>1. now' \in {0} \union Times /\ now <= now'
      BY <1>0, <1>1 DEF Release
    <2>2. TypeInv'
      BY <1>1, <2>1 DEF Release, TypeInv, EventTypeOK, Held
    <2> QED
      BY <1>1, <2>1, <2>2, SameTables DEF Release, Keeps
  <1>2. CASE MarkUnavailable
    <2>1. CASE row' = row
      BY <1>0, <1>2, <2>1, SameTables, SameTyped, TableStep DEF MarkUnavailable, Keeps
    <2>2. CASE row' # row
      <3>1. row \in Row /\ row # None /\ row' = [row EXCEPT !.status = "ACTUAL_UNAVAILABLE"]
        BY <1>0, <1>2, <2>2 DEF MarkUnavailable, Writable
      <3>2. row' \in Row /\ row' # None
        BY <3>1, RowType DEF Statuses, Maybe
      <3>3. Grows /\ Backed
        BY <1>2, <3>1, <3>2, SameFacts DEF MarkUnavailable, Row
      <3>4. Tables
        <4>1. row'.status # "QUARANTINED"
          BY <3>1 DEF Row
        <4> QED
          BY <1>0, <1>2, <3>2, <4>1 DEF MarkUnavailable, Tables, Sound, Start, TypeInv, EventTypeOK
      <3>5. TypeInv' /\ now <= now'
        BY <1>0, <1>2, <3>4, TableStep DEF MarkUnavailable
      <3> QED
        BY <1>2, <3>3, <3>5 DEF MarkUnavailable, Keeps
    <2> QED
      BY <2>1, <2>2
  <1>3. CASE Prepare
    <2>1. force' \in Reconciliation
      BY <1>3 DEF Prepare, Reconciliation
    <2> QED
      BY <1>0, <1>3, <2>1, SameTables, SameTyped, TableStep DEF Prepare, Keeps
  <1>4. CASE Reconcile
    <2> DEFINE v == force.actual
    <2>1. v \in Maybe
      BY <1>0, <1>4 DEF Reconcile, Reconciliation
    <2>2. CASE ~ Writable
      BY <1>0, <1>4, <2>2, SameTables, SameTyped, TableStep, Kinds DEF Reconcile, Keeps
    <2>3. CASE Writable /\ v = None
      <3>1. row \in Row /\ row # None /\ row' = Unresolved /\ fact' = fact
        BY <1>0, <1>4, <2>3 DEF Reconcile, Writable
      <3>2. row' \in Row /\ row' # None
        BY <3>1, RowType DEF Unresolved, Statuses, Maybe
      <3>3. Grows /\ Backed
        BY <3>1, <3>2, SameFacts DEF Unresolved, Row
      <3>4. Tables
        <4>1. row'.status # "QUARANTINED"
          BY <3>1 DEF Unresolved, Row
        <4> QED
          BY <1>0, <1>4, <3>1, <3>2, <4>1 DEF Reconcile, Tables, Sound, TypeInv, EventTypeOK
      <3>5. TypeInv' /\ now <= now'
        BY <1>0, <1>4, <3>4, TableStep, Kinds DEF Reconcile
      <3> QED
        BY <1>4, <3>3, <3>5 DEF Reconcile, Keeps
    <2>4. CASE Writable /\ v # None
      <3>1. v \in Values /\ row # None
        BY <2>1, <2>4 DEF Maybe, Writable
      <3>2. /\ \E s \in Surprises(v) : row' = Official(v, s)
            /\ fact' = [fact EXCEPT !["forced"] =
                          [actual |-> v, hidden |-> @ # None /\ @.hidden]]
        BY <1>4, <2>4 DEF Reconcile
      <3> HIDE DEF v
      <3>3. /\ row' \in Row /\ fact' \in [Origins -> Fact \union {None}]
            /\ Grows /\ Sound /\ SurpriseIsOfficial'
        BY <3>1, <3>2, OfficialStep
      <3>4. Tables
        BY <1>4, <3>1, <3>3 DEF Reconcile, Tables, Grows, TypeInv, EventTypeOK
      <3>5. TypeInv' /\ now <= now'
        BY <1>0, <1>4, <3>4, TableStep, Kinds DEF Reconcile
      <3> QED
        BY <1>4, <3>3, <3>5 DEF Reconcile, Keeps, Backed
    <2> QED
      BY <2>2, <2>3, <2>4
  <1>5. CASE Abandon
    BY <1>0, <1>5, SameTables, SameTyped, TableStep, Kinds DEF Abandon, Keeps
  <1> QED
    BY <1>1, <1>2, <1>3, <1>4, <1>5

LEMMA EveryStep ==
    ASSUME TypeInv, [Next]_vars
    PROVE  Keeps /\ Backed
  <1>1. CASE UNCHANGED vars
    <2>1. /\ UNCHANGED <<now, row, fact, pass, job, force, rounds>>
          /\ now \in Nat
      BY <1>1, TimesAssumption DEF vars, TypeInv, EventTypeOK
    <2>2. TypeInv'
      BY <2>1 DEF TypeInv, EventTypeOK, Held
    <2>3. Grows /\ now <= now'
      BY <2>1 DEF Grows
    <2>4. Backed
      BY <2>1 DEF Backed, SurpriseIsOfficial
    <2> QED
      BY <2>2, <2>3, <2>4 DEF Keeps
  <1>2. CASE Next
    BY <1>2, RefresherStep, WorkerStep, OtherStep DEF Next
  <1> QED
    BY <1>1, <1>2

LEMMA InitType == Init => TypeInv /\ SurpriseIsOfficial
  BY DEF Init, Idle, TypeInv, EventTypeOK, Held, SurpriseIsOfficial, Pass, Job, Reconciliation

-----------------------------------------------------------------------------
(* Theorems *)

THEOREM TypeInvariance == Spec => []TypeInv
  <1>1. TypeInv /\ [Next]_vars => TypeInv'
    BY EveryStep DEF Keeps
  <1> QED
    BY <1>1, InitType, PTL DEF Spec

\* Types of the row, of the facts, and of what everybody holds.
THEOREM EventTypeCorrect == Spec => []EventTypeOK
  <1>1. TypeInv => EventTypeOK
    BY DEF TypeInv
  <1> QED
    BY <1>1, TypeInvariance, PTL

\* The official source of a row, and its surprise, are backed by a fact.
THEOREM SurpriseIsOfficialThm == Spec => []SurpriseIsOfficial
  <1>1. TypeInv /\ SurpriseIsOfficial /\ [Next]_vars => SurpriseIsOfficial'
    BY EveryStep DEF Backed
  <1> QED
    BY <1>1, InitType, TypeInvariance, PTL DEF Spec

\* No write takes the actual of a released event, nor shows it as open again but by giving it
\* another release time.
THEOREM ReleasedReopensByTimeOnlyThm == Spec => ReleasedReopensByTimeOnly
  <1> DEFINE Reopens == /\ row'.actual # None
                        /\ Shown' \notin {"RELEASED", "HIDDEN"}
                             => row'.at # row.at /\ ~ Past(row.at)'
  <1>1. TypeInv /\ [Next]_vars => [Shown = "RELEASED" => Reopens]_vars
    <2> SUFFICES ASSUME TypeInv, [Next]_vars, Shown = "RELEASED"
                 PROVE  Reopens
      OBVIOUS
    <2>1. row # None /\ Past(row.at) /\ row.actual # None
      BY DEF Shown, Visible, Writable
    <2>2. Keeps
      BY EveryStep
    <2>3. row' # None /\ row'.actual # None
      BY <2>1, <2>2 DEF Keeps, Grows
    <2>4. row'.at = row.at => Past(row.at)'
      <3>1. now \in Nat /\ now' \in Nat /\ now <= now'
        BY <2>2 DEF Keeps, TypeInv, EventTypeOK
      <3>2. row.at \in Nat /\ row.at <= now
        BY <2>1 DEF Past, TypeInv, EventTypeOK, Row
      <3> QED
        BY <2>1, <3>1, <3>2 DEF Past
    <2>5. Shown' \notin {"RELEASED", "HIDDEN"} => ~ Past(row.at)'
      BY <2>3 DEF Shown
    <2> QED
      BY <2>3, <2>4, <2>5
  <1> QED
    BY <1>1, TypeInvariance, PTL DEF Spec, ReleasedReopensByTimeOnly

\* No write ends a quarantine.
THEOREM QuarantineHoldsThm == Spec => QuarantineHolds
  <1>1. TypeInv /\ [Next]_vars
          => [row # None /\ ~ Visible => row' # None /\ ~ Visible']_vars
    <2> SUFFICES ASSUME TypeInv, [Next]_vars, row # None, ~ Visible
                 PROVE  row' # None /\ ~ Visible'
      OBVIOUS
    <2>1. row' # None
      BY EveryStep DEF Keeps, Grows
    <2>2. row.hidden \/ row.untrusted
      BY DEF Visible, Writable, TypeInv, Held
    <2> QED
      BY <2>1, <2>2, EveryStep DEF Keeps, Grows, Visible, Writable
  <1> QED
    BY <1>1, TypeInvariance, PTL DEF Spec, QuarantineHolds
=============================================================================
