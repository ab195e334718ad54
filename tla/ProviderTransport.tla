-------------------------- MODULE ProviderTransport --------------------------
(***************************************************************************)
(* One data set of a deterministic provider (Tradier): the cache entry     *)
(* that calls resolve first, and the HTTP client they share when it is     *)
(* stale, with its circuit breaker and its sliding window rate limiter.    *)
(* Calls are coroutines of the server's event loop, or run in a thread     *)
(* that opens a loop of its own for them (enrich_market_context_sync).     *)
(* A coroutine gives way to the others of its loop only where it awaits.   *)
(* A thread interleaves with everybody between the reads and the writes of *)
(* the asyncio.Lock, of the list of the limiter and of the failures that   *)
(* the breaker counts; its two fields change together.                     *)
(***************************************************************************)
EXTENDS Naturals, Sequences, FiniteSets, SequencesExt

CONSTANTS
    None,
    Coroutines,  \* calls of the server's loop
    Threads,     \* calls of threads
    Limit,       \* requests per window of the rate limiter
    Window,
    Threshold,   \* failures that open the circuit
    Recovery,
    Attempts,    \* per call
    TTL, NegativeTTL, Grace,
    MaxCalls,    \* bound: calls and retries in all
    MaxTime      \* bound: when time passes no more

ASSUME LimitAssumption == Limit \in Nat \ {0} /\ Window \in Nat \ {0}
ASSUME BreakerAssumption == Threshold \in Nat \ {0} /\ Recovery \in Nat
ASSUME AttemptsAssumption == Attempts \in Nat \ {0}
ASSUME CacheAssumption == TTL \in Nat /\ NegativeTTL \in Nat \ {0} /\ Grace \in Nat \ {0}
ASSUME CallersAssumption == Coroutines \intersect Threads = {} /\ None \notin Coroutines \union Threads
ASSUME BoundAssumption == MaxCalls \in Nat /\ MaxTime \in Nat
ASSUME NoneAssumption == None \notin Nat

VARIABLES
    now,
    entry,    \* of the cache
    breaker,
    stamps,   \* _timestamps of the limiter
    lock,     \* of the limiter
    call,     \* what each caller is doing
    served,   \* the data this step answers a call with: when it was loaded and asked for
    sent,     \* history: when the requests of the last window got through the limiter
    early,    \* history: those of them for which a stamp had to go (pop)
    overlap,  \* history: when, in the last window, two callers were at work on the list
    calls

vars == <<now, entry, breaker, stamps, lock, call, served, sent, early,
          overlap, calls>>

Callers == Coroutines \union Threads

\* good: valid_cache; the others are negative and empty.
Entry == [good : BOOLEAN, loaded : Nat, valid : Nat, stale : Nat]
Idle == [at |-> "idle", start |-> 0, stale |-> None, tries |-> 0, time |-> 0, kept |-> <<>>,
         slept |-> FALSE, count |-> 0]
Closed == [failures |-> 0, opened |-> None]
Unlocked == [locked |-> FALSE, waiters |-> <<>>, loop |-> None]

Init ==
    /\ now = 0
    /\ entry = None
    /\ breaker = Closed
    /\ stamps = <<>>
    /\ lock = Unlocked
    /\ call = [c \in Callers |-> Idle]
    /\ served = None
    /\ sent = <<>>
    /\ early = <<>>
    /\ overlap = None
    /\ calls = 0

-----------------------------------------------------------------------------
(* ParametricProviderCache.resolve *)

Fresh(e) == e # None /\ now < e.valid

\* Mutant of Usable: whatever was good once.
UsableForever(e) == e # None /\ e.good

Usable(e) == e # None /\ e.good /\ now < e.stale

Served(loaded, start) == [loaded |-> loaded, start |-> start]

Begin(c) ==
    /\ call[c].at = "idle"
    /\ calls < MaxCalls
    /\ calls' = calls + 1
    /\ IF Fresh(entry)
       THEN /\ served' = IF entry.good THEN Served(entry.loaded, now) ELSE None
            /\ UNCHANGED call
       ELSE /\ call' = [call EXCEPT ![c] =
                 [Idle EXCEPT !.at = "check", !.start = now,
                              !.stale = IF Usable(entry) THEN entry.loaded ELSE None]]
            /\ served' = None
    /\ UNCHANGED <<now, entry, breaker, stamps, lock, sent, early>>

\* The stale grace, or the error.
Fails(c) ==
    /\ call' = [call EXCEPT ![c] = Idle]
    /\ served' = IF call[c].stale = None THEN None ELSE Served(call[c].stale, call[c].start)

\* Validity counts from the moment the call began, before it waited for the provider.
Good(c) == [good |-> TRUE, loaded |-> now, valid |-> call[c].start + TTL,
            stale |-> call[c].start + TTL + Grace]

Negative(c) == [good |-> FALSE, loaded |-> 0, valid |-> call[c].start + NegativeTTL,
                stale |-> call[c].start + NegativeTTL]

-----------------------------------------------------------------------------
(* CircuitBreaker *)

Goes(c, place) == call' = [call EXCEPT ![c].at = place]

Open == breaker.opened # None /\ now < breaker.opened + Recovery

Check(c) ==
    /\ call[c].at = "check"
    /\ IF Open THEN Fails(c)
       ELSE /\ Goes(c, IF breaker.opened = None THEN "asks" ELSE "resets")
            /\ served' = None
    /\ UNCHANGED <<now, entry, breaker, stamps, lock, sent, early, calls>>

\* Another thread may have closed the circuit, after its first look at opened_at or after
\* its second, which would find None to add to.
Resets(c) ==
    /\ call[c].at = "resets"
    /\ \/ Goes(c, "asks") /\ breaker' = Closed /\ served' = None
       \/ breaker.opened = None /\ Fails(c) /\ UNCHANGED breaker
    /\ UNCHANGED <<now, entry, stamps, lock, sent, early, calls>>

\* failed: the number read is counted up and stored, whatever was stored in between.
Counts(c, place) ==
    /\ call' = [call EXCEPT ![c].at = place, ![c].count = breaker.failures + 1]
    /\ served' = None
    /\ UNCHANGED <<now, entry, breaker, stamps, lock, sent, early, calls>>

Counted(c) == [failures |-> call[c].count,
               opened |-> IF call[c].count >= Threshold THEN now ELSE breaker.opened]

-----------------------------------------------------------------------------
(* asyncio.Lock *)

\* It belongs to the loop of its first waiter; the others cannot wait for it.
Loop(c) == IF c \in Coroutines THEN "server" ELSE c

Busy == lock.locked \/ lock.waiters # <<>>

Asks(c) ==
    /\ call[c].at = "asks"
    /\ Goes(c, IF Busy THEN "joins" ELSE "takes")
    /\ served' = None
    /\ UNCHANGED <<now, entry, breaker, stamps, lock, sent, early, calls>>

Joins(c) ==
    /\ call[c].at = "joins"
    /\ IF lock.loop \in {None, Loop(c)}
       THEN /\ lock' = [lock EXCEPT !.waiters = Append(@, c), !.loop = Loop(c)]
            /\ Goes(c, "queued")
            /\ served' = None
       ELSE Fails(c) /\ UNCHANGED lock
    /\ UNCHANGED <<now, entry, breaker, stamps, sent, early, calls>>

\* A waiter that was woken, the first, takes the lock without another look.
Resume(c) ==
    /\ call[c].at = "woken"
    /\ lock.waiters # <<>> /\ c = Head(lock.waiters)
    /\ lock' = [lock EXCEPT !.waiters = Tail(@)]
    /\ Goes(c, "takes")
    /\ served' = None
    /\ UNCHANGED <<now, entry, breaker, stamps, sent, early, calls>>

Takes(c) ==
    /\ call[c].at = "takes"
    /\ lock' = [lock EXCEPT !.locked = TRUE]
    /\ Goes(c, "reads")
    /\ served' = None
    /\ UNCHANGED <<now, entry, breaker, stamps, sent, early, calls>>

\* The first waiter is woken; who does not find the lock locked raises an error.
Releases(c) ==
    /\ call[c].at = "releases"
    /\ IF lock.locked
       THEN /\ lock' = [lock EXCEPT !.locked = FALSE]
            /\ call' = [d \in Callers |->
                 IF d = c THEN [call[d] EXCEPT !.at = "sent"]
                 ELSE IF lock.waiters # <<>> /\ d = Head(lock.waiters)
                 THEN [call[d] EXCEPT !.at = "woken"]
                 ELSE call[d]]
            /\ served' = None
       ELSE Fails(c) /\ UNCHANGED lock
    /\ UNCHANGED <<now, entry, breaker, stamps, sent, early, calls>>

-----------------------------------------------------------------------------
(* AsyncSlidingWindowRateLimiter.acquire *)

\* The stamps of s whose window is still open at t: the comprehension of the code, item by
\* item (SelectSeq, written out for the provers, which cannot unfold it).
Since(s, t) ==
    LET kept[i \in 0 .. Len(s)] ==
            IF i = 0 THEN <<>>
            ELSE IF t < s[i] + Window THEN Append(kept[i - 1], s[i])
            ELSE kept[i - 1]
    IN  kept[Len(s)]

\* Mutant of Recent: the window is one tick short.
RecentShort(s) == Since(s, now + 1)

Recent(s) == Since(s, now)

\* Under the lock: the clock, the list that is kept at that time, ...
Reads(c) ==
    /\ call[c].at = "reads"
    /\ call' = [call EXCEPT ![c].at = "stores", ![c].time = now, ![c].kept = Recent(stamps)]
    /\ served' = None
    /\ UNCHANGED <<now, entry, breaker, stamps, lock, sent, early, calls>>

\* ... which replaces whatever list there is now.
Stores(c) ==
    /\ call[c].at = "stores"
    /\ stamps' = call[c].kept
    /\ call' = [call EXCEPT ![c].at = "decides", ![c].kept = <<>>]
    /\ served' = None
    /\ UNCHANGED <<now, entry, breaker, lock, sent, early, calls>>

\* Full: sleep, with the lock held, until the oldest has left the window.  Still full
\* after that: the oldest goes all the same.
Decides(c) ==
    /\ call[c].at = "decides"
    /\ \/ /\ Len(stamps) < Limit
          /\ Goes(c, "adds")
          /\ UNCHANGED <<stamps, early>>
       \/ /\ Len(stamps) >= Limit
          /\ ~ call[c].slept
          /\ call' = [call EXCEPT ![c].at = "sleeping", ![c].slept = TRUE]
          /\ UNCHANGED <<stamps, early>>
       \/ /\ Len(stamps) >= Limit
          /\ call[c].slept
          /\ stamps' = Tail(stamps)
          /\ early' = Append(Since(early, now), call[c].time)
          /\ Goes(c, "adds")
    /\ served' = None
    /\ UNCHANGED <<now, entry, breaker, lock, sent, calls>>

\* The sleep is measured by the loop's clock, which is not the one that stamps: it may end
\* before that one has moved.
Wakes(c) ==
    /\ call[c].at = "sleeping"
    /\ Goes(c, "reads")
    /\ served' = None
    /\ UNCHANGED <<now, entry, breaker, stamps, lock, sent, early, calls>>

Adds(c) ==
    /\ call[c].at = "adds"
    /\ stamps' = Append(stamps, call[c].time)
    /\ sent' = Append(Since(sent, now), call[c].time)
    /\ call' = [call EXCEPT ![c].at = "releases", ![c].time = 0, ![c].slept = FALSE]
    /\ served' = None
    /\ UNCHANGED <<now, entry, breaker, lock, early, calls>>

-----------------------------------------------------------------------------
(* DeterministicHttpClient.request: what the provider answers *)

\* Data, no data, or a payload that the adapter refuses after it has counted as a success:
\* a terminal error leaves a negative entry, any other the entry that there is.
Succeeds(c) ==
    /\ call[c].at = "sent"
    /\ breaker' = Closed
    /\ \/ /\ entry' = Good(c)
          /\ served' = Served(now, call[c].start)
          /\ call' = [call EXCEPT ![c] = Idle]
       \/ /\ entry' = [Negative(c) EXCEPT !.stale = @ + Grace]
          /\ call' = [call EXCEPT ![c] = Idle]
          /\ served' = None
       \/ entry' = Negative(c) /\ Fails(c)
       \/ entry' = entry /\ Fails(c)
    /\ UNCHANGED <<now, stamps, lock, sent, early, calls>>

\* Time-outs, network errors, overload: another attempt after a pause.
RetryLater(c) ==
    /\ call[c].at = "sent"
    /\ call[c].tries + 1 < Attempts
    /\ calls < MaxCalls
    /\ calls' = calls + 1
    /\ call' = [call EXCEPT ![c].at = "check", ![c].tries = @ + 1]
    /\ served' = None
    /\ UNCHANGED <<now, entry, breaker, stamps, lock, sent, early>>

GivesUp(c) ==
    /\ call[c].at = "sent"
    /\ call[c].tries + 1 = Attempts
    /\ Counts(c, "failing")

\* Redirects, refused authentication, malformed answers.
Refused(c) ==
    /\ call[c].at = "sent"
    /\ Counts(c, "refusing")

\* The errors of httpx that the client does not catch (a broken protocol, a proxy).
Escapes(c) ==
    /\ call[c].at = "sent"
    /\ Fails(c)
    /\ UNCHANGED <<now, entry, breaker, stamps, lock, sent, early, calls>>

\* The failure is stored; one that will stay leaves a negative entry.
Failed(c) ==
    /\ call[c].at \in {"failing", "refusing"}
    /\ breaker' = Counted(c)
    /\ entry' = IF call[c].at = "refusing" THEN Negative(c) ELSE entry
    /\ Fails(c)
    /\ UNCHANGED <<now, stamps, lock, sent, early, calls>>

-----------------------------------------------------------------------------
\* asyncio.run of a thread ends, and its loop with it.
LoopCloses(t) ==
    /\ call[t].at = "idle"
    /\ lock.loop = t
    /\ lock' = [lock EXCEPT !.loop = "closed"]
    /\ served' = None
    /\ UNCHANGED <<now, entry, breaker, stamps, call, sent, early, calls>>

Tick ==
    /\ now < MaxTime
    /\ now' = now + 1
    /\ served' = None
    /\ UNCHANGED <<entry, breaker, stamps, lock, call, sent, early, calls>>

\* Where a coroutine lets the others of the loop run.
Awaits == {"idle", "check", "queued", "woken", "sleeping", "sent"}

Turn(c) == c \in Coroutines => \A d \in Coroutines \ {c} : call[d].at \in Awaits

\* Between taking the lock and the stamp.
AtWork == {"reads", "stores", "decides", "sleeping", "adds"}

Together == \E c, d \in Callers : c # d /\ call[c].at \in AtWork /\ call[d].at \in AtWork

Marks == overlap' = IF Together' THEN now'
                    ELSE IF overlap # None /\ now' >= overlap + Window THEN None
                    ELSE overlap

Starts(c) == Turn(c) /\ Begin(c) /\ Marks

Woken(c) == Turn(c) /\ Resume(c) /\ Marks

Continues(c) ==
    /\ Turn(c)
    /\ \/ Check(c) \/ Resets(c) \/ Asks(c) \/ Joins(c) \/ Takes(c)
       \/ Reads(c) \/ Stores(c) \/ Decides(c) \/ Wakes(c) \/ Adds(c) \/ Releases(c)
       \/ Succeeds(c) \/ RetryLater(c) \/ GivesUp(c) \/ Refused(c) \/ Escapes(c) \/ Failed(c)
    /\ Marks

Serve(c) == Starts(c) \/ Woken(c) \/ Continues(c)

Next ==
    \/ \E c \in Callers : Serve(c)
    \/ Tick /\ Marks
    \/ \E t \in Threads : LoopCloses(t) /\ Marks

Spec == Init /\ [][Next]_vars

\* A request has a time-out and a sleep an end; the server's loop always turns again.
\* The loop of a thread has nothing to do but to wait for the lock.
Fairness ==
    /\ WF_vars(Tick /\ Marks)
    /\ \A c \in Callers : WF_vars(Continues(c))
    /\ \A c \in Coroutines : WF_vars(Woken(c))

FairSpec == Spec /\ Fairness

-----------------------------------------------------------------------------
(* Properties *)

\* Types of the client, the cache entry and the calls.
TransportTypeOK ==
    /\ now \in Nat
    /\ entry \in Entry \union {None}
    /\ breaker \in [failures : Nat, opened : Nat \union {None}]
    /\ stamps \in Seq(Nat) /\ sent \in Seq(Nat) /\ early \in Seq(Nat)
    /\ overlap \in Nat \union {None}
    /\ lock \in [locked : BOOLEAN, waiters : Seq(Callers),
                 loop : Threads \union {None, "server", "closed"}]
    /\ call \in [Callers -> [at : Awaits \union AtWork
                                    \union {"resets", "asks", "joins", "takes", "releases",
                                            "failing", "refusing"},
                             start : Nat, stale : Nat \union {None}, tries : 0 .. Attempts - 1,
                             time : Nat, kept : Seq(Nat), slept : BOOLEAN, count : Nat]]
    /\ served \in [loaded : Nat, start : Nat] \union {None}
    /\ calls \in 0 .. MaxCalls

InWindow(s) == Cardinality({i \in DOMAIN s : now < s[i] + Window})

\* The provider's limit, as the client promises to keep it: no window sees more requests.
\* It fails: a sleep may end early, and threads get past the lock and lose each other's stamps.
LimitIsKept == InWindow(sent) <= Limit

\* What does hold of the limiter, with retries, and however long the lock is held by one
\* that sleeps: a request beyond the limit stands for a sleep that ended early, except in the
\* window after two callers have been at work on the list, past a lock that is not made for
\* threads.  After it the contract holds again, whatever was lost: the limiter recovers.
RateHolds == overlap = None => InWindow(sent) <= Limit + InWindow(early)

\* Whatever a call gets, a hit or the stale grace of a failure, was loaded less than the
\* time to live and the grace before it asked, although a slow call may overwrite the
\* entry that a quick one has filled since.
ServedIsRecent == served # None => served.start < served.loaded + TTL + Grace

\* Everyone who asks is answered.
EveryCallEnds == \A c \in Callers : call[c].at # "idle" ~> call[c].at = "idle"

\* architecture.md:31: "last-known-good data must not be overwritten by failures": while an
\* entry is within its grace, only a good one replaces it.
LastKnownGoodStays ==
    [][Usable(entry) /\ entry' # entry => entry'.good]_vars
=============================================================================
