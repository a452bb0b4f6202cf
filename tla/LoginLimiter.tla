---------------------------- MODULE LoginLimiter ----------------------------
(***************************************************************************)
(* The guard of the administrators' login: LoginAttemptLimiter, and what   *)
(* platform_login does between its calls.  One key (address and email);    *)
(* keys do not share anything.                                             *)
(*                                                                         *)
(* Each method reads the clock and then takes the lock; a worker verifies  *)
(* the password between the call that asks and the call that records, with *)
(* no lock held.  The list is in the order of the calls, which need not    *)
(* be that of the clock: it is modelled as the places that it holds of the *)
(* sequence of all the failures recorded since the last reset.  One        *)
(* process; nothing is persisted.                                          *)
(***************************************************************************)
EXTENDS Integers, Sequences, FiniteSets

CONSTANTS Workers,       \* threads that serve logins of this key
          MaxFailures,   \* max_failures
          Window,        \* window_seconds, in ticks
          Second,        \* ticks in a second
          Delay,         \* a call takes the lock at most so many ticks after it read the clock
          LastTick       \* bound of the clock

ASSUME LimiterAssumption ==
    /\ Workers # {} /\ IsFiniteSet(Workers)
    /\ MaxFailures \in Nat \ {0}
    /\ Window \in Nat \ {0}
    /\ Second \in Nat \ {0}
    /\ Delay \in 0..(Window - 1)
    /\ LastTick \in Nat

VARIABLES
    now,        \* time.monotonic()
    recorded,   \* the times of the failures recorded since the last reset, in the order of
                \* the calls
    failures,   \* the list of the key: the places in recorded that it still holds
    pc,         \* "idle", "asking", "verifying", "recording" or "resetting"
    stamp,      \* what each worker has read from the clock
    promise     \* history: from when the last 429 invites to retry; 0 if a failure was
                \* recorded since

vars == <<now, recorded, failures, pc, stamp, promise>>

Ticks == 0..LastTick
-----------------------------------------------------------------------------
(* The operations *)

\* Mutant: a failure of exactly window_seconds ago is recent.
RecentInclusive(t) == {n \in failures : t - recorded[n] <= Window}

\* The failures that are recent for someone who read the clock at t.
Recent(t) == {n \in failures : t - recorded[n] < Window}

\* recent[0]
First(places) == CHOOSE n \in places : \A m \in places : n <= m

\* Mutant: the time elapsed, for the time left.
ElapsedSeconds(t) ==
    LET seconds == (t - recorded[First(Recent(t))]) \div Second
    IN  IF seconds < 1 THEN 1 ELSE seconds

\* max(1, int(window - (t - recent[0]))), in whole seconds.
RetryAfter(t) ==
    LET seconds == (Window - (t - recorded[First(Recent(t))])) \div Second
    IN  IF seconds < 1 THEN 1 ELSE seconds

\* Mutant: the first max_failures are kept.
KeepFirst(places) ==
    {n \in places : Cardinality({m \in places : m < n}) < MaxFailures}

\* recent[-max_failures:]
Keep(places) ==
    {n \in places : Cardinality({m \in places : m > n}) < MaxFailures}

Go(w, phase) == pc' = [pc EXCEPT ![w] = phase]

\* A login arrives; retry_after reads the clock.
StartLogin(w) ==
    /\ pc[w] = "idle"
    /\ Go(w, "asking")
    /\ stamp' = [stamp EXCEPT ![w] = now]
    /\ UNCHANGED <<now, recorded, failures, promise>>

\* retry_after, under the lock: below the limit.
Allow(w) ==
    /\ pc[w] = "asking"
    /\ Cardinality(Recent(stamp[w])) < MaxFailures
    /\ failures' = Recent(stamp[w])
    /\ Go(w, "verifying")
    /\ UNCHANGED <<now, recorded, stamp, promise>>

\* retry_after, under the lock: 429 with a Retry-After.
Deny(w) ==
    /\ pc[w] = "asking"
    /\ Cardinality(Recent(stamp[w])) >= MaxFailures
    /\ failures' = Recent(stamp[w])
    /\ promise' = now + RetryAfter(stamp[w]) * Second
    /\ Go(w, "idle")
    /\ UNCHANGED <<now, recorded, stamp>>

\* The password is wrong; record_failure reads the clock.
VerifyWrong(w) ==
    /\ pc[w] = "verifying"
    /\ Go(w, "recording")
    /\ stamp' = [stamp EXCEPT ![w] = now]
    /\ UNCHANGED <<now, recorded, failures, promise>>

\* record_failure, under the lock.
RecordFailure(w) ==
    /\ pc[w] = "recording"
    /\ recorded' = Append(recorded, stamp[w])
    /\ failures' = Keep(Recent(stamp[w]) \union {Len(recorded) + 1})
    /\ promise' = 0
    /\ Go(w, "idle")
    /\ UNCHANGED <<now, stamp>>

VerifyRight(w) ==
    /\ pc[w] = "verifying"
    /\ Go(w, "resetting")
    /\ UNCHANGED <<now, recorded, failures, stamp, promise>>

\* The failures of the key are forgotten.
Reset(w) ==
    /\ pc[w] = "resetting"
    /\ recorded' = <<>>
    /\ failures' = {}
    /\ promise' = 0
    /\ Go(w, "idle")
    /\ UNCHANGED <<now, stamp>>

Tick ==
    /\ now < LastTick
    /\ \A w \in Workers : pc[w] \in {"asking", "recording"} => now < stamp[w] + Delay
    /\ now' = now + 1
    /\ UNCHANGED <<recorded, failures, pc, stamp, promise>>

Init ==
    /\ now = 0
    /\ recorded = <<>>
    /\ failures = {}
    /\ pc = [w \in Workers |-> "idle"]
    /\ stamp = [w \in Workers |-> 0]
    /\ promise = 0

Next ==
    \/ Tick
    \/ \E w \in Workers :
          \/ StartLogin(w) \/ Allow(w) \/ Deny(w)
          \/ VerifyWrong(w) \/ RecordFailure(w)
          \/ VerifyRight(w) \/ Reset(w)

Spec == Init /\ [][Next]_vars
-----------------------------------------------------------------------------
(* Properties *)

\* The wrong passwords tried from one tick to another which no reset forgot: recorded, or
\* by a login that is about to record it.
Tried(from, to) ==
    Cardinality({n \in DOMAIN recorded : recorded[n] \in from..to})
    + Cardinality({w \in Workers : pc[w] = "recording" /\ stamp[w] \in from..to})

\* In no window are more wrong passwords tried than the limit and one for each other
\* worker, who asked before the last failure was recorded.  Out of order by Delay, the
\* list may keep the older of two failures: the window is shorter by as much.
FewAttempts ==
    \A t \in Ticks : Tried(t - (Window - Delay) + 1, t) < MaxFailures + Cardinality(Workers)

\* Whoever waits a second longer than the last Retry-After said is let in, if no failure
\* was recorded since: the seconds are cut to whole ones.
PromiseIsKept ==
    [][\A w \in Workers :
          Deny(w) => promise = 0 \/ stamp[w] < promise + Second]_vars

\* Only a key with max_failures wrong passwords within a window is refused.
DenialsAreEarned ==
    [][\A w \in Workers :
          Deny(w) => Tried(stamp[w] - Window + 1, now) >= MaxFailures]_vars
=============================================================================
