------------------------- MODULE LoginLimiterProofs -------------------------
(***************************************************************************)
(* What the limiter of logins guarantees, proved for any number of workers *)
(* and failures, any window, any delay below it and any clock.             *)
(*                                                                         *)
(* The list is short and out of order: what it has dropped was older than  *)
(* what it holds, but for Delay.  So whoever is let in has found fewer     *)
(* failures than the limit in every window, shorter by Delay, that is not  *)
(* over; the others that were let in before fail once each.                *)
(***************************************************************************)
EXTENDS LoginLimiter, TLAPS, FiniteSetTheorems

\* The places of the failures recorded from a on, and the logins that may still record one.
From(a) == {n \in DOMAIN recorded : recorded[n] >= a}

Busy(a) ==
    {w \in Workers : pc[w] = "verifying" \/ (pc[w] = "recording" /\ stamp[w] >= a)}

\* The windows, shorter by Delay, that are not over.
Open(a) == a <= now /\ now - a < Window - Delay

TypeOK ==
    /\ now \in Nat
    /\ recorded \in Seq(Nat)
    /\ failures \subseteq DOMAIN recorded
    /\ pc \in [Workers -> {"idle", "asking", "verifying", "recording", "resetting"}]
    /\ stamp \in [Workers -> Nat]
    /\ promise \in Nat

\* Nothing is later than the clock, and who is about to take the lock has read it lately.
ClockOK ==
    /\ \A n \in DOMAIN recorded : recorded[n] <= now
    /\ \A w \in Workers :
          /\ stamp[w] <= now
          /\ pc[w] \in {"asking", "recording"} => now <= stamp[w] + Delay

\* The list is in the order of the clock but for Delay.
InOrder ==
    \A m, n \in DOMAIN recorded : m < n => recorded[m] <= recorded[n] + Delay

Short == Cardinality(failures) <= MaxFailures

\* The list holds all the failures of an open window, or is full of failures that were
\* recorded after one of that window.
Held ==
    \A a \in Nat : Open(a) =>
        \/ From(a) \subseteq failures
        \/ /\ Cardinality(failures) >= MaxFailures
           /\ \A n \in failures : recorded[n] >= a - Delay

\* FewAttempts of the open windows, with the logins that may still fail.
FewToCome ==
    \A a \in Nat : Open(a) =>
        Cardinality(From(a)) + Cardinality(Busy(a)) < MaxFailures + Cardinality(Workers)

\* FewAttempts of the windows that are over.
PastWindows ==
    \A t \in Nat : t < now =>
        Tried(t - (Window - Delay) + 1, t) < MaxFailures + Cardinality(Workers)

\* A Retry-After outlasts one of the failures of a full list.
PromiseOK ==
    promise # 0 =>
        \/ Cardinality(failures) < MaxFailures
        \/ \E n \in failures : promise + Second > recorded[n] + Window

\* The inductive invariant.
IInv ==
    /\ TypeOK
    /\ ClockOK
    /\ InOrder
    /\ Short
    /\ Held
    /\ FewToCome
    /\ PastWindows
    /\ PromiseOK

-----------------------------------------------------------------------------
(* Finite sets.                                                             *)

LEMMA Parameters ==
    /\ MaxFailures \in Nat /\ MaxFailures >= 1
    /\ Window \in Nat /\ Second \in Nat /\ Second >= 1
    /\ Delay \in Nat /\ Delay < Window
    /\ IsFiniteSet(Workers) /\ Cardinality(Workers) \in Nat /\ Cardinality(Workers) >= 1
<1>1. Cardinality(Workers) \in Nat /\ Cardinality(Workers) # 0
    BY LimiterAssumption, FS_CardinalityType, FS_EmptySet
<1> QED
    BY <1>1, LimiterAssumption

\* Places and workers are finitely many.
LEMMA PlacesFinite ==
    ASSUME TypeOK, NEW S \in SUBSET DOMAIN recorded
    PROVE  IsFiniteSet(S) /\ Cardinality(S) \in Nat /\ S \subseteq Nat
<1>1. DOMAIN recorded = 1..Len(recorded) /\ Len(recorded) \in Nat
    BY DEF TypeOK
<1>2. IsFiniteSet(DOMAIN recorded)
    BY <1>1, FS_Interval
<1> QED
    BY <1>1, <1>2, FS_Subset, FS_CardinalityType

LEMMA WorkersFinite ==
    ASSUME NEW S \in SUBSET Workers
    PROVE  IsFiniteSet(S) /\ Cardinality(S) \in Nat /\ Cardinality(S) <= Cardinality(Workers)
    BY Parameters, FS_Subset, FS_CardinalityType

LEMMA Least ==
    ASSUME NEW S \in SUBSET Nat, S # {}
    PROVE  \E f \in S : \A n \in S : f <= n
<1>1. PICK f \in S : \A n \in S : ~(<<n, f>> \in OpToRel(<, Nat))
    BY NatLessThanWellFounded, WFMin
<1>2. \A n \in S : ~(n < f)
    BY <1>1 DEF OpToRel
<1> QED
    BY <1>2

LEMMA FirstIsLeast ==
    ASSUME NEW S \in SUBSET Nat, S # {}
    PROVE  First(S) \in S /\ \A n \in S : First(S) <= n
    BY Least DEF First

\* recent[-max_failures:] drops the first place at most, if there is one more than the limit.
LEMMA Kept ==
    ASSUME NEW S \in SUBSET Nat, IsFiniteSet(S), Cardinality(S) <= MaxFailures + 1
    PROVE  \/ Keep(S) = S /\ Cardinality(S) <= MaxFailures
           \/ /\ Cardinality(Keep(S)) = MaxFailures
              /\ \E f \in S : Keep(S) = S \ {f} /\ \A n \in S : f <= n
<1> DEFINE Later(n) == {m \in S : m > n}
<1>1. Cardinality(S) \in Nat /\ MaxFailures \in Nat
    BY Parameters, FS_CardinalityType
<1>2. Keep(S) = {n \in S : Cardinality(Later(n)) < MaxFailures}
    BY DEF Keep
<1>3. \A n \in S : Later(n) \in SUBSET (S \ {n})
    OBVIOUS
<1>4. \A n \in S : IsFiniteSet(S \ {n}) /\ Cardinality(S \ {n}) = Cardinality(S) - 1
    BY FS_RemoveElement
<1> HIDE DEF Later
<1>5. \A n \in S : Cardinality(Later(n)) \in Nat /\ Cardinality(Later(n)) <= Cardinality(S) - 1
  <2> SUFFICES ASSUME NEW n \in S
               PROVE  Cardinality(Later(n)) \in Nat /\ Cardinality(Later(n)) <= Cardinality(S) - 1
      OBVIOUS
  <2>1. IsFiniteSet(Later(n)) /\ Cardinality(Later(n)) <= Cardinality(S \ {n})
      BY <1>3, <1>4, FS_Subset
  <2> QED
      BY <1>4, <2>1, FS_CardinalityType
<1>6. CASE Cardinality(S) <= MaxFailures
  <2>1. \A n \in S : Cardinality(Later(n)) < MaxFailures
      BY <1>1, <1>5, <1>6
  <2> QED
      BY <1>2, <1>6, <2>1
<1>7. CASE Cardinality(S) = MaxFailures + 1
  <2>1. S # {}
      BY <1>1, <1>7, FS_EmptySet
  <2>2. PICK f \in S : \A n \in S : f <= n
      BY <2>1, Least
  <2>3. Cardinality(Later(f)) = MaxFailures
    <3>1. \A n \in S : n > f <=> n # f
      <4> SUFFICES ASSUME NEW n \in S PROVE n > f <=> n # f
          OBVIOUS
      <4>1. n \in Nat /\ f \in Nat /\ f <= n
          BY <2>2
      <4> QED
          BY <4>1
    <3>2. Later(f) = S \ {f}
        BY <3>1 DEF Later
    <3> QED
        BY <3>2, <1>1, <1>4, <1>7
  <2>4. ASSUME NEW n \in S, n # f PROVE Cardinality(Later(n)) < MaxFailures
    <3>1. Later(n) \in SUBSET ((S \ {n}) \ {f})
        BY <2>2, <2>4 DEF Later
    <3>2. IsFiniteSet((S \ {n}) \ {f}) /\ Cardinality((S \ {n}) \ {f}) = MaxFailures - 1
      <4>1. Cardinality((S \ {n}) \ {f}) = Cardinality(S \ {n}) - 1 /\ IsFiniteSet((S \ {n}) \ {f})
          BY <1>4, <2>4, FS_RemoveElement
      <4> QED
          BY <4>1, <1>1, <1>4, <1>7
    <3>3. Cardinality(Later(n)) <= MaxFailures - 1
        BY <3>1, <3>2, FS_Subset
    <3> QED
        BY <3>3, <1>1, <1>5
  <2>5. Keep(S) = S \ {f}
    <3>1. f \notin Keep(S)
        BY <1>1, <1>2, <2>3
    <3>2. \A n \in S : n # f => n \in Keep(S)
        BY <1>2, <2>4
    <3>3. Keep(S) \subseteq S
        BY <1>2
    <3> QED
        BY <3>1, <3>2, <3>3
  <2> QED
      BY <2>2, <2>5, <1>1, <1>4, <1>7
<1> QED
    BY <1>1, <1>6, <1>7

\* What moves from one set to another is counted once.
LEMMA Moves ==
    ASSUME NEW A, NEW B, NEW A2, NEW B2, IsFiniteSet(A), IsFiniteSet(B),
           \/ A2 \subseteq A /\ B2 \subseteq B
           \/ \E x, y : y \in B /\ A2 \subseteq A \union {x} /\ B2 \subseteq B \ {y}
    PROVE  /\ Cardinality(A2) \in Nat /\ Cardinality(B2) \in Nat
           /\ Cardinality(A2) + Cardinality(B2) <= Cardinality(A) + Cardinality(B)
<1>1. Cardinality(A) \in Nat /\ Cardinality(B) \in Nat
    BY FS_CardinalityType
<1>2. CASE A2 \subseteq A /\ B2 \subseteq B
  <2>1. /\ IsFiniteSet(A2) /\ Cardinality(A2) <= Cardinality(A)
        /\ IsFiniteSet(B2) /\ Cardinality(B2) <= Cardinality(B)
      BY <1>2, FS_Subset
  <2> QED
      BY <1>1, <2>1, FS_CardinalityType
<1>3. CASE \E x, y : y \in B /\ A2 \subseteq A \union {x} /\ B2 \subseteq B \ {y}
  <2>1. PICK x, y : y \in B /\ A2 \subseteq A \union {x} /\ B2 \subseteq B \ {y}
      BY <1>3
  <2>2. /\ IsFiniteSet(A \union {x}) /\ Cardinality(A \union {x}) \in Nat
        /\ Cardinality(A \union {x}) <= Cardinality(A) + 1
    <3>1. IsFiniteSet(A \union {x})
        BY FS_AddElement
    <3>2. Cardinality(A \union {x}) = Cardinality(A) \/ Cardinality(A \union {x}) = Cardinality(A) + 1
        BY FS_AddElement
    <3> QED
        BY <1>1, <3>1, <3>2
  <2>3. IsFiniteSet(B \ {y}) /\ Cardinality(B \ {y}) = Cardinality(B) - 1
      BY <2>1, FS_RemoveElement
  <2>4. /\ IsFiniteSet(A2) /\ Cardinality(A2) <= Cardinality(A \union {x})
        /\ IsFiniteSet(B2) /\ Cardinality(B2) <= Cardinality(B \ {y})
      BY <2>1, <2>2, <2>3, FS_Subset
  <2>5. Cardinality(A2) \in Nat /\ Cardinality(B2) \in Nat
      BY <2>4, FS_CardinalityType
  <2> QED
      BY <1>1, <2>2, <2>3, <2>4, <2>5
<1> QED
    BY <1>2, <1>3

-----------------------------------------------------------------------------
(* Windows.                                                                 *)

LEMMA FromFinite ==
    ASSUME TypeOK, NEW a
    PROVE  /\ From(a) \in SUBSET DOMAIN recorded /\ IsFiniteSet(From(a))
           /\ Cardinality(From(a)) \in Nat
    BY PlacesFinite DEF From

LEMMA BusyFinite ==
    ASSUME NEW a
    PROVE  /\ Busy(a) \in SUBSET Workers /\ IsFiniteSet(Busy(a))
           /\ Cardinality(Busy(a)) \in Nat /\ Cardinality(Busy(a)) <= Cardinality(Workers)
<1>1. Busy(a) \in SUBSET Workers
    BY DEF Busy
<1> QED
    BY <1>1, WorkersFinite

Recorded(from, to) == {n \in DOMAIN recorded : recorded[n] \in from..to}

Recording(from, to) == {w \in Workers : pc[w] = "recording" /\ stamp[w] \in from..to}

LEMMA TriedCounts ==
    ASSUME TypeOK, NEW from, NEW to
    PROVE  /\ Tried(from, to) = Cardinality(Recorded(from, to)) + Cardinality(Recording(from, to))
           /\ IsFiniteSet(Recorded(from, to)) /\ Cardinality(Recorded(from, to)) \in Nat
           /\ IsFiniteSet(Recording(from, to)) /\ Cardinality(Recording(from, to)) \in Nat
           /\ Cardinality(Recording(from, to)) <= Cardinality(Workers)
<1>1. Recorded(from, to) \in SUBSET DOMAIN recorded /\ Recording(from, to) \in SUBSET Workers
    BY DEF Recorded, Recording
<1> QED
    BY <1>1, PlacesFinite, WorkersFinite DEF Tried, Recorded, Recording

\* What has not happened in a window that is open or to come is counted by FewToCome.
LEMMA WindowsToCome ==
    ASSUME TypeOK, ClockOK, FewToCome, NEW t \in Nat, t >= now
    PROVE  Tried(t - (Window - Delay) + 1, t) < MaxFailures + Cardinality(Workers)
<1> DEFINE from == t - (Window - Delay) + 1
<1>1. /\ from \in Int /\ now \in Nat
      /\ \A n \in DOMAIN recorded : recorded[n] \in Nat /\ recorded[n] <= now
      /\ \A w \in Workers : stamp[w] \in Nat /\ stamp[w] <= now
    BY Parameters DEF TypeOK, ClockOK
<1>2. CASE from > now
  <2>1. Recorded(from, t) = {}
      BY <1>1, <1>2 DEF Recorded
  <2>2. Recording(from, t) = {}
      BY <1>1, <1>2 DEF Recording
  <2> QED
      BY <2>1, <2>2, TriedCounts, FS_EmptySet, Parameters
<1>3. CASE from <= now
  <2> DEFINE a == IF from < 0 THEN 0 ELSE from
  <2>1. a \in Nat /\ Open(a)
      BY <1>1, <1>3, Parameters DEF Open
  <2>2. Recorded(from, t) \in SUBSET From(a)
      BY <1>1 DEF Recorded, From
  <2>3. Recording(from, t) \in SUBSET Busy(a)
      BY <1>1 DEF Recording, Busy
  <2> HIDE DEF a, from
  <2>4. /\ Cardinality(Recorded(from, t)) <= Cardinality(From(a))
        /\ Cardinality(Recording(from, t)) <= Cardinality(Busy(a))
      BY <2>2, <2>3, FromFinite, BusyFinite, FS_Subset
  <2>5. Cardinality(From(a)) + Cardinality(Busy(a)) < MaxFailures + Cardinality(Workers)
      BY <2>1 DEF FewToCome
  <2>6. Tried(from, t) < MaxFailures + Cardinality(Workers)
      BY <2>4, <2>5, TriedCounts, FromFinite, BusyFinite, Parameters
  <2> QED
      BY <2>6 DEF from
<1> QED
    BY <1>1, <1>2, <1>3

LEMMA AllWindows ==
    ASSUME TypeOK, ClockOK, FewToCome, PastWindows, NEW t \in Nat
    PROVE  Tried(t - (Window - Delay) + 1, t) < MaxFailures + Cardinality(Workers)
<1>1. now \in Nat
    BY DEF TypeOK
<1>2. CASE t >= now
    BY <1>2, WindowsToCome
<1>3. CASE t < now
    BY <1>3 DEF PastWindows
<1> QED
    BY <1>1, <1>2, <1>3

-----------------------------------------------------------------------------
(* The clock and the list.                                                  *)

LEMMA RecentType ==
    ASSUME TypeOK, NEW t
    PROVE  /\ Recent(t) \subseteq failures /\ Recent(t) \in SUBSET DOMAIN recorded
           /\ IsFiniteSet(Recent(t)) /\ Cardinality(Recent(t)) \in Nat
           /\ Recent(t) \subseteq Nat
           /\ IsFiniteSet(failures) /\ Cardinality(failures) \in Nat
           /\ Cardinality(Recent(t)) <= Cardinality(failures)
<1>1. Recent(t) \subseteq failures /\ failures \in SUBSET DOMAIN recorded
    BY DEF TypeOK, Recent
<1>2. Recent(t) \in SUBSET DOMAIN recorded
    BY <1>1
<1> QED
    BY <1>1, <1>2, PlacesFinite, FS_Subset

LEMMA Division ==
    ASSUME NEW x \in Int
    PROVE  x \div Second \in Int /\ (x \div Second) * Second + Second > x
    BY Parameters

LEMMA Product ==
    ASSUME NEW x \in Nat
    PROVE  x * Second \in Nat
    BY Parameters

\* A Retry-After leads beyond the first recent failure, but for the part of a second.
LEMMA RetryAfterEnough ==
    ASSUME TypeOK, NEW t \in Nat, Cardinality(Recent(t)) >= MaxFailures
    PROVE  /\ RetryAfter(t) \in Nat
           /\ \E n \in Recent(t) :
                 t + RetryAfter(t) * Second + Second > recorded[n] + Window
<1> DEFINE f == First(Recent(t))
           left == Window - (t - recorded[f])
           seconds == left \div Second
<1>1. f \in Recent(t)
  <2>1. Recent(t) # {}
      BY FS_EmptySet, Parameters
  <2> QED
      BY <2>1, RecentType, FirstIsLeast
<1>2. f \in DOMAIN recorded /\ recorded[f] \in Nat
    BY <1>1, RecentType DEF TypeOK
<1>3. left \in Int
    BY <1>2, Parameters
<1> HIDE DEF f, left
<1>4. seconds \in Int /\ seconds * Second + Second > left
    BY <1>3, Division
<1>5. RetryAfter(t) = IF seconds < 1 THEN 1 ELSE seconds
    BY DEF RetryAfter, f, left
<1> HIDE DEF seconds
<1>6. RetryAfter(t) \in Nat /\ RetryAfter(t) >= seconds
    BY <1>4, <1>5
<1>7. RetryAfter(t) * Second >= seconds * Second
    BY <1>4, <1>6, Parameters
<1>8. RetryAfter(t) * Second \in Int /\ seconds * Second \in Int
    BY <1>4, <1>6, Parameters
<1>9. t + RetryAfter(t) * Second + Second > t + left
    BY <1>3, <1>4, <1>7, <1>8, Parameters
<1>10. t + left = recorded[f] + Window
    BY <1>2, Parameters DEF left
<1> QED
    BY <1>1, <1>6, <1>9, <1>10

\* What record_failure does to the list.
Listed(w) == Recent(stamp[w]) \union {Len(recorded) + 1}

LEMMA Records ==
    ASSUME TypeOK, Short, NEW w \in Workers, RecordFailure(w)
    PROVE  /\ Len(recorded) \in Nat /\ DOMAIN recorded = 1..Len(recorded)
           /\ DOMAIN recorded' = 1..(Len(recorded) + 1)
           /\ recorded'[Len(recorded) + 1] = stamp[w]
           /\ \A n \in DOMAIN recorded : recorded'[n] = recorded[n]
           /\ Listed(w) \in SUBSET Nat /\ IsFiniteSet(Listed(w))
           /\ Cardinality(Listed(w)) = Cardinality(Recent(stamp[w])) + 1
           /\ Cardinality(Listed(w)) <= MaxFailures + 1
           /\ failures' = Keep(Listed(w))
           /\ failures' \subseteq Listed(w) /\ failures' \subseteq DOMAIN recorded'
<1>1. recorded \in Seq(Nat) /\ stamp[w] \in Nat /\ recorded' = Append(recorded, stamp[w])
    BY DEF TypeOK, RecordFailure
<1>2. /\ Len(recorded) \in Nat /\ DOMAIN recorded = 1..Len(recorded)
      /\ DOMAIN recorded' = 1..(Len(recorded) + 1)
      /\ recorded'[Len(recorded) + 1] = stamp[w]
      /\ \A n \in DOMAIN recorded : recorded'[n] = recorded[n]
    BY <1>1
<1>3. Len(recorded) + 1 \notin Recent(stamp[w])
    BY <1>2, RecentType
<1>4. IsFiniteSet(Listed(w)) /\ Cardinality(Listed(w)) = Cardinality(Recent(stamp[w])) + 1
    BY <1>3, RecentType, FS_AddElement DEF Listed
<1>5. Cardinality(Listed(w)) <= MaxFailures + 1
    BY <1>4, RecentType, Parameters DEF Short
<1>6. Listed(w) \in SUBSET Nat /\ Listed(w) \subseteq DOMAIN recorded'
    BY <1>2, RecentType DEF Listed
<1>7. failures' = Keep(Listed(w)) /\ Keep(Listed(w)) \subseteq Listed(w)
    BY DEF RecordFailure, Keep, Listed
<1> QED
    BY <1>2, <1>4, <1>5, <1>6, <1>7

LEMMA TypeStep ==
    ASSUME TypeOK, Short, Next
    PROVE  TypeOK'
<1> USE DEF TypeOK, Go
<1>1. CASE Tick
    BY <1>1 DEF Tick
<1>2. ASSUME NEW w \in Workers, StartLogin(w) PROVE TypeOK'
    BY <1>2 DEF StartLogin
<1>3. ASSUME NEW w \in Workers, Allow(w) PROVE TypeOK'
    BY <1>3, RecentType DEF Allow
<1>4. ASSUME NEW w \in Workers, Deny(w) PROVE TypeOK'
  <2>1. RetryAfter(stamp[w]) \in Nat /\ stamp[w] \in Nat /\ now \in Nat
      BY <1>4, RetryAfterEnough DEF Deny
  <2>2. RetryAfter(stamp[w]) * Second \in Nat
      BY <2>1, Product
  <2> QED
      BY <1>4, <2>1, <2>2, RecentType DEF Deny
<1>5. ASSUME NEW w \in Workers, VerifyWrong(w) PROVE TypeOK'
    BY <1>5 DEF VerifyWrong
<1>6. ASSUME NEW w \in Workers, RecordFailure(w) PROVE TypeOK'
  <2>1. recorded' \in Seq(Nat)
      BY <1>6 DEF RecordFailure
  <2>2. failures' \subseteq DOMAIN recorded'
      BY <1>6, Records
  <2> QED
      BY <1>6, <2>1, <2>2 DEF RecordFailure
<1>7. ASSUME NEW w \in Workers, VerifyRight(w) PROVE TypeOK'
    BY <1>7 DEF VerifyRight
<1>8. ASSUME NEW w \in Workers, Reset(w) PROVE TypeOK'
    BY <1>8 DEF Reset
<1> QED
    BY <1>1, <1>2, <1>3, <1>4, <1>5, <1>6, <1>7, <1>8 DEF Next

LEMMA ClockStep ==
    ASSUME TypeOK, Short, ClockOK, Next
    PROVE  ClockOK'
<1> USE DEF TypeOK, ClockOK, Go
<1>1. CASE Tick
    BY <1>1, Parameters DEF Tick
<1>2. ASSUME NEW w \in Workers, StartLogin(w) PROVE ClockOK'
    BY <1>2, Parameters DEF StartLogin
<1>3. ASSUME NEW w \in Workers, Allow(w) \/ Deny(w) PROVE ClockOK'
    BY <1>3 DEF Allow, Deny
<1>5. ASSUME NEW w \in Workers, VerifyWrong(w) PROVE ClockOK'
    BY <1>5, Parameters DEF VerifyWrong
<1>6. ASSUME NEW w \in Workers, RecordFailure(w) PROVE ClockOK'
  <2>1. \A n \in DOMAIN recorded' : recorded'[n] <= now'
      BY <1>6, Records DEF RecordFailure
  <2> QED
      BY <1>6, <2>1 DEF RecordFailure
<1>7. ASSUME NEW w \in Workers, VerifyRight(w) PROVE ClockOK'
    BY <1>7 DEF VerifyRight
<1>8. ASSUME NEW w \in Workers, Reset(w) PROVE ClockOK'
    BY <1>8 DEF Reset
<1> QED
    BY <1>1, <1>2, <1>3, <1>5, <1>6, <1>7, <1>8 DEF Next

\* What all the actions but two leave alone.
LEMMA RecordedSame ==
    ASSUME Next
    PROVE  \/ recorded' = recorded
           \/ \E w \in Workers : RecordFailure(w) \/ Reset(w)
    BY DEF Next, Tick, StartLogin, Allow, Deny, VerifyWrong, VerifyRight

LEMMA OrderStep ==
    ASSUME TypeOK, Short, ClockOK, InOrder, Next
    PROVE  InOrder'
<1>1. CASE recorded' = recorded
    BY <1>1 DEF InOrder
<1>2. ASSUME NEW w \in Workers, RecordFailure(w) PROVE InOrder'
  <2>1. \A n \in DOMAIN recorded : recorded[n] \in Nat /\ recorded[n] <= stamp[w] + Delay
    <3>1. now <= stamp[w] + Delay /\ stamp[w] \in Nat /\ now \in Nat
        BY <1>2 DEF ClockOK, TypeOK, RecordFailure
    <3> QED
        BY <3>1, Parameters DEF ClockOK, TypeOK
  <2>2. SUFFICES ASSUME NEW m \in DOMAIN recorded', NEW n \in DOMAIN recorded', m < n
                 PROVE  recorded'[m] <= recorded'[n] + Delay
      BY DEF InOrder
  <2>3. m \in DOMAIN recorded /\ recorded'[m] = recorded[m]
      BY <1>2, <2>2, Records
  <2>4. CASE n \in DOMAIN recorded
      BY <1>2, <2>2, <2>3, <2>4, Records DEF InOrder
  <2>5. CASE n = Len(recorded) + 1
      BY <1>2, <2>1, <2>3, <2>5, Records
  <2> QED
      BY <1>2, <2>4, <2>5, Records
<1>3. ASSUME NEW w \in Workers, Reset(w) PROVE InOrder'
    BY <1>3 DEF Reset, InOrder
<1> QED
    BY <1>1, <1>2, <1>3, RecordedSame

LEMMA ShortStep ==
    ASSUME TypeOK, Short, Next
    PROVE  Short'
<1>1. CASE failures' = failures
    BY <1>1 DEF Short
<1>2. ASSUME NEW w \in Workers, Allow(w) \/ Deny(w) PROVE Short'
  <2>1. failures' = Recent(stamp[w])
      BY <1>2 DEF Allow, Deny
  <2> QED
      BY <2>1, RecentType, Parameters DEF Short
<1>3. ASSUME NEW w \in Workers, RecordFailure(w) PROVE Short'
  <2>1. /\ Listed(w) \in SUBSET Nat /\ IsFiniteSet(Listed(w))
        /\ Cardinality(Listed(w)) <= MaxFailures + 1 /\ failures' = Keep(Listed(w))
      BY <1>3, Records
  <2> HIDE DEF Listed
  <2>2. Cardinality(Keep(Listed(w))) <= MaxFailures
      BY <2>1, Kept, Parameters
  <2> QED
      BY <2>1, <2>2 DEF Short
<1>4. ASSUME NEW w \in Workers, Reset(w) PROVE Short'
    BY <1>4, FS_EmptySet, Parameters DEF Short, Reset
<1> QED
    BY <1>1, <1>2, <1>3, <1>4 DEF Next, Tick, StartLogin, VerifyWrong, VerifyRight

-----------------------------------------------------------------------------
(* What the list holds.                                                     *)

\* Whoever takes the lock in an open window finds its failures recent.
LEMMA RecentHolds ==
    ASSUME TypeOK, ClockOK, Held, NEW w \in Workers, NEW a \in Nat, Open(a)
    PROVE  \/ From(a) \subseteq Recent(stamp[w])
           \/ /\ Recent(stamp[w]) = failures /\ Cardinality(failures) >= MaxFailures
              /\ \A n \in failures : recorded[n] >= a - Delay
<1>1. now \in Nat /\ stamp[w] \in Nat /\ stamp[w] <= now /\ now - a < Window - Delay
    BY DEF TypeOK, ClockOK, Open
<1>2. \A n \in failures : recorded[n] \in Nat
    BY DEF TypeOK
<1>3. ASSUME NEW n \in failures, recorded[n] >= a - Delay
      PROVE  n \in Recent(stamp[w])
    BY <1>1, <1>2, <1>3, Parameters DEF Recent
<1>4. CASE From(a) \subseteq failures
  <2>1. \A n \in From(a) : n \in failures /\ recorded[n] >= a - Delay
      BY <1>2, <1>4, Parameters DEF From
  <2> QED
      BY <1>3, <2>1
<1>5. CASE Cardinality(failures) >= MaxFailures /\ \A n \in failures : recorded[n] >= a - Delay
  <2>1. failures \subseteq Recent(stamp[w])
      BY <1>3, <1>5
  <2> QED
      BY <1>5, <2>1, RecentType
<1> QED
    BY <1>4, <1>5 DEF Held

\* So whoever is let in finds less than the limit in it.
LEMMA AllowFinds ==
    ASSUME TypeOK, ClockOK, Held, NEW w \in Workers, NEW a \in Nat, Open(a), Allow(w)
    PROVE  From(a) \subseteq Recent(stamp[w]) /\ Cardinality(From(a)) < MaxFailures
<1>1. Cardinality(Recent(stamp[w])) < MaxFailures
    BY DEF Allow
<1>2. From(a) \subseteq Recent(stamp[w])
    BY <1>1, RecentHolds, RecentType, Parameters
<1>3. Cardinality(From(a)) <= Cardinality(Recent(stamp[w]))
    BY <1>2, RecentType, FS_Subset
<1> QED
    BY <1>1, <1>2, <1>3, RecentType, FromFinite, Parameters

\* Only the tick opens a window, in which nothing has been recorded yet.
LEMMA TickOpens ==
    ASSUME TypeOK, ClockOK, Tick, NEW a \in Nat, Open(a)'
    PROVE  /\ From(a)' = From(a) /\ Busy(a)' = Busy(a)
           /\ Open(a) \/ From(a) = {}
<1>1. now \in Nat /\ now' = now + 1 /\ recorded' = recorded /\ pc' = pc /\ stamp' = stamp
    BY DEF TypeOK, Tick
<1>2. From(a)' = From(a) /\ Busy(a)' = Busy(a)
    BY <1>1 DEF From, Busy
<1>3. CASE a <= now
  <2>1. now' - a < Window - Delay
      BY DEF Open
  <2>2. Open(a)
      BY <1>1, <1>3, <2>1, Parameters DEF Open
  <2> QED
      BY <1>2, <2>2
<1>4. CASE a > now
  <2>1. From(a) = {}
      BY <1>1, <1>4 DEF From, ClockOK, TypeOK
  <2> QED
      BY <1>2, <2>1
<1> QED
    BY <1>1, <1>3, <1>4

LEMMA HeldStep ==
    ASSUME TypeOK, ClockOK, InOrder, Short, Held, Next, InOrder'
    PROVE  Held'
<1> SUFFICES ASSUME NEW a \in Nat, Open(a)'
             PROVE  \/ From(a)' \subseteq failures'
                    \/ /\ Cardinality(failures') >= MaxFailures
                       /\ \A n \in failures' : recorded'[n] >= a - Delay
    BY DEF Held
<1> DEFINE Goal == \/ From(a)' \subseteq failures'
                   \/ /\ Cardinality(failures') >= MaxFailures
                      /\ \A n \in failures' : recorded'[n] >= a - Delay
<1> SUFFICES Goal
    OBVIOUS
<1>1. CASE Tick
  <2>1. recorded' = recorded /\ failures' = failures
      BY <1>1 DEF Tick
  <2> QED
      BY <1>1, <2>1, TickOpens DEF Held
<1>2. CASE recorded' = recorded /\ failures' = failures /\ now' = now
  <2>1. Open(a) /\ From(a)' = From(a)
      BY <1>2 DEF Open, From
  <2> QED
      BY <1>2, <2>1 DEF Held
<1>3. ASSUME NEW w \in Workers, Allow(w) \/ Deny(w) PROVE Goal
  <2>1. recorded' = recorded /\ failures' = Recent(stamp[w]) /\ now' = now
      BY <1>3 DEF Allow, Deny
  <2>2. Open(a) /\ From(a)' = From(a)
      BY <2>1 DEF Open, From
  <2> QED
      BY <2>1, <2>2, RecentHolds
<1>4. ASSUME NEW w \in Workers, RecordFailure(w) PROVE Goal
  <2> DEFINE S == Listed(w)
             L == Len(recorded)
  <2>1. /\ L \in Nat /\ DOMAIN recorded = 1..L /\ DOMAIN recorded' = 1..(L + 1)
        /\ recorded'[L + 1] = stamp[w]
        /\ \A n \in DOMAIN recorded : recorded'[n] = recorded[n]
        /\ S \in SUBSET Nat /\ IsFiniteSet(S) /\ Cardinality(S) <= MaxFailures + 1
        /\ Cardinality(S) = Cardinality(Recent(stamp[w])) + 1
        /\ failures' = Keep(S) /\ failures' \subseteq S /\ failures' \subseteq DOMAIN recorded'
      BY <1>4, Records
  <2>2. Open(a)
      BY <1>4 DEF Open, RecordFailure
  <2>3. /\ now \in Nat /\ stamp[w] \in Nat /\ a <= now /\ now <= stamp[w] + Delay
        /\ \A n \in DOMAIN recorded' : recorded'[n] \in Nat
    <3>1. recorded' \in Seq(Nat)
        BY <1>4, TypeStep DEF Next, TypeOK
    <3> QED
        BY <1>4, <2>2, <3>1 DEF TypeOK, ClockOK, Open, RecordFailure
  <2>4. S = Recent(stamp[w]) \union {L + 1}
      BY DEF Listed
  <2> HIDE DEF S
  <2>5. CASE From(a) \subseteq Recent(stamp[w])
    <3>1. From(a)' \subseteq S
        BY <2>1, <2>4, <2>5 DEF From
    <3>2. CASE Keep(S) = S
        BY <2>1, <3>1, <3>2
    <3>3. CASE /\ Cardinality(Keep(S)) = MaxFailures
               /\ \E f \in S : Keep(S) = S \ {f} /\ \A n \in S : f <= n
      <4>1. PICK f \in S : Keep(S) = S \ {f} /\ \A n \in S : f <= n
          BY <3>3
      <4>2. CASE f \notin From(a)'
          BY <2>1, <3>1, <4>1, <4>2
      <4>3. CASE f \in From(a)'
        <5>1. f \in DOMAIN recorded' /\ recorded'[f] >= a
            BY <4>3 DEF From
        <5>2. ASSUME NEW n \in failures' PROVE recorded'[n] >= a - Delay
          <6>1. n \in S /\ n # f /\ n \in Nat /\ f \in Nat /\ f <= n
              BY <2>1, <4>1, <5>2
          <6>2. f < n
              BY <6>1
          <6>3. recorded'[f] <= recorded'[n] + Delay
              BY <2>1, <5>1, <5>2, <6>2 DEF InOrder
          <6> QED
              BY <2>1, <2>3, <5>1, <5>2, <6>3, Parameters
        <5> QED
            BY <2>1, <3>3, <5>2, Parameters
      <4> QED
          BY <4>2, <4>3
    <3> QED
        BY <2>1, <3>2, <3>3, Kept
  <2>6. CASE /\ Recent(stamp[w]) = failures /\ Cardinality(failures) >= MaxFailures
             /\ \A n \in failures : recorded[n] >= a - Delay
    <3>1. Cardinality(failures') >= MaxFailures
        BY <2>1, <2>6, Kept, RecentType, Parameters
    <3>2. ASSUME NEW n \in failures' PROVE recorded'[n] >= a - Delay
      <4>1. CASE n \in failures
          BY <2>1, <2>6, <4>1 DEF TypeOK
      <4>2. CASE n = L + 1
          BY <2>1, <2>3, <4>2, Parameters
      <4> QED
          BY <2>1, <2>4, <2>6, <4>1, <4>2
    <3> QED
        BY <3>1, <3>2
  <2> QED
      BY <2>2, <2>5, <2>6, RecentHolds
<1>5. ASSUME NEW w \in Workers, Reset(w) PROVE Goal
  <2>1. From(a)' = {}
      BY <1>5 DEF From, Reset
  <2> QED
      BY <2>1
<1> QED
    BY <1>1, <1>2, <1>3, <1>4, <1>5 DEF Next, StartLogin, VerifyWrong, VerifyRight

-----------------------------------------------------------------------------
(* What may still be recorded.                                              *)

LEMMA ToComeStep ==
    ASSUME TypeOK, ClockOK, Short, Held, FewToCome, Next
    PROVE  FewToCome'
<1> SUFFICES ASSUME NEW a \in Nat, Open(a)'
             PROVE  Cardinality(From(a)') + Cardinality(Busy(a)') < MaxFailures + Cardinality(Workers)
    BY DEF FewToCome
<1> DEFINE Goal ==
        Cardinality(From(a)') + Cardinality(Busy(a)') < MaxFailures + Cardinality(Workers)
<1> SUFFICES Goal
    OBVIOUS
<1>a. /\ IsFiniteSet(From(a)) /\ Cardinality(From(a)) \in Nat
      /\ IsFiniteSet(Busy(a)) /\ Cardinality(Busy(a)) \in Nat
      /\ Cardinality(Busy(a)) <= Cardinality(Workers)
    BY FromFinite, BusyFinite
<1>b. Open(a) => Cardinality(From(a)) + Cardinality(Busy(a)) < MaxFailures + Cardinality(Workers)
    BY DEF FewToCome
<1>c. Cardinality(Busy(a)') \in Nat /\ Cardinality(Busy(a)') <= Cardinality(Workers)
  <2>1. Busy(a)' \in SUBSET Workers
      BY DEF Busy
  <2> QED
      BY <2>1, WorkersFinite
<1>d. ASSUME Open(a),
             \/ From(a)' \subseteq From(a) /\ Busy(a)' \subseteq Busy(a)
             \/ \E x, y : /\ y \in Busy(a) /\ From(a)' \subseteq From(a) \union {x}
                          /\ Busy(a)' \subseteq Busy(a) \ {y}
      PROVE  Goal
  <2> HIDE DEF Goal
  <2>1. /\ Cardinality(From(a)') \in Nat /\ Cardinality(Busy(a)') \in Nat
        /\ Cardinality(From(a)') + Cardinality(Busy(a)') <= Cardinality(From(a)) + Cardinality(Busy(a))
      BY <1>a, <1>d, Moves
  <2> QED
      BY <1>a, <1>b, <1>d, <2>1, Parameters DEF Goal
<1>e. ASSUME Cardinality(From(a)') \in Nat, Cardinality(From(a)') < MaxFailures PROVE Goal
    BY <1>c, <1>e, Parameters
<1> HIDE DEF Goal
<1>1. CASE Tick
  <2>1. CASE Open(a)
      BY <1>1, <1>d, <2>1, TickOpens
  <2>2. CASE From(a) = {}
    <3>1. Cardinality(From(a)') = 0
        BY <1>1, <2>2, TickOpens, FS_EmptySet
    <3> QED
        BY <1>e, <3>1, Parameters
  <2> QED
      BY <1>1, <2>1, <2>2, TickOpens
<1>2. ASSUME NEW w \in Workers, StartLogin(w) PROVE Goal
  <2>1. Open(a) /\ From(a)' = From(a)
      BY <1>2 DEF StartLogin, Open, From
  <2>2. Busy(a)' \subseteq Busy(a)
      BY <1>2 DEF StartLogin, Busy, Go, TypeOK
  <2> QED
      BY <1>d, <2>1, <2>2
<1>3. ASSUME NEW w \in Workers, Allow(w) PROVE Goal
  <2>1. Open(a) /\ From(a)' = From(a)
      BY <1>3 DEF Allow, Open, From
  <2> QED
      BY <1>3, <1>a, <1>e, <2>1, AllowFinds
<1>4. ASSUME NEW w \in Workers, Deny(w) PROVE Goal
  <2>1. Open(a) /\ From(a)' = From(a)
      BY <1>4 DEF Deny, Open, From
  <2>2. Busy(a)' \subseteq Busy(a)
      BY <1>4 DEF Deny, Busy, Go, TypeOK
  <2> QED
      BY <1>d, <2>1, <2>2
<1>5. ASSUME NEW w \in Workers, VerifyWrong(w) PROVE Goal
  <2>1. Open(a) /\ From(a)' = From(a)
      BY <1>5 DEF VerifyWrong, Open, From
  <2>2. Busy(a)' \subseteq Busy(a)
      BY <1>5 DEF VerifyWrong, Busy, Go, TypeOK
  <2> QED
      BY <1>d, <2>1, <2>2
<1>6. ASSUME NEW w \in Workers, RecordFailure(w) PROVE Goal
  <2>1. Open(a)
      BY <1>6 DEF RecordFailure, Open
  <2>2. CASE stamp[w] >= a
    <3>1. w \in Busy(a)
        BY <1>6, <2>2 DEF RecordFailure, Busy
    <3>2. From(a)' \subseteq From(a) \union {Len(recorded) + 1}
        BY <1>6, Records DEF From
    <3>3. Busy(a)' \subseteq Busy(a) \ {w}
        BY <1>6 DEF RecordFailure, Busy, Go, TypeOK
    <3> QED
        BY <1>d, <2>1, <3>1, <3>2, <3>3
  <2>3. CASE ~(stamp[w] >= a)
    <3>2. From(a)' \subseteq From(a)
        BY <1>6, <2>3, Records DEF From
    <3>3. Busy(a)' \subseteq Busy(a)
        BY <1>6 DEF RecordFailure, Busy, Go, TypeOK
    <3> QED
        BY <1>d, <2>1, <3>2, <3>3
  <2> QED
      BY <2>2, <2>3
<1>7. ASSUME NEW w \in Workers, VerifyRight(w) PROVE Goal
  <2>1. Open(a) /\ From(a)' = From(a)
      BY <1>7 DEF VerifyRight, Open, From
  <2>2. Busy(a)' \subseteq Busy(a)
      BY <1>7 DEF VerifyRight, Busy, Go, TypeOK
  <2> QED
      BY <1>d, <2>1, <2>2
<1>8. ASSUME NEW w \in Workers, Reset(w) PROVE Goal
  <2>1. From(a)' = {}
      BY <1>8 DEF Reset, From
  <2> QED
      BY <1>e, <2>1, FS_EmptySet, Parameters
<1> QED
    BY <1>1, <1>2, <1>3, <1>4, <1>5, <1>6, <1>7, <1>8 DEF Next

LEMMA PastStep ==
    ASSUME TypeOK, ClockOK, Short, FewToCome, PastWindows, Next
    PROVE  PastWindows'
<1> SUFFICES ASSUME NEW t \in Nat, t < now'
             PROVE  Tried(t - (Window - Delay) + 1, t)' < MaxFailures + Cardinality(Workers)
    BY DEF PastWindows, Tried
<1> DEFINE from == t - (Window - Delay) + 1
           Goal == \/ /\ Recorded(from, t)' \subseteq Recorded(from, t)
                      /\ Recording(from, t)' \subseteq Recording(from, t)
                   \/ \E x, y : /\ y \in Recording(from, t)
                                /\ Recorded(from, t)' \subseteq Recorded(from, t) \union {x}
                                /\ Recording(from, t)' \subseteq Recording(from, t) \ {y}
<1> HIDE DEF from
<1>1. Goal
  <2>1. ASSUME recorded' = recorded PROVE Recorded(from, t)' = Recorded(from, t)
      BY <2>1 DEF Recorded
  <2>2. CASE Tick
      BY <2>1, <2>2 DEF Tick, Recording
  <2>3. ASSUME NEW w \in Workers, StartLogin(w) PROVE Goal
    <3>1. Recording(from, t)' \subseteq Recording(from, t)
        BY <2>3 DEF StartLogin, Recording, Go, TypeOK
    <3> QED
        BY <2>1, <2>3, <3>1 DEF StartLogin
  <2>4. ASSUME NEW w \in Workers, Allow(w) \/ Deny(w) PROVE Goal
    <3>1. Recording(from, t)' \subseteq Recording(from, t)
        BY <2>4 DEF Allow, Deny, Recording, Go, TypeOK
    <3> QED
        BY <2>1, <2>4, <3>1 DEF Allow, Deny
  <2>5. ASSUME NEW w \in Workers, VerifyWrong(w) PROVE Goal
    <3>1. stamp' = [stamp EXCEPT ![w] = now] /\ now > t /\ now \in Nat /\ w \in DOMAIN stamp
        BY <2>5 DEF VerifyWrong, TypeOK
    <3>2. stamp'[w] \notin from..t
        BY <3>1
    <3>3. Recording(from, t)' \subseteq Recording(from, t)
        BY <2>5, <3>1, <3>2 DEF VerifyWrong, Recording, Go, TypeOK
    <3> QED
        BY <2>1, <2>5, <3>3 DEF VerifyWrong
  <2>6. ASSUME NEW w \in Workers, RecordFailure(w) PROVE Goal
    <3>1. Recorded(from, t)' \subseteq Recorded(from, t) \union {Len(recorded) + 1}
        BY <2>6, Records DEF Recorded
    <3>2. Recording(from, t)' \subseteq Recording(from, t) \ {w}
        BY <2>6 DEF RecordFailure, Recording, Go, TypeOK
    <3>3. CASE stamp[w] \in from..t
      <4>1. w \in Recording(from, t)
          BY <2>6, <3>3 DEF RecordFailure, Recording
      <4> QED
          BY <3>1, <3>2, <4>1
    <3>4. CASE stamp[w] \notin from..t
      <4>1. Recorded(from, t)' \subseteq Recorded(from, t)
          BY <2>6, <3>4, Records DEF Recorded
      <4> QED
          BY <3>2, <4>1
    <3> QED
        BY <3>3, <3>4
  <2>7. ASSUME NEW w \in Workers, VerifyRight(w) PROVE Goal
    <3>1. Recording(from, t)' \subseteq Recording(from, t)
        BY <2>7 DEF VerifyRight, Recording, Go, TypeOK
    <3> QED
        BY <2>1, <2>7, <3>1 DEF VerifyRight
  <2>8. ASSUME NEW w \in Workers, Reset(w) PROVE Goal
    <3>1. Recording(from, t)' \subseteq Recording(from, t)
        BY <2>8 DEF Reset, Recording, Go, TypeOK
    <3>2. Recorded(from, t)' = {}
        BY <2>8 DEF Reset, Recorded
    <3> QED
        BY <3>1, <3>2
  <2> QED
      BY <2>2, <2>3, <2>4, <2>5, <2>6, <2>7, <2>8 DEF Next
<1>2. /\ Tried(from, t) = Cardinality(Recorded(from, t)) + Cardinality(Recording(from, t))
      /\ IsFiniteSet(Recorded(from, t)) /\ Cardinality(Recorded(from, t)) \in Nat
      /\ IsFiniteSet(Recording(from, t)) /\ Cardinality(Recording(from, t)) \in Nat
    BY TriedCounts
<1>3. /\ Cardinality(Recorded(from, t)') \in Nat /\ Cardinality(Recording(from, t)') \in Nat
      /\ Cardinality(Recorded(from, t)') + Cardinality(Recording(from, t)')
            <= Cardinality(Recorded(from, t)) + Cardinality(Recording(from, t))
  <2> HIDE DEF Goal
  <2> QED
    BY <1>1, <1>2, Moves DEF Goal
<1>4. Tried(from, t)' = Cardinality(Recorded(from, t)') + Cardinality(Recording(from, t)')
    BY DEF Tried, Recorded, Recording
<1>5. Tried(from, t) < MaxFailures + Cardinality(Workers)
    BY AllWindows DEF from
<1>6. Tried(from, t)' < MaxFailures + Cardinality(Workers)
    BY <1>2, <1>3, <1>4, <1>5, Parameters
<1> QED
    BY <1>6 DEF from, Tried

LEMMA PromiseStep ==
    ASSUME TypeOK, ClockOK, PromiseOK, Next
    PROVE  PromiseOK'
<1>1. CASE UNCHANGED <<recorded, failures, promise>>
    BY <1>1 DEF PromiseOK
<1>2. ASSUME NEW w \in Workers, Allow(w) PROVE PromiseOK'
    BY <1>2 DEF Allow, PromiseOK
<1>3. ASSUME NEW w \in Workers, Deny(w) PROVE PromiseOK'
  <2>1. /\ Cardinality(Recent(stamp[w])) >= MaxFailures /\ failures' = Recent(stamp[w])
        /\ promise' = now + RetryAfter(stamp[w]) * Second /\ recorded' = recorded
      BY <1>3 DEF Deny
  <2>2. stamp[w] \in Nat /\ now \in Nat /\ stamp[w] <= now
      BY DEF TypeOK, ClockOK
  <2>3. /\ RetryAfter(stamp[w]) \in Nat
        /\ \E n \in Recent(stamp[w]) :
              stamp[w] + RetryAfter(stamp[w]) * Second + Second > recorded[n] + Window
      BY <2>1, <2>2, RetryAfterEnough
  <2>4. RetryAfter(stamp[w]) * Second \in Nat
      BY <2>3, Product
  <2>5. PICK n \in Recent(stamp[w]) :
              stamp[w] + RetryAfter(stamp[w]) * Second + Second > recorded[n] + Window
      BY <2>3
  <2>6. recorded[n] \in Nat
      BY <2>5, RecentType DEF TypeOK
  <2>7. promise' + Second > recorded[n] + Window
      BY <2>1, <2>2, <2>4, <2>5, <2>6, Parameters
  <2> QED
      BY <2>1, <2>5, <2>7 DEF PromiseOK
<1>4. ASSUME NEW w \in Workers, RecordFailure(w) \/ Reset(w) PROVE PromiseOK'
    BY <1>4 DEF RecordFailure, Reset, PromiseOK
<1> QED
    BY <1>1, <1>2, <1>3, <1>4 DEF Next, Tick, StartLogin, VerifyWrong, VerifyRight

-----------------------------------------------------------------------------
(* The invariant and what it says.                                          *)

LEMMA InitIInv == Init => IInv
<1> SUFFICES ASSUME Init
             PROVE  IInv
    OBVIOUS
<1>1. TypeOK /\ ClockOK /\ InOrder /\ PastWindows /\ PromiseOK
    BY Parameters DEF Init, TypeOK, ClockOK, InOrder, PastWindows, PromiseOK
<1>2. Short
    BY FS_EmptySet, Parameters DEF Init, Short
<1>3. \A a \in Nat : From(a) = {} /\ Busy(a) = {}
    BY DEF Init, From, Busy
<1>4. Held /\ FewToCome
    BY <1>3, FS_EmptySet, Parameters DEF Held, FewToCome
<1> QED
    BY <1>1, <1>2, <1>4 DEF IInv

LEMMA IInvStep == IInv /\ [Next]_vars => IInv'
<1> SUFFICES ASSUME IInv, [Next]_vars
             PROVE  IInv'
    OBVIOUS
<1>1. CASE Next
  <2>1. TypeOK' /\ Short' /\ ClockOK' /\ InOrder' /\ PromiseOK'
      BY <1>1, TypeStep, ShortStep, ClockStep, OrderStep, PromiseStep DEF IInv
  <2>2. Held' /\ FewToCome' /\ PastWindows'
      BY <1>1, <2>1, HeldStep, ToComeStep, PastStep DEF IInv
  <2> QED
      BY <2>1, <2>2 DEF IInv
<1>2. CASE UNCHANGED vars
    BY <1>2 DEF vars, IInv, TypeOK, ClockOK, InOrder, Short, Held, FewToCome, PastWindows,
        PromiseOK, From, Busy, Open, Tried
<1> QED
    BY <1>1, <1>2

\* The invariant holds of every behaviour of the limiter.
THEOREM Invariant == Spec => []IInv
    BY InitIInv, IInvStep, PTL DEF Spec

LEMMA FewInv == IInv => FewAttempts
<1> SUFFICES ASSUME IInv, NEW t \in Ticks
             PROVE  Tried(t - (Window - Delay) + 1, t) < MaxFailures + Cardinality(Workers)
    BY DEF FewAttempts
<1>1. t \in Nat
    BY LimiterAssumption DEF Ticks
<1> QED
    BY <1>1, AllWindows DEF IInv

\* In no window are more wrong passwords tried than the limit and one for each other worker:
\* retry_after and record_failure hold the lock one at a time, not across the password.
THEOREM AttemptsAreFew == Spec => []FewAttempts
    BY Invariant, FewInv, PTL

\* A full list is recent from end to end when a login is refused, so the promise is not over.
LEMMA DenyInTime ==
    ASSUME TypeOK, Short, PromiseOK, NEW w \in Workers, Deny(w), promise # 0
    PROVE  stamp[w] < promise + Second
<1> SUFFICES ASSUME stamp[w] >= promise + Second
             PROVE  FALSE
    BY Parameters DEF TypeOK
<1>1. /\ Cardinality(Recent(stamp[w])) >= MaxFailures
      /\ Cardinality(failures) >= MaxFailures /\ Cardinality(failures) <= MaxFailures
    BY RecentType, Parameters DEF Deny, Short
<1>2. PICK n \in failures : promise + Second > recorded[n] + Window
    BY <1>1, RecentType, Parameters DEF PromiseOK
<1>3. n \notin Recent(stamp[w])
    BY <1>2, Parameters DEF Recent, TypeOK
<1>4. Recent(stamp[w]) \subseteq failures \ {n}
    BY <1>3, RecentType
<1>5. IsFiniteSet(failures \ {n}) /\ Cardinality(failures \ {n}) = Cardinality(failures) - 1
    BY RecentType, FS_RemoveElement
<1>6. Cardinality(Recent(stamp[w])) <= Cardinality(failures) - 1
    BY <1>4, <1>5, FS_Subset
<1> QED
    BY <1>1, <1>6, RecentType, Parameters

\* Whoever waits a second longer than the last Retry-After of a 429 is not refused again.
THEOREM PromisesAreKept == Spec => PromiseIsKept
<1>1. IInv /\ [Next]_vars =>
          [\A w \in Workers : Deny(w) => promise = 0 \/ stamp[w] < promise + Second]_vars
    BY DenyInTime DEF IInv
<1> QED
    BY <1>1, Invariant, PTL DEF Spec, PromiseIsKept

LEMMA DenyEarned ==
    ASSUME TypeOK, ClockOK, NEW w \in Workers, Deny(w)
    PROVE  Tried(stamp[w] - Window + 1, now) >= MaxFailures
<1> DEFINE from == stamp[w] - Window + 1
<1>1. Recent(stamp[w]) \subseteq Recorded(from, now)
  <2>1. \A n \in DOMAIN recorded : recorded[n] \in Nat /\ recorded[n] <= now
      BY DEF TypeOK, ClockOK
  <2>2. stamp[w] \in Nat /\ now \in Nat
      BY DEF TypeOK
  <2>3. ASSUME NEW n \in Recent(stamp[w]) PROVE n \in Recorded(from, now)
    <3>1. n \in DOMAIN recorded /\ stamp[w] - recorded[n] < Window
        BY RecentType DEF Recent
    <3>2. from <= recorded[n] /\ from \in Int
        BY <2>1, <2>2, <3>1, Parameters
    <3> QED
        BY <2>1, <2>2, <3>1, <3>2 DEF Recorded
  <2> QED
      BY <2>3
<1> HIDE DEF from
<1>2. Cardinality(Recent(stamp[w])) <= Cardinality(Recorded(from, now))
    BY <1>1, TriedCounts, FS_Subset
<1>3. Cardinality(Recent(stamp[w])) >= MaxFailures
    BY DEF Deny
<1>4. Tried(from, now) >= MaxFailures
    BY <1>2, <1>3, TriedCounts, RecentType, Parameters
<1> QED
    BY <1>4 DEF from

\* A 429 answers max_failures wrong passwords within the window, whatever was dropped.
THEOREM DenialsEarned == Spec => DenialsAreEarned
<1>1. IInv /\ [Next]_vars =>
          [\A w \in Workers : Deny(w) => Tried(stamp[w] - Window + 1, now) >= MaxFailures]_vars
    BY DenyEarned DEF IInv
<1> QED
    BY <1>1, Invariant, PTL DEF Spec, DenialsAreEarned
=============================================================================
