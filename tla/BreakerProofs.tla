--------------------------- MODULE BreakerProofs ---------------------------
(***************************************************************************)
(* What Breaker promises, for every set of calls, every set of policies    *)
(* and every window: type correctness, an owner for every raised           *)
(* probe_in_flight, the exclusivity of probes that nobody disturbed, and   *)
(* the rest of a tripped engine.                                           *)
(***************************************************************************)
EXTENDS Breaker, TLAPS

\* The strengthening of RestAfterTrip: what is still owed to an engine that
\* tripped is on the clock, and the gate is Open until it has been paid.
RestOwed ==
  quiet < MinRest => breaker = "Open" /\ quiet + wait >= MinRest

\* The strengthening of ExclusiveUnlessDisturbed: an undisturbed probe still
\* has its flag up.
UndisturbedFlag ==
  ~disturbed => /\ LiveProbes # {} => probeInFlight
                /\ \A c, d \in LiveProbes : c = d

IInv == TypeOK /\ ClaimHasOwner /\ RestOwed /\ UndisturbedFlag

-----------------------------------------------------------------------------
(* The windows.                                                            *)

LEMMA BumpType ==
  ASSUME NEW cap \in Nat, NEW n \in 0..cap
  PROVE  /\ Bump(n, cap) \in 0..cap
         /\ cap > 0 => Bump(n, cap) >= 1
         /\ n < cap => Bump(n, cap) = n + 1
         /\ n = cap => Bump(n, cap) = cap
  BY DEF Bump

\* No kind of error rests the engine for less than MinRest.
LEMMA OpenWindowRests ==
  ASSUME policy \in Policies, NEW kind
  PROVE  OpenWindow(kind) \in Nat /\ OpenWindow(kind) >= MinRest
  BY PolicyAssumption, RestAssumption DEF OpenWindow, PolicyType

\* Neither does a failed probe, however early in the backoff.
LEMMA ProbeRetryRests ==
  ASSUME policy \in Policies, NEW attempt \in 1..BackoffCap, NEW kind,
         NEW w \in ProbeRetryWindows(attempt, kind)
  PROVE  w \in Nat /\ w >= MinRest
<1> DEFINE k == attempt - 1
<1>1. k \in 0..BackoffCap /\ 2^k \in Nat \ {0}
  BY PolicyAssumption, DoublingAssumption
<1>2. /\ policy.probeMin \in Nat /\ policy.probeMax \in Nat
      /\ policy.probeMin <= policy.probeMax
      /\ 4 * MinRest <= 3 * policy.probeMin
  BY PolicyAssumption, RestAssumption DEF PolicyType
<1>3. \A a \in Nat, b \in Nat \ {0} : a * b \in Nat /\ a <= a * b
  OBVIOUS
<1>4. Backoff(attempt) \in Nat /\ policy.probeMin <= Backoff(attempt)
  BY <1>1, <1>2, <1>3 DEF Backoff, Min2
<1>5. PICK v \in Jittered(Backoff(attempt)) : w = Min2(v, OpenWindow(kind))
  BY DEF ProbeRetryWindows
<1>6. v \in Nat /\ 3 * Backoff(attempt) <= 4 * v
  BY <1>4, <1>5 DEF Jittered
<1>7. v >= MinRest
  BY <1>2, <1>4, <1>6, RestAssumption
<1> QED
  BY <1>5, <1>6, <1>7, OpenWindowRests DEF Min2

\* A recorded failure either leaves the gate and its window alone, or trips
\* the breaker for at least MinRest.
LEMMA RecordErrEffect ==
  ASSUME TypeOK, NEW kind, RecordErr(kind)
  PROVE  /\ timeoutStreak' \in 0..StreakCap
         /\ degradedStreak' \in 0..StreakCap
         /\ probeFailures' \in 0..BackoffCap
         /\ probeInFlight' = FALSE
         /\ \/ breaker' = "Open" /\ wait' \in Nat /\ wait' >= MinRest /\ quiet' = 0
            \/ UNCHANGED <<breaker, wait, quiet>>
<1>0. StreakCap \in Nat /\ BackoffCap \in Nat /\ BackoffCap > 0 /\ policy \in Policies
  BY PolicyAssumption DEF TypeOK
<1>1. timeoutStreak' \in 0..StreakCap /\ degradedStreak' \in 0..StreakCap
  BY <1>0, BumpType DEF TypeOK, RecordErr
<1>2. probeInFlight' = FALSE
  BY DEF RecordErr
<1>3. CASE /\ probeInFlight
           /\ probeFailures' = Bump(probeFailures, BackoffCap)
           /\ Trip(ProbeRetryWindows(probeFailures', kind))
  <2>1. probeFailures' \in 1..BackoffCap
    BY <1>0, <1>3, BumpType DEF TypeOK
  <2>2. wait' \in Nat /\ wait' >= MinRest
    BY <1>0, <1>3, <2>1, ProbeRetryRests DEF Trip
  <2> QED
    BY <1>1, <1>2, <1>3, <2>1, <2>2 DEF Trip
<1>4. CASE /\ ~probeInFlight /\ Trips(kind)
           /\ Trip({OpenWindow(kind)})
           /\ UNCHANGED probeFailures
  BY <1>0, <1>1, <1>2, <1>4, OpenWindowRests DEF Trip, TypeOK
<1>5. CASE /\ ~probeInFlight /\ ~Trips(kind)
           /\ UNCHANGED <<breaker, wait, quiet, probeFailures>>
  BY <1>1, <1>2, <1>5 DEF TypeOK
<1> QED
  BY <1>3, <1>4, <1>5 DEF RecordErr

-----------------------------------------------------------------------------
(* The invariant, action by action.                                        *)

\* Where the counters and the history start from.
LEMMA Zeroes ==
  /\ 0 \in 0..StreakCap /\ 0 \in 0..BackoffCap
  /\ 0 \in 0..MinRest /\ MinRest \in 0..MinRest
  BY PolicyAssumption, RestAssumption

LEMMA HistoryType ==
  ASSUME TypeOK PROVE (\A c \in Calls : Settle(c) => disturbed' \in BOOLEAN)
                      /\ (Meddle => disturbed' \in BOOLEAN)
  BY DEF TypeOK, Settle, Meddle

LEMMA InitIInv == Init => IInv
<1> SUFFICES ASSUME Init PROVE IInv
  OBVIOUS
<1>1. wait \in Nat
  BY PolicyAssumption DEF Init, Remaining, PolicyType
<1>2. TypeOK
  <2>2. pc \in [Calls -> {"idle", "calling", "probing", "recorded", "panicked"}]
    BY DEF Init
  <2> QED
    BY <1>1, <2>2, Zeroes DEF Init, TypeOK
<1>3. LiveProbes = {}
  BY DEF Init, LiveProbes
<1> QED
  BY <1>2, <1>3, RestAssumption
  DEF Init, IInv, ClaimHasOwner, RestOwed, UndisturbedFlag

LEMMA StartIInv == ASSUME IInv, NEW c \in Calls, Start(c) PROVE IInv'
<1>1. TypeOK'
  BY DEF IInv, TypeOK, Start, AdmitCall, AdmitProbe, gate, evidence
<1>2. CASE AdmitCall /\ pc' = [pc EXCEPT ![c] = "calling"]
  <2>1. LiveProbes' = LiveProbes
    BY <1>2 DEF IInv, TypeOK, Start, LiveProbes
  <2> QED
    BY <1>1, <1>2, <2>1
    DEF IInv, Start, AdmitCall, gate, evidence, ClaimHasOwner, RestOwed, UndisturbedFlag
<1>3. CASE AdmitProbe /\ pc' = [pc EXCEPT ![c] = "probing"]
  <2>1. LiveProbes' = LiveProbes \cup {c}
    BY <1>3 DEF IInv, TypeOK, Start, LiveProbes
  <2>2. RestOwed'
    BY <1>3, RestAssumption DEF IInv, TypeOK, Start, AdmitProbe, RestOwed
  <2>3. disturbed \/ LiveProbes = {}
    BY <1>3 DEF IInv, AdmitProbe, ClaimHasOwner, UndisturbedFlag
  <2>4. UndisturbedFlag'
    BY <1>3, <2>1, <2>3 DEF Start, AdmitProbe, UndisturbedFlag
  <2>5. ClaimHasOwner'
    BY <1>3, <2>1 DEF AdmitProbe, ClaimHasOwner
  <2> QED
    BY <1>1, <2>2, <2>4, <2>5 DEF IInv
<1> QED
  BY <1>2, <1>3 DEF Start

\* The call c itself records its outcome, and so ends as a probe.
LEMMA SettleIInv ==
  ASSUME IInv, TypeOK', RestOwed', probeInFlight' = FALSE,
         NEW c \in Calls, NEW s \in {"idle", "recorded", "panicked"},
         pc' = [pc EXCEPT ![c] = s], Settle(c)
  PROVE  IInv'
<1>1. LiveProbes' = LiveProbes \ {c}
  BY DEF IInv, TypeOK, LiveProbes
<1> QED
  BY <1>1 DEF IInv, Settle, ClaimHasOwner, UndisturbedFlag

\* Anyone else lowers the flag: a guard drop, a reconcile, the reset route.
LEMMA MeddleIInv ==
  ASSUME IInv, TypeOK', RestOwed', probeInFlight' = FALSE,
         LiveProbes' = LiveProbes, Meddle
  PROVE  IInv'
BY DEF IInv, Meddle, ClaimHasOwner, UndisturbedFlag

LEMMA AnswerIInv == ASSUME IInv, NEW c \in Calls, Answer(c) PROVE IInv'
<1>1. TypeOK'
  BY Zeroes, HistoryType DEF IInv, TypeOK, Answer, RecordOk
<1>2. RestOwed' /\ probeInFlight' = FALSE
  BY RestAssumption DEF Answer, RecordOk, RestOwed
<1> QED
  BY <1>1, <1>2, SettleIInv DEF Answer

\* A failure keeps RestOwed: it trips for long enough, or leaves it alone.
LEMMA RecordErrRests ==
  ASSUME IInv, NEW kind, RecordErr(kind) PROVE RestOwed'
<1>1. CASE wait' \in Nat /\ breaker' = "Open" /\ wait' >= MinRest /\ quiet' = 0
  <2>1. quiet' + wait' >= MinRest
    BY <1>1, SMT
  <2> QED
    BY <1>1, <2>1 DEF RestOwed
<1>2. CASE UNCHANGED <<breaker, wait, quiet>>
  BY <1>2 DEF IInv, RestOwed
<1> QED
  BY <1>1, <1>2, RecordErrEffect DEF IInv

LEMMA FailIInv == ASSUME IInv, NEW c \in Calls, Fail(c) PROVE IInv'
<1>1. PICK kind \in Kinds : RecordErr(kind)
  BY DEF Fail
<1>2. TypeOK'
  BY <1>1, RecordErrEffect, Zeroes, HistoryType DEF IInv, TypeOK, Fail
<1>3. probeInFlight' = FALSE
  BY <1>1, RecordErrEffect DEF IInv
<1>4. RestOwed'
  BY <1>1, RecordErrRests
<1> QED
  BY <1>2, <1>3, <1>4, SettleIInv DEF Fail

LEMMA ReleaseIInv == ASSUME IInv, NEW c \in Calls, Release(c) PROVE IInv'
<1>1. TypeOK' /\ RestOwed' /\ probeInFlight' = FALSE
  BY DEF IInv, TypeOK, Release, ProbeFinished, RestOwed, Meddle, evidence
<1>2. LiveProbes' = LiveProbes
  BY DEF IInv, TypeOK, Release, LiveProbes
<1> QED
  BY <1>1, <1>2, MeddleIInv DEF Release

LEMMA PanicIInv == ASSUME IInv, NEW c \in Calls, Panic(c) PROVE IInv'
<1>1. PICK to \in {"idle", "panicked"} : pc' = [pc EXCEPT ![c] = to]
  BY DEF Panic
<1>2. TypeOK' /\ RestOwed' /\ probeInFlight' = FALSE
  BY <1>1 DEF IInv, TypeOK, Panic, ProbeFinished, RestOwed, Settle, evidence
<1> QED
  BY <1>1, <1>2, SettleIInv DEF Panic

LEMMA ReconcileIInv ==
  ASSUME IInv, NEW c \in Calls, ReconcileUnanswered(c) PROVE IInv'
<1>1. TypeOK'
  BY RecordErrEffect, Zeroes, HistoryType
  DEF IInv, TypeOK, ReconcileUnanswered
<1>3. probeInFlight' = FALSE
  BY RecordErrEffect DEF IInv, ReconcileUnanswered
<1>4. RestOwed'
  BY RecordErrRests DEF ReconcileUnanswered
<1>2. LiveProbes' = LiveProbes
  BY DEF IInv, TypeOK, ReconcileUnanswered, LiveProbes
<1> QED
  BY <1>1, <1>2, <1>3, <1>4, MeddleIInv DEF ReconcileUnanswered

LEMMA ResetIInv == ASSUME IInv, Reset PROVE IInv'
<1>1. TypeOK'
  BY Zeroes, HistoryType DEF IInv, TypeOK, Reset
<1>2. RestOwed' /\ probeInFlight' = FALSE
  BY RestAssumption DEF Reset, RestOwed
<1>3. LiveProbes' = LiveProbes
  BY DEF Reset, LiveProbes
<1> QED
  BY <1>1, <1>2, <1>3, MeddleIInv DEF Reset

LEMMA TickIInv == ASSUME IInv, Tick PROVE IInv'
<1>1. TypeOK' /\ RestOwed'
  BY RestAssumption DEF IInv, TypeOK, Tick, RestOwed, Bump, evidence
<1>2. LiveProbes' = LiveProbes
  BY DEF Tick, LiveProbes
<1> QED
  BY <1>1, <1>2 DEF IInv, Tick, ClaimHasOwner, UndisturbedFlag

\* The steps that touch neither the gate nor a call: a policy swap, the
\* upstream's own turns, and stuttering.
LEMMA QuietIInv ==
  ASSUME IInv, UNCHANGED <<gate, evidence, pc, quiet, disturbed>>,
         policy' \in Policies, healthy' \in BOOLEAN
  PROVE  IInv'
<1>1. LiveProbes' = LiveProbes
  BY DEF LiveProbes
<1> QED
  BY <1>1
  DEF IInv, TypeOK, gate, evidence, ClaimHasOwner, RestOwed, UndisturbedFlag

LEMMA StepIInv == IInv /\ [Next]_vars => IInv'
<1> SUFFICES ASSUME IInv, [Next]_vars PROVE IInv'
  OBVIOUS
<1>1. CASE RequestStart
  BY <1>1, StartIInv DEF RequestStart, Calls
<1>2. CASE ProberClaim
  BY <1>2, StartIInv DEF ProberClaim, Calls
<1>3. ASSUME NEW c \in Calls, Proceed(c) PROVE IInv'
  BY <1>3, AnswerIInv, FailIInv, ReleaseIInv, PanicIInv, ReconcileIInv
  DEF Proceed
<1>4. CASE Reset
  BY <1>4, ResetIInv
<1>5. CASE SetPolicy
  BY <1>5, QuietIInv DEF SetPolicy, IInv, TypeOK
<1>6. CASE UpstreamTurns
  BY <1>6, QuietIInv DEF UpstreamTurns, IInv, TypeOK
<1>7. CASE Tick
  BY <1>7, TickIInv
<1>8. CASE UNCHANGED vars
  BY <1>8, QuietIInv DEF vars, IInv, TypeOK
<1> QED
  BY <1>1, <1>2, <1>3, <1>4, <1>5, <1>6, <1>7, <1>8 DEF Next

\* The inductive invariant holds of every behaviour of the breaker.
THEOREM Invariance == Spec => []IInv
  BY InitIInv, StepIInv, PTL DEF Spec

-----------------------------------------------------------------------------
(* The theorems.                                                           *)

\* The tracker's fields, the calls and the history keep their types.
THEOREM TypeCorrect == Spec => []TypeOK
<1>1. IInv => TypeOK
  BY DEF IInv
<1> QED
  BY <1>1, Invariance, PTL

\* A raised probe_in_flight always has a live probe that will lower it.
THEOREM ClaimsAreOwned == Spec => []ClaimHasOwner
<1>1. IInv => ClaimHasOwner
  BY DEF IInv
<1> QED
  BY <1>1, Invariance, PTL

\* Two probes overlap only after somebody else lowered the flag of one.
THEOREM ProbesExclusive == Spec => []ExclusiveUnlessDisturbed
<1>1. IInv => ExclusiveUnlessDisturbed
  BY DEF IInv, UndisturbedFlag, ExclusiveUnlessDisturbed
<1> QED
  BY <1>1, Invariance, PTL

\* A step that lets a call through happens MinRest ticks or more after the
\* last trip that no answer and no reset has lifted.
LEMMA LetThroughRested ==
  IInv /\ [Next]_vars => [LetThrough => quiet = MinRest]_vars
<1> SUFFICES ASSUME IInv, [Next]_vars, LetThrough PROVE quiet = MinRest
  OBVIOUS
<1>1. PICK d \in Calls : pc[d] = "idle" /\ pc'[d] # "idle"
  BY DEF LetThrough
<1>2. ASSUME NEW c \in Calls, Start(c) PROVE quiet = MinRest
  BY <1>2, RestAssumption
  DEF Start, AdmitCall, AdmitProbe, IInv, TypeOK, RestOwed
<1>3. CASE RequestStart \/ ProberClaim
  BY <1>2, <1>3 DEF RequestStart, ProberClaim, Calls
<1>4. ASSUME NEW c \in Calls, Proceed(c) PROVE FALSE
  BY <1>1, <1>4
  DEF Proceed, Answer, Fail, Release, Panic, ReconcileUnanswered, Running, IInv, TypeOK
<1>5. CASE Reset \/ SetPolicy \/ UpstreamTurns \/ Tick \/ UNCHANGED vars
  BY <1>1, <1>5 DEF Reset, SetPolicy, UpstreamTurns, Tick, vars
<1> QED
  BY <1>3, <1>4, <1>5 DEF Next

\* Issue #227's other half: a dead upstream is left in peace between probes.
THEOREM TrippedEnginesRest == Spec => RestAfterTrip
  BY LetThroughRested, Invariance, PTL DEF Spec, RestAfterTrip
=============================================================================
