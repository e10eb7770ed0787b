--------------------------- MODULE LlmBreakerProofs ---------------------------
(***************************************************************************)
(* Proofs about LlmBreaker, for every number of calls and every threshold, *)
(* window, cool-down, timeout and number of attempts.                      *)
(***************************************************************************)
EXTENDS LlmBreaker, SequenceTheorems, FiniteSetTheorems, TLAPS

-----------------------------------------------------------------------------
(* What recording a failure does, and what time does to the failures.      *)

\* Recording a failure keeps some of the youngest failures and adds one; it
\* opens a closed breaker exactly when it then holds Threshold failures.
LEMMA RecordFailureLemma ==
  ASSUME TypeOK, RecordFailure
  PROVE  /\ failures' \in Seq(0..(Window + 1))
         /\ Len(failures') \in 1..(Len(failures) + 1)
         /\ openAge' \in Nat \cup {Closed}
         /\ openAge # Closed => openAge' = openAge
         /\ openAge' = Closed => Len(failures') < Threshold
         /\ openAge = Closed /\ openAge' # Closed => Len(failures') >= Threshold
<1> USE LlmBreakerAssumption
<1>1. PICK k \in 0..Len(failures) :
         failures' = Append(SubSeq(failures, k + 1, Len(failures)), 0)
  BY DEF RecordFailure
<1>2. failures \in Seq(0..(Window + 1)) /\ Len(failures) \in Nat
  BY DEF TypeOK
<1> DEFINE kept == SubSeq(failures, k + 1, Len(failures))
<1>3. kept \in Seq(0..(Window + 1)) /\ Len(kept) = Len(failures) - k
  BY <1>2, SubSeqProperties
<1> HIDE DEF kept
<1>4. failures' \in Seq(0..(Window + 1)) /\ Len(failures') = Len(failures) - k + 1
  BY <1>1, <1>3, AppendProperties DEF kept
<1>5. openAge' = IF Len(failures') >= Threshold /\ openAge = Closed THEN 0 ELSE openAge
  BY DEF RecordFailure
<1> QED
  BY <1>2, <1>4, <1>5 DEF TypeOK

\* Time changes no failure's place and keeps ages within the saturation bound.
LEMMA TickLemma ==
  ASSUME TypeOK, Tick
  PROVE  /\ failures' \in Seq(0..(Window + 1))
         /\ Len(failures') = Len(failures)
         /\ openAge' \in Nat \cup {Closed}
         /\ openAge = Closed <=> openAge' = Closed
         /\ openAge # Closed => openAge' >= openAge
<1> USE LlmBreakerAssumption
<1>1. failures \in Seq(0..(Window + 1)) /\ Len(failures) \in Nat
  BY DEF TypeOK
<1>2. \A i \in 1..Len(failures) : failures[i] \in 0..(Window + 1)
  BY <1>1, ElementOfSeq
<1> DEFINE older(i) == IF failures[i] > Window THEN failures[i] ELSE failures[i] + 1
<1>3. failures' = [i \in 1..Len(failures) |-> older(i)]
  BY DEF Tick
<1>4. \A i \in 1..Len(failures) : older(i) \in 0..(Window + 1)
  BY <1>2
<1>5. failures' \in Seq(0..(Window + 1)) /\ Len(failures') = Len(failures)
  <2> HIDE DEF older
  <2> QED BY <1>1, <1>3, <1>4, IsASeq
<1>6. openAge' = IF openAge = Closed \/ CooledDown THEN openAge ELSE openAge + 1
  BY DEF Tick
<1> QED
  BY <1>5, <1>6 DEF TypeOK, CooledDown

\* The calls in flight are finitely many, and no more than there are calls.
LEMMA InFlightFinite ==
  ASSUME NEW p
  PROVE  LET busy == {c \in Calls : p[c] # "idle"}
         IN  /\ IsFiniteSet(busy)
             /\ Cardinality(busy) \in Nat
             /\ Cardinality(Calls) \in Nat
             /\ Cardinality(busy) <= Cardinality(Calls)
<1> DEFINE busy == {c \in Calls : p[c] # "idle"}
<1>1. busy \in SUBSET Calls
  OBVIOUS
<1>2. IsFiniteSet(busy) /\ Cardinality(busy) <= Cardinality(Calls)
  BY <1>1, LlmBreakerAssumption, FS_Subset
<1> QED
  BY <1>2, LlmBreakerAssumption, FS_CardinalityType

\* A call that settles is one call less in flight.
LEMMA SettleLemma ==
  ASSUME TypeOK, NEW c \in Calls, pc[c] = "attempt", Settle(c)
  PROVE  /\ InFlight' = InFlight \ {c}
         /\ Cardinality(InFlight') = Cardinality(InFlight) - 1
         /\ Cardinality(InFlight) \in Nat
<1>1. InFlight' = InFlight \ {c}
  BY DEF TypeOK, Settle, InFlight
<1>2. IsFiniteSet(InFlight) /\ Cardinality(InFlight) \in Nat
  BY InFlightFinite DEF InFlight
<1>3. c \in InFlight
  BY DEF InFlight
<1> QED
  BY <1>1, <1>2, <1>3, FS_RemoveElement

-----------------------------------------------------------------------------
(* Type correctness: it needs that a pause is followed by an attempt that  *)
(* is still allowed.                                                       *)

PauseLeavesAttempt == \A c \in Calls : pc[c] = "backoff" => tries[c] < Attempts

TypeInv == TypeOK /\ PauseLeavesAttempt

LEMMA TypeInvInit == Init => TypeInv
BY LlmBreakerAssumption, EmptySeq DEF Init, TypeInv, TypeOK, PauseLeavesAttempt

LEMMA TypeInvStep == TypeInv /\ [Next]_vars => TypeInv'
<1> SUFFICES ASSUME TypeInv, [Next]_vars PROVE TypeInv'
  OBVIOUS
<1> USE LlmBreakerAssumption
<1>0. TypeOK /\ PauseLeavesAttempt /\ << >> \in Seq(0..(Window + 1))
  BY EmptySeq DEF TypeInv
<1>1. ASSUME NEW c \in Calls, Admit(c) PROVE TypeInv'
  <2>1. failures' \in Seq(0..(Window + 1)) /\ openAge' \in Nat \cup {Closed}
    BY <1>0, <1>1 DEF TypeOK, Admit, Reset
  <2>2. /\ pc' \in [Calls -> {"idle", "attempt", "backoff"}]
        /\ tries' \in [Calls -> 0..Attempts]
        /\ age' \in [Calls -> Nat]
        /\ PauseLeavesAttempt'
    BY <1>0, <1>1 DEF TypeOK, Admit, PauseLeavesAttempt
  <2>3. phase' \in {"steady", "halfOpen"} /\ probes' \subseteq Calls
    BY <1>0, <1>1 DEF TypeOK, Admit
  <2> QED BY <2>1, <2>2, <2>3 DEF TypeInv, TypeOK
<1>2. ASSUME NEW c \in Calls, Succeed(c) PROVE TypeInv'
  BY <1>0, <1>2 DEF TypeInv, TypeOK, PauseLeavesAttempt, Succeed, RecordSuccess, Settle
<1>3. ASSUME NEW c \in Calls, Fail(c) PROVE TypeInv'
  <2>1. failures' \in Seq(0..(Window + 1)) /\ openAge' \in Nat \cup {Closed}
    BY <1>0, <1>3, RecordFailureLemma DEF Fail
  <2> QED BY <1>0, <1>3, <2>1 DEF TypeInv, TypeOK, PauseLeavesAttempt, Fail, Settle
<1>4. ASSUME NEW c \in Calls, Retry(c) PROVE TypeInv'
  BY <1>0, <1>4 DEF TypeInv, TypeOK, PauseLeavesAttempt, Retry
<1>5. ASSUME NEW c \in Calls, Resume(c) PROVE TypeInv'
  BY <1>0, <1>5 DEF TypeInv, TypeOK, PauseLeavesAttempt, Resume
<1>6. ASSUME HealthProbe PROVE TypeInv'
  BY <1>0, <1>6 DEF TypeInv, TypeOK, PauseLeavesAttempt, HealthProbe, Reset
<1>7. ASSUME Tick PROVE TypeInv'
  BY <1>0, <1>7, TickLemma DEF TypeInv, TypeOK, PauseLeavesAttempt, Tick
<1>8. ASSUME Restart PROVE TypeInv'
  BY <1>0, <1>8 DEF TypeInv, TypeOK, PauseLeavesAttempt, Restart
<1>9. CASE UNCHANGED vars
  BY <1>0, <1>9 DEF TypeInv, TypeOK, PauseLeavesAttempt, vars
<1> QED
  BY <1>1, <1>2, <1>3, <1>4, <1>5, <1>6, <1>7, <1>8, <1>9 DEF Next, Step

\* Every variable keeps its declared value; in particular no call makes more
\* than Attempts attempts (llm_max_retries + 1).
THEOREM TypeCorrect == Spec => []TypeOK
<1>1. TypeInv => TypeOK
  BY DEF TypeInv
<1> QED
  BY TypeInvInit, TypeInvStep, <1>1, PTL DEF Spec

-----------------------------------------------------------------------------
(* The breaker.                                                            *)

\* The invariant: a closed breaker is short of Threshold failures, and an open
\* one gains failures only from the calls that were in flight when it opened.
BreakerInv == ClosedMeansFewFailures /\ FailuresBounded

LEMMA BreakerInvInit == Init => BreakerInv
<1> SUFFICES ASSUME Init PROVE BreakerInv
  OBVIOUS
<1>1. InFlight = {}
  BY DEF Init, InFlight
<1>2. Cardinality(InFlight) = 0 /\ Cardinality(Calls) \in Nat
  BY <1>1, FS_EmptySet, FS_CardinalityType, LlmBreakerAssumption
<1> QED
  BY <1>2, LlmBreakerAssumption
     DEF Init, BreakerInv, ClosedMeansFewFailures, FailuresBounded

\* Any step that leaves no failures behind keeps the invariant.
LEMMA ClearedIsFine == ASSUME failures' = << >> PROVE BreakerInv'
<1>1. /\ Cardinality(InFlight') \in Nat /\ Cardinality(Calls) \in Nat
      /\ Cardinality(InFlight') <= Cardinality(Calls)
  BY InFlightFinite DEF InFlight
<1>2. FailuresBounded'
  BY <1>1, LlmBreakerAssumption DEF FailuresBounded
<1> QED
  BY <1>2, LlmBreakerAssumption DEF BreakerInv, ClosedMeansFewFailures

LEMMA BreakerInvStep == TypeInv /\ BreakerInv /\ [Next]_vars => BreakerInv'
<1> SUFFICES ASSUME TypeInv, BreakerInv, [Next]_vars PROVE BreakerInv'
  OBVIOUS
<1> USE LlmBreakerAssumption
<1>a. TypeOK /\ Len(failures) \in Nat
  BY DEF TypeInv, TypeOK
<1>b. /\ Cardinality(InFlight) \in Nat /\ Cardinality(Calls) \in Nat
      /\ Cardinality(InFlight') \in Nat
      /\ Cardinality(InFlight') <= Cardinality(Calls)
  BY InFlightFinite DEF InFlight
<1>c. ASSUME UNCHANGED <<failures, openAge, InFlight>> PROVE BreakerInv'
  BY <1>c DEF BreakerInv, ClosedMeansFewFailures, FailuresBounded
<1>1. ASSUME NEW c \in Calls, Admit(c) PROVE BreakerInv'
  <2>1. CASE openAge = Closed
    BY <2>1, <1>1, <1>a, <1>b
       DEF Admit, BreakerInv, ClosedMeansFewFailures, FailuresBounded
  <2>2. CASE openAge # Closed
    BY <2>2, <1>1, ClearedIsFine DEF Admit, Reset
  <2> QED BY <2>1, <2>2
<1>2. ASSUME NEW c \in Calls, Succeed(c) PROVE BreakerInv'
  BY <1>2, ClearedIsFine DEF Succeed, RecordSuccess
<1>3. ASSUME NEW c \in Calls, Fail(c) PROVE BreakerInv'
  <2>1. Cardinality(InFlight') = Cardinality(InFlight) - 1
    BY <1>3, <1>a, SettleLemma DEF Fail
  <2>2. /\ Len(failures') \in 1..(Len(failures) + 1)
        /\ openAge' = Closed => Len(failures') < Threshold
    BY <1>3, <1>a, RecordFailureLemma DEF Fail
  <2> QED BY <2>1, <2>2, <1>a, <1>b
         DEF BreakerInv, ClosedMeansFewFailures, FailuresBounded
<1>4. ASSUME NEW c \in Calls, Retry(c) \/ Resume(c) PROVE BreakerInv'
  <2>1. InFlight' = InFlight
    BY <1>4, <1>a DEF Retry, Resume, InFlight, TypeOK
  <2> QED BY <2>1, <1>4, <1>c DEF Retry, Resume
<1>5. ASSUME HealthProbe PROVE BreakerInv'
  BY <1>5, ClearedIsFine DEF HealthProbe, Reset
<1>6. ASSUME Tick PROVE BreakerInv'
  <2>1. Len(failures') = Len(failures) /\ (openAge = Closed <=> openAge' = Closed)
    BY <1>6, <1>a, TickLemma
  <2>2. InFlight' = InFlight
    BY <1>6 DEF Tick, InFlight
  <2> QED BY <2>1, <2>2 DEF BreakerInv, ClosedMeansFewFailures, FailuresBounded
<1>7. ASSUME Restart PROVE BreakerInv'
  BY <1>7, ClearedIsFine DEF Restart
<1>8. CASE UNCHANGED vars
  BY <1>8, <1>c DEF vars, InFlight
<1> QED
  BY <1>1, <1>2, <1>3, <1>4, <1>5, <1>6, <1>7, <1>8 DEF Next, Step

LEMMA BreakerInvariant == Spec => []BreakerInv
BY TypeInvInit, TypeInvStep, BreakerInvInit, BreakerInvStep, PTL DEF Spec

\* Whatever closed the breaker, it takes a new burst to open it.
THEOREM ClosedBreakerIsBelowThreshold == Spec => []ClosedMeansFewFailures
<1>1. BreakerInv => ClosedMeansFewFailures
  BY DEF BreakerInv
<1> QED BY BreakerInvariant, <1>1, PTL

\* The deque of failures of an open breaker cannot grow without bound.
THEOREM RememberedFailuresAreBounded == Spec => []FailuresBounded
<1>1. BreakerInv => FailuresBounded
  BY DEF BreakerInv
<1> QED BY BreakerInvariant, <1>1, PTL

\* A failure that arrives while the breaker is open leaves opened_at alone.
THEOREM CoolDownIsNotProlonged == Spec => LateFailuresDoNotProlong
<1> DEFINE Grows == openAge # Closed /\ openAge' # Closed => openAge' >= openAge
<1>1. TypeInv /\ [Next]_vars => [Grows]_vars
  <2> SUFFICES ASSUME TypeInv, Next, openAge # Closed, openAge' # Closed
               PROVE  openAge' >= openAge
    BY DEF vars
  <2>0. TypeOK /\ openAge \in Nat
    BY DEF TypeInv, TypeOK
  <2>1. ASSUME NEW c \in Calls, Admit(c) PROVE openAge' >= openAge
    BY <2>0, <2>1 DEF Admit, Reset
  <2>2. ASSUME NEW c \in Calls, Step(c) PROVE openAge' >= openAge
    BY <2>0, <2>2, RecordFailureLemma DEF Step, Succeed, RecordSuccess, Fail, Retry, Resume
  <2>3. ASSUME Tick PROVE openAge' >= openAge
    BY <2>0, <2>3, TickLemma
  <2> QED
    BY <2>1, <2>2, <2>3 DEF Next, HealthProbe, Reset, Restart
<1> QED
  BY <1>1, TypeInvInit, TypeInvStep, PTL DEF Spec, LateFailuresDoNotProlong

-----------------------------------------------------------------------------
(* Dropping from the front drops every failure that is too old, because    *)
(* the deque is in order.                                                  *)

OldestFirst == \A i, j \in 1..Len(failures) : i < j => failures[i] >= failures[j]

\* After a failure is recorded the deque is still in order, and everything in
\* it is inside the window.
LEMMA RecordFailureDropsOld ==
  ASSUME TypeOK, OldestFirst, RecordFailure
  PROVE  /\ OldestFirst'
         /\ \A i \in 1..Len(failures') : failures'[i] <= Window
<1> USE LlmBreakerAssumption
<1>1. PICK k \in 0..Len(failures) :
        /\ k < Len(failures) => failures[k + 1] <= Window
        /\ failures' = Append(SubSeq(failures, k + 1, Len(failures)), 0)
  BY DEF RecordFailure
<1>2. failures \in Seq(0..(Window + 1)) /\ Len(failures) \in Nat
  BY DEF TypeOK
<1>3. \A i \in 1..Len(failures) : failures[i] \in 0..(Window + 1)
  BY <1>2, ElementOfSeq
<1> DEFINE n == Len(failures) - k
           kept == SubSeq(failures, k + 1, Len(failures))
<1>4. /\ n \in Nat /\ kept \in Seq(0..(Window + 1)) /\ Len(kept) = n
      /\ \A i \in 1..n : kept[i] = failures[k + i]
  <2>1. n \in Nat /\ k + 1 \in Int /\ Len(failures) \in Int
    BY <1>2
  <2>2. \A i \in (k + 1)..Len(failures) : failures[i] \in 0..(Window + 1)
    BY <1>2, <1>3
  <2>3. /\ kept \in Seq(0..(Window + 1))
        /\ Len(kept) = IF k + 1 <= Len(failures) THEN Len(failures) - (k + 1) + 1 ELSE 0
        /\ \A i \in 1..(Len(failures) - (k + 1) + 1) : kept[i] = failures[(k + 1) + i - 1]
    BY <2>1, <2>2, SubSeqProperties
  <2>4. Len(kept) = n
    BY <2>1, <2>3
  <2>5. \A i \in 1..n : kept[i] = failures[k + i]
    BY <2>1, <2>3
  <2> QED BY <2>1, <2>3, <2>4, <2>5
<1>5. \A i \in 1..n : kept[i] \in 0..(Window + 1) /\ kept[i] <= Window
  <2> SUFFICES ASSUME NEW i \in 1..n
               PROVE  kept[i] \in 0..(Window + 1) /\ kept[i] <= Window
    OBVIOUS
  <2>1. k + 1 \in 1..Len(failures) /\ k + i \in 1..Len(failures)
    BY <1>2, <1>4
  <2>2. failures[k + i] <= failures[k + 1]
    BY <2>1, <1>3 DEF OldestFirst
  <2> QED BY <2>1, <2>2, <1>1, <1>3, <1>4
<1>6. \A i, j \in 1..n : i < j => kept[i] >= kept[j]
  <2> SUFFICES ASSUME NEW i \in 1..n, NEW j \in 1..n, i < j PROVE kept[i] >= kept[j]
    OBVIOUS
  <2>1. k + i \in 1..Len(failures) /\ k + j \in 1..Len(failures) /\ k + i < k + j
    BY <1>2, <1>4
  <2> QED BY <2>1, <1>4 DEF OldestFirst
<1>4a. n \in Nat
  BY <1>4
<1> HIDE DEF kept
<1>7. /\ Len(failures') = n + 1
      /\ \A i \in 1..n : failures'[i] = kept[i]
      /\ failures'[n + 1] = 0
  BY <1>1, <1>4, AppendProperties DEF kept
<1> HIDE DEF n
<1>8. \A i \in 1..(n + 1) : i \in 1..n \/ i = n + 1
  BY <1>4a
<1>9. \A i \in 1..(n + 1) : failures'[i] \in 0..Window
  BY <1>4a, <1>5, <1>7, <1>8
<1>10. OldestFirst'
  <2> SUFFICES ASSUME NEW i \in 1..(n + 1), NEW j \in 1..(n + 1), i < j
               PROVE  failures'[i] >= failures'[j]
    BY <1>7 DEF OldestFirst
  <2>1. i \in 1..n /\ (j \in 1..n \/ j = n + 1)
    BY <1>4a, <1>8
  <2>2. CASE j \in 1..n
    BY <2>1, <2>2, <1>6, <1>7
  <2>3. CASE j = n + 1
    BY <2>1, <2>3, <1>7, <1>9
  <2> QED BY <2>1, <2>2, <2>3
<1> QED
  BY <1>7, <1>9, <1>10

LEMMA OldestFirstStep == TypeInv /\ OldestFirst /\ [Next]_vars => OldestFirst'
<1> SUFFICES ASSUME TypeInv, OldestFirst, [Next]_vars PROVE OldestFirst'
  OBVIOUS
<1> USE LlmBreakerAssumption
<1>a. TypeOK
  BY DEF TypeInv
<1>b. ASSUME failures' = << >> PROVE OldestFirst'
  BY <1>b DEF OldestFirst
<1>c. ASSUME UNCHANGED failures PROVE OldestFirst'
  BY <1>c DEF OldestFirst
<1>1. ASSUME NEW c \in Calls, Admit(c) PROVE OldestFirst'
  BY <1>1, <1>b, <1>c DEF Admit, Reset
<1>2. ASSUME NEW c \in Calls, Step(c) PROVE OldestFirst'
  BY <1>2, <1>a, <1>b, <1>c, RecordFailureDropsOld
     DEF Step, Succeed, RecordSuccess, Fail, Retry, Resume
<1>3. ASSUME Tick PROVE OldestFirst'
  <2>1. Len(failures) \in Nat /\ failures \in Seq(0..(Window + 1))
    BY <1>a DEF TypeOK
  <2>2. \A i \in 1..Len(failures) : failures[i] \in 0..(Window + 1)
    BY <2>1, ElementOfSeq
  <2>3. Len(failures') = Len(failures)
    BY <1>3, <1>a, TickLemma
  <2>4. \A i \in 1..Len(failures) :
          failures'[i] = IF failures[i] > Window THEN failures[i] ELSE failures[i] + 1
    BY <1>3 DEF Tick
  <2> QED BY <2>1, <2>2, <2>3, <2>4 DEF OldestFirst
<1> QED
  BY <1>1, <1>2, <1>3, <1>b, <1>c DEF Next, HealthProbe, Reset, Restart, vars

\* The breaker opens only when Threshold failures lie within the window.
THEOREM BreakerOpensOnlyOnBurst == Spec => OpensOnlyOnBurst
<1> DEFINE Burst == openAge = Closed /\ openAge' # Closed =>
                      /\ Len(failures') >= Threshold
                      /\ \A i \in 1..Len(failures') : failures'[i] <= Window
<1>1. Init => OldestFirst
  BY DEF Init, OldestFirst
<1>2. TypeInv /\ OldestFirst /\ [Next]_vars => [Burst]_vars
  <2> SUFFICES ASSUME TypeInv, OldestFirst, Next, openAge = Closed, openAge' # Closed
               PROVE  /\ Len(failures') >= Threshold
                      /\ \A i \in 1..Len(failures') : failures'[i] <= Window
    BY DEF vars
  <2>0. TypeOK
    BY DEF TypeInv
  <2>1. PICK c \in Calls : Fail(c)
    BY <2>0, TickLemma
       DEF Next, Admit, Reset, Step, Succeed, RecordSuccess, Retry, Resume,
           HealthProbe, Restart
  <2> QED
    BY <2>0, <2>1, RecordFailureLemma, RecordFailureDropsOld DEF Fail
<1> QED
  BY <1>1, <1>2, TypeInvInit, TypeInvStep, OldestFirstStep, PTL
     DEF Spec, OpensOnlyOnBurst

-----------------------------------------------------------------------------
(* The time of a call.                                                     *)

AgesInLimits ==
  \A c \in Calls : age[c] <= (IF pc[c] = "idle" THEN 0 ELSE Limit(c))

TimeInv == TypeInv /\ AgesInLimits

LEMMA TimeInvStep == TimeInv /\ [Next]_vars => TimeInv'
<1> SUFFICES ASSUME TimeInv, [Next]_vars PROVE AgesInLimits'
  BY TypeInvStep DEF TimeInv
<1> USE LlmBreakerAssumption DEF AgesInLimits, Limit
<1>0. TypeOK /\ AgesInLimits
  BY DEF TimeInv, TypeInv
<1>1. /\ pc \in [Calls -> {"idle", "attempt", "backoff"}]
      /\ age \in [Calls -> Nat]
  BY <1>0 DEF TypeOK
<1>2. ASSUME NEW c \in Calls, Admit(c) PROVE AgesInLimits'
  BY <1>0, <1>1, <1>2 DEF Admit
<1>3. ASSUME NEW c \in Calls, Step(c) PROVE AgesInLimits'
  BY <1>0, <1>1, <1>3 DEF Step, Succeed, Fail, Retry, Resume, Settle
<1>4. ASSUME Tick PROVE AgesInLimits'
  BY <1>0, <1>1, <1>4 DEF Tick, InFlight
<1>5. ASSUME HealthProbe \/ Restart \/ UNCHANGED vars PROVE AgesInLimits'
  BY <1>0, <1>1, <1>5 DEF HealthProbe, Restart, vars
<1> QED BY <1>2, <1>3, <1>4, <1>5 DEF Next

\* The attempts and pauses that may follow, in time: one fewer takes one
\* Timeout and one Backoff off.
LEMMA Products ==
  ASSUME NEW n \in Nat
  PROVE  /\ n * (Timeout + Backoff) \in Nat
         /\ n > 0 => /\ (n - 1) * (Timeout + Backoff)
                          = n * (Timeout + Backoff) - (Timeout + Backoff)
                     /\ n * (Timeout + Backoff) >= Timeout + Backoff
<1>1. PICK p \in Nat : p = Timeout + Backoff
  BY LlmBreakerAssumption
<1>2. n * p \in Nat /\ (n > 0 => (n - 1) * p = n * p - p /\ n * p >= p)
  OBVIOUS
<1> QED BY <1>1, <1>2

LEMMA TimeLeftIsANumber ==
  ASSUME TimeInv, NEW c \in InFlight
  PROVE  TimeLeft(c) \in Int /\ TimeLeft(c) >= 0
<1> DEFINE rest == (Attempts - tries[c]) * (Timeout + Backoff)
<1>0. /\ c \in Calls /\ age[c] \in Nat /\ pc[c] \in {"attempt", "backoff"}
      /\ Attempts - tries[c] \in Nat /\ age[c] <= Limit(c)
      /\ Timeout \in Nat /\ Backoff \in Nat
      /\ pc[c] = "backoff" => Attempts - tries[c] > 0
  BY LlmBreakerAssumption
     DEF TimeInv, TypeInv, TypeOK, PauseLeavesAttempt, AgesInLimits, InFlight
<1>1. rest \in Nat /\ (pc[c] = "backoff" => rest >= Timeout + Backoff)
  BY <1>0, Products
<1>2. TimeLeft(c) = rest + (IF pc[c] = "attempt" THEN Timeout ELSE 0) - age[c]
  BY DEF TimeLeft
<1> HIDE DEF rest
<1> QED BY <1>0, <1>1, <1>2 DEF Limit

\* What a step does to the time of a call that goes on.
LEMMA TimeStep ==
  ASSUME TimeInv, Next, NEW c \in InFlight, c \in InFlight'
  PROVE  TimeLeft(c)' <= (IF Tick THEN TimeLeft(c) - 1 ELSE TimeLeft(c))
<1> DEFINE rest == (Attempts - tries[c]) * (Timeout + Backoff)
           Left(r, p, a) == r + (IF p = "attempt" THEN Timeout ELSE 0) - a
<1>0. /\ c \in Calls /\ age[c] \in Nat /\ pc[c] \in {"attempt", "backoff"}
      /\ pc'[c] # "idle" /\ Attempts - tries[c] \in Nat /\ age[c] <= Limit(c)
      /\ Timeout \in Nat /\ Backoff \in Nat /\ Attempts \in Nat
      /\ pc[c] = "backoff" => Attempts - tries[c] > 0
      /\ pc \in [Calls -> {"idle", "attempt", "backoff"}]
      /\ tries \in [Calls -> 0..Attempts] /\ age \in [Calls -> Nat]
  BY LlmBreakerAssumption
     DEF TimeInv, TypeInv, TypeOK, PauseLeavesAttempt, AgesInLimits, InFlight
<1>1. rest \in Nat
  BY <1>0, Products
<1>2. TimeLeft(c) = Left(rest, pc[c], age[c]) /\ TimeLeft(c) \in Int
  BY TimeLeftIsANumber DEF TimeLeft
<1>3. ASSUME Tick PROVE TimeLeft(c)' = TimeLeft(c) - 1
  <2>1. age'[c] = age[c] + 1 /\ pc' = pc /\ tries' = tries
    BY <1>3, <1>0 DEF Tick
  <2>2. TimeLeft(c)' = Left(rest, pc[c], age[c] + 1)
    BY <2>1 DEF TimeLeft
  <2> HIDE DEF rest
  <2> QED BY <1>0, <1>1, <1>2, <2>2
<1>4. ASSUME \/ UNCHANGED <<pc, tries, age>>
             \/ pc'[c] = pc[c] /\ tries'[c] = tries[c] /\ age'[c] = age[c]
      PROVE  TimeLeft(c)' = TimeLeft(c)
  BY <1>4 DEF TimeLeft
<1>5. ASSUME NEW d \in Calls, d # c, Admit(d) \/ Step(d) PROVE TimeLeft(c)' = TimeLeft(c)
  <2>1. pc'[c] = pc[c] /\ tries'[c] = tries[c] /\ age'[c] = age[c]
    BY <1>5, <1>0 DEF Admit, Step, Succeed, Fail, Retry, Resume, Settle
  <2> QED BY <2>1, <1>4
<1>6. ASSUME Retry(c) PROVE TimeLeft(c)' <= TimeLeft(c)
  <2>1. pc[c] = "attempt" /\ pc'[c] = "backoff" /\ tries' = tries /\ age'[c] = 0
    BY <1>6, <1>0 DEF Retry
  <2>2. TimeLeft(c)' = Left(rest, "backoff", 0)
    BY <2>1 DEF TimeLeft
  <2> HIDE DEF rest
  <2> QED BY <1>0, <1>1, <1>2, <2>1, <2>2 DEF Limit
<1>7. ASSUME Resume(c) PROVE TimeLeft(c)' <= TimeLeft(c)
  <2>1. /\ pc[c] = "backoff" /\ pc'[c] = "attempt" /\ tries'[c] = tries[c] + 1
        /\ age'[c] = 0
    BY <1>7, <1>0 DEF Resume
  <2>2. (Attempts - tries'[c]) * (Timeout + Backoff) = rest - (Timeout + Backoff)
    <3>1. Attempts - tries'[c] = (Attempts - tries[c]) - 1
      BY <1>0, <2>1
    <3> QED BY <1>0, <2>1, <3>1, Products
  <2>3. TimeLeft(c)' = Left(rest - (Timeout + Backoff), "attempt", 0)
    BY <2>1, <2>2 DEF TimeLeft
  <2> HIDE DEF rest
  <2> QED BY <1>0, <1>1, <1>2, <2>1, <2>3 DEF Limit
<1>8. ~Admit(c) /\ ~Succeed(c) /\ ~Fail(c) /\ ~Restart
  BY <1>0 DEF Admit, Succeed, Fail, Settle, Restart
<1>9. ASSUME HealthProbe PROVE TimeLeft(c)' = TimeLeft(c)
  BY <1>9, <1>4 DEF HealthProbe
<1>10. TimeLeft(c)' <= TimeLeft(c)
  BY <1>2, <1>3, <1>5, <1>6, <1>7, <1>8, <1>9 DEF Next, Step
<1> QED
  BY <1>2, <1>3, <1>10

\* A call lasts no longer than its attempts and pauses may, for every number of
\* attempts and all their limits: the part of "every call returns" that holds
\* without fairness.
THEOREM CallsUseUpTheirTime == Spec => RetriesUseUpTheTime
<1>1. Init => AgesInLimits
  BY DEF Init, AgesInLimits
<1> DEFINE Remains == \A c \in InFlight : TimeLeft(c) >= 0
<1>2. TimeInv => Remains
  BY TimeLeftIsANumber
<1>3. TimeInv /\ Remains' /\ [Next]_vars =>
        [\A c \in InFlight \cap InFlight' :
           /\ TimeLeft(c)' >= 0
           /\ TimeLeft(c)' <= (IF Tick THEN TimeLeft(c) - 1 ELSE TimeLeft(c))]_vars
  <2> SUFFICES ASSUME TimeInv, Remains', Next, NEW c \in InFlight, c \in InFlight'
               PROVE  /\ TimeLeft(c)' >= 0
                      /\ TimeLeft(c)' <= (IF Tick THEN TimeLeft(c) - 1 ELSE TimeLeft(c))
    BY DEF vars
  <2> QED BY TimeStep
<1>4. TimeInv <=> TypeInv /\ AgesInLimits
  BY DEF TimeInv
<1> QED
  BY <1>1, <1>2, <1>3, <1>4, TypeInvInit, TimeInvStep, PTL DEF Spec, RetriesUseUpTheTime

=============================================================================
