------------------------------ MODULE LlmBreaker ------------------------------
(***************************************************************************)
(* The calls of the LLM that one process has in flight, their retries, and *)
(* the circuit breaker they share (default_breaker, in the memory of the   *)
(* process).                                                               *)
(*                                                                         *)
(* The breaker stores monotonic timestamps and compares their distance     *)
(* from now; this module stores that distance, the age.  An age stops      *)
(* growing where no comparison can tell it from a larger one, so time goes *)
(* on for ever in finitely many states.                                    *)
(***************************************************************************)
EXTENDS Integers, Sequences, FiniteSets

CONSTANTS
  Calls,      \* tasks of the process that may call the LLM
  Threshold,  \* failures that open the breaker
  Window,     \* how long a failure counts
  CoolDown,   \* how long the breaker stays open
  Attempts,   \* llm_max_retries + 1
  Timeout,    \* longest attempt
  Backoff,    \* longest pause before the next attempt
  Closed      \* the breaker is not open: opened_at is None

ASSUME LlmBreakerAssumption ==
  /\ IsFiniteSet(Calls)
  /\ Threshold \in Nat \ {0} /\ Attempts \in Nat \ {0} /\ Timeout \in Nat \ {0}
  /\ Window \in Nat /\ CoolDown \in Nat /\ Backoff \in Nat
  /\ Closed \notin Nat

VARIABLES
  failures,  \* the ages of the recorded failures, oldest first
  openAge,   \* the age of opened_at, or Closed
  pc,        \* where each call stands
  tries,     \* attempts each call has started
  age,       \* the age of the current attempt or pause of each call
  phase,     \* observer: "halfOpen" from the end of a cool-down until a call
             \* settles, else "steady"
  probes     \* observer: the calls admitted in that phase

vars == <<failures, openAge, pc, tries, age, phase, probes>>

InFlight == {c \in Calls : pc[c] # "idle"}

Init ==
  /\ failures = << >> /\ openAge = Closed
  /\ pc = [c \in Calls |-> "idle"]
  /\ tries = [c \in Calls |-> 0] /\ age = [c \in Calls |-> 0]
  /\ phase = "steady" /\ probes = {}

-----------------------------------------------------------------------------
(* The breaker.                                                            *)

\* The breaker is open and its cool-down is over: is_open() resets it.
CooledDown == openAge # Closed /\ openAge >= CoolDown

\* Mutant: the reset keeps the failures that opened the breaker.
ResetKeepingFailures == openAge' = Closed /\ UNCHANGED failures

\* What is_open() leaves behind: the reset after the cool-down.
Reset == openAge' = Closed /\ failures' = << >>

RecordSuccess == openAge' = Closed /\ failures' = << >>

\* Mutant: failures older than the window are never dropped.
RecordFailureWithoutWindow ==
  /\ failures' = Append(failures, 0)
  /\ openAge' = IF Len(failures') >= Threshold /\ openAge = Closed THEN 0 ELSE openAge

\* Mutant: a failure of an open breaker stamps opened_at again.
RecordFailureRestamping ==
  /\ failures' = Append(failures, 0)
  /\ openAge' = IF Len(failures') >= Threshold THEN 0 ELSE openAge

\* Drop failures older than the window from the front, add this one, and open
\* once there are enough, unless the breaker is open already.
RecordFailure ==
  /\ \E k \in 0..Len(failures) :
       /\ \A i \in 1..k : failures[i] > Window
       /\ k < Len(failures) => failures[k + 1] <= Window
       /\ failures' = Append(SubSeq(failures, k + 1, Len(failures)), 0)
  /\ openAge' = IF Len(failures') >= Threshold /\ openAge = Closed THEN 0 ELSE openAge

\* A call is admitted: the first one after the cool-down resets the breaker.
\* A call that is not admitted returns None at once and changes nothing.
Admit(c) ==
  /\ pc[c] = "idle" /\ (openAge = Closed \/ CooledDown)
  /\ IF openAge = Closed
     THEN /\ UNCHANGED <<failures, openAge, phase>>
          /\ probes' = IF phase = "halfOpen" THEN probes \cup {c} ELSE probes
     ELSE Reset /\ phase' = "halfOpen" /\ probes' = {c}
  /\ pc' = [pc EXCEPT ![c] = "attempt"]
  /\ tries' = [tries EXCEPT ![c] = 1]
  /\ UNCHANGED age

\* The health endpoint asks is_open() as well, and so may reset the breaker.
HealthProbe ==
  /\ CooledDown
  /\ Reset /\ phase' = "halfOpen" /\ probes' = {}
  /\ UNCHANGED <<pc, tries, age>>

-----------------------------------------------------------------------------
(* The calls.                                                              *)

\* The call returns to its caller, and the breaker hears of it.
Settle(c) ==
  /\ pc' = [pc EXCEPT ![c] = "idle"]
  /\ tries' = [tries EXCEPT ![c] = 0] /\ age' = [age EXCEPT ![c] = 0]
  /\ phase' = "steady" /\ probes' = {}

\* A response that parses and validates.
Succeed(c) ==
  /\ pc[c] = "attempt"
  /\ RecordSuccess
  /\ Settle(c)

\* A response that is no valid JSON, an error that is not worth a retry, or
\* a transient error of the last attempt.
Fail(c) ==
  /\ pc[c] = "attempt"
  /\ RecordFailure
  /\ Settle(c)

\* Mutant: one attempt too many.
RetryOnceMore(c) ==
  /\ pc[c] = "attempt" /\ tries[c] <= Attempts
  /\ pc' = [pc EXCEPT ![c] = "backoff"]
  /\ age' = [age EXCEPT ![c] = 0]
  /\ UNCHANGED <<failures, openAge, tries, phase, probes>>

\* A transient error before the last attempt.
Retry(c) ==
  /\ pc[c] = "attempt" /\ tries[c] < Attempts
  /\ pc' = [pc EXCEPT ![c] = "backoff"]
  /\ age' = [age EXCEPT ![c] = 0]
  /\ UNCHANGED <<failures, openAge, tries, phase, probes>>

\* Mutant: the new attempt is not counted.
ResumeUncounted(c) ==
  /\ pc[c] = "backoff"
  /\ pc' = [pc EXCEPT ![c] = "attempt"]
  /\ age' = [age EXCEPT ![c] = 0]
  /\ UNCHANGED <<failures, openAge, tries, phase, probes>>

\* The pause is over.
Resume(c) ==
  /\ pc[c] = "backoff"
  /\ pc' = [pc EXCEPT ![c] = "attempt"]
  /\ tries' = [tries EXCEPT ![c] = @ + 1] /\ age' = [age EXCEPT ![c] = 0]
  /\ UNCHANGED <<failures, openAge, phase, probes>>

\* Time passes, but no attempt outlives its timeout and no pause its bound.
Limit(c) == IF pc[c] = "attempt" THEN Timeout ELSE Backoff

Tick ==
  /\ \A c \in InFlight : age[c] < Limit(c)
  /\ age' = [c \in Calls |-> IF c \in InFlight THEN age[c] + 1 ELSE 0]
  /\ failures' = [i \in 1..Len(failures) |->
                    IF failures[i] > Window THEN failures[i] ELSE failures[i] + 1]
  /\ openAge' = IF openAge = Closed \/ CooledDown THEN openAge ELSE openAge + 1
  /\ UNCHANGED <<pc, tries, phase, probes>>

\* The process restarts: its calls are gone, and so is what the breaker knew.
Restart ==
  /\ failures' = << >> /\ openAge' = Closed
  /\ pc' = [c \in Calls |-> "idle"]
  /\ tries' = [c \in Calls |-> 0] /\ age' = [c \in Calls |-> 0]
  /\ phase' = "steady" /\ probes' = {}

Step(c) == Succeed(c) \/ Fail(c) \/ Retry(c) \/ Resume(c)

Next ==
  \/ \E c \in Calls : Admit(c) \/ Step(c)
  \/ HealthProbe \/ Tick \/ Restart

\* An attempt ends by its timeout at the latest, and a pause ends.
Spec == Init /\ [][Next]_vars /\ \A c \in Calls : WF_vars(Step(c))

-----------------------------------------------------------------------------
(* Properties.                                                             *)

(* The declared value of every variable.                                   *)
TypeOK ==
  /\ failures \in Seq(0..(Window + 1))
  /\ openAge \in Nat \cup {Closed}
  /\ pc \in [Calls -> {"idle", "attempt", "backoff"}]
  /\ tries \in [Calls -> 0..Attempts]
  /\ age \in [Calls -> Nat]
  /\ phase \in {"steady", "halfOpen"} /\ probes \subseteq Calls

\* A closed breaker never sits on enough failures to open it: whatever closed
\* it (a late success, the cool-down, a health check) also cleared them, so it
\* takes a new burst to open it again.
ClosedMeansFewFailures == openAge = Closed => Len(failures) < Threshold

\* The breaker opens only on a burst: Threshold failures, none of them older
\* than the window.
OpensOnlyOnBurst ==
  [][openAge = Closed /\ openAge' # Closed =>
       /\ Len(failures') >= Threshold
       /\ \A i \in 1..Len(failures') : failures'[i] <= Window]_vars

\* Calls admitted before the breaker opened may still fail after it did: that
\* must not prolong the cool-down.
LateFailuresDoNotProlong ==
  [][openAge # Closed /\ openAge' # Closed => openAge' >= openAge]_vars

\* What the breaker remembers is bounded: once it is open no call is admitted,
\* so only the calls in flight at that time can add to its failures.
FailuresBounded ==
  Len(failures) + Cardinality(InFlight) <= Threshold - 1 + Cardinality(Calls)

\* The longest that a call may still last: the rest of its attempt or pause, and
\* the attempts and pauses that may follow.
TimeLeft(c) ==
  (Attempts - tries[c]) * (Timeout + Backoff)
    + (IF pc[c] = "attempt" THEN Timeout ELSE 0) - age[c]

\* A caller is never kept for longer than that: retries and pauses use up the
\* time that is left, give none back, and do not run out of it.
RetriesUseUpTheTime ==
  [][\A c \in InFlight \cap InFlight' :
       /\ TimeLeft(c)' >= 0
       /\ TimeLeft(c)' <= (IF Tick THEN TimeLeft(c) - 1 ELSE TimeLeft(c))]_vars

\* Retries end: every call returns to its caller.
EveryCallReturns == \A c \in Calls : pc[c] # "idle" ~> pc[c] = "idle"

\* "Cool-down over - half-open, allow one probe": until a call has settled,
\* at most one was admitted.
OneProbe == phase = "halfOpen" => Cardinality(probes) <= 1
=============================================================================
