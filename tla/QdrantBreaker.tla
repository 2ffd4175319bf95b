---------------------------- MODULE QdrantBreaker ----------------------------
(***************************************************************************)
(* The circuit breaker in front of Qdrant (assistant/src/persistence/      *)
(* embeddings/qdrant-circuit-breaker.ts): calls that overlap, each of      *)
(* which passes allows(), awaits Qdrant, and records how it went in        *)
(* whatever state the breaker has reached by then.  The cooldown is the    *)
(* fact that COOLDOWN_MS have passed since openedAt.                       *)
(***************************************************************************)
EXTENDS Integers

CONSTANTS Calls,     \* bound: calls that can be in flight at a time
          Threshold  \* FAILURE_THRESHOLD

ASSUME BreakerAssumption == Threshold \in Nat \ {0}

VARIABLES
  breakerState,
  consecutiveFailures,   \* counted up to Threshold: the code only compares
  cooled,                \* COOLDOWN_MS have passed since openedAt
  halfOpenProbeInFlight,
  call                   \* "none", or how the call in flight was admitted

vars == <<breakerState, consecutiveFailures, cooled, halfOpenProbeInFlight, call>>

TypeOK ==
  /\ breakerState \in {"closed", "open", "half-open"}
  /\ consecutiveFailures \in 0..Threshold
  /\ cooled \in BOOLEAN /\ halfOpenProbeInFlight \in BOOLEAN
  /\ call \in [Calls -> {"none", "ordinary", "probe"}]

Init ==
  /\ breakerState = "closed" /\ consecutiveFailures = 0
  /\ cooled = FALSE /\ halfOpenProbeInFlight = FALSE
  /\ call = [c \in Calls |-> "none"]

\* allows() lets the call through a closed circuit.
AdmitOrdinary(c) ==
  /\ call[c] = "none"
  /\ breakerState = "closed"
  /\ call' = [call EXCEPT ![c] = "ordinary"]
  /\ UNCHANGED <<breakerState, consecutiveFailures, cooled, halfOpenProbeInFlight>>

\* allows() lets the call through as the probe: the cooldown is over, or the
\* circuit is half-open and no probe is in flight.  Any other call is refused,
\* which changes nothing.
AdmitProbe(c) ==
  /\ call[c] = "none"
  /\ \/ breakerState = "open" /\ cooled
     \/ breakerState = "half-open" /\ ~ halfOpenProbeInFlight
  /\ call' = [call EXCEPT ![c] = "probe"]
  /\ breakerState' = "half-open"
  /\ halfOpenProbeInFlight' = TRUE
  /\ UNCHANGED <<consecutiveFailures, cooled>>

recordSuccess(c) ==
  /\ call[c] # "none"
  /\ call' = [call EXCEPT ![c] = "none"]
  /\ breakerState' = "closed"
  /\ consecutiveFailures' = 0
  /\ cooled' = FALSE
  /\ halfOpenProbeInFlight' = FALSE

Counted == IF consecutiveFailures = Threshold THEN Threshold ELSE consecutiveFailures + 1

\* Variant: only a closed circuit opens.
recordFailureWhenClosed(c) ==
  /\ call[c] # "none"
  /\ call' = [call EXCEPT ![c] = "none"]
  /\ consecutiveFailures' = Counted
  /\ halfOpenProbeInFlight' = FALSE
  /\ IF Counted >= Threshold /\ breakerState = "closed"
     THEN breakerState' = "open" /\ cooled' = FALSE
     ELSE UNCHANGED <<breakerState, cooled>>

\* Variant: a failure in a circuit that is not closed is not recorded.
recordFailureIgnored(c) ==
  /\ call[c] # "none"
  /\ call' = [call EXCEPT ![c] = "none"]
  /\ IF breakerState = "closed"
     THEN /\ consecutiveFailures' = Counted
          /\ breakerState' = IF Counted >= Threshold THEN "open" ELSE "closed"
     ELSE UNCHANGED <<consecutiveFailures, breakerState>>
  /\ UNCHANGED <<cooled, halfOpenProbeInFlight>>

recordFailure(c) ==
  /\ call[c] # "none"
  /\ call' = [call EXCEPT ![c] = "none"]
  /\ consecutiveFailures' = Counted
  /\ halfOpenProbeInFlight' = FALSE
  /\ IF Counted >= Threshold \/ breakerState = "half-open"
     THEN breakerState' = "open" /\ cooled' = FALSE
     ELSE UNCHANGED <<breakerState, cooled>>

CoolDown ==
  /\ breakerState = "open" /\ ~ cooled
  /\ cooled' = TRUE
  /\ UNCHANGED <<breakerState, consecutiveFailures, halfOpenProbeInFlight, call>>

Settle(c) == recordSuccess(c) \/ recordFailure(c)

Next == CoolDown \/ \E c \in Calls : AdmitOrdinary(c) \/ AdmitProbe(c) \/ Settle(c)

Spec == Init /\ [][Next]_vars

\* Time passes, calls keep being made, and a call to Qdrant settles.
Fairness ==
  /\ WF_vars(CoolDown)
  /\ \A c \in Calls : WF_vars(AdmitProbe(c)) /\ WF_vars(Settle(c))

FairSpec == Spec /\ Fairness

-----------------------------------------------------------------------------
(* Properties.                                                             *)

\* A half-open circuit, which refuses every call while its probe flag is up,
\* always has the flag up for a probe that is really in flight: whatever calls
\* from before the circuit opened record meanwhile, someone is left to resolve
\* it.
HalfOpenHasProbe ==
  breakerState = "half-open" =>
    halfOpenProbeInFlight /\ \E c \in Calls : call[c] = "probe"

\* The breaker never refuses for good: again and again the circuit is closed
\* or a probe is on its way.
NeverStuck == []<>(breakerState = "closed" \/ \E c \in Calls : call[c] = "probe")
=============================================================================
