------------------------- MODULE QdrantBreakerProofs -------------------------
(***************************************************************************)
(* The half-open circuit of QdrantBreaker always has its probe, for any    *)
(* number of overlapping calls and any failure threshold.                  *)
(***************************************************************************)
EXTENDS QdrantBreaker, TLAPS

IInv == TypeOK /\ HalfOpenHasProbe

\* The breaker starts closed, with no call in flight.
LEMMA InitBreaker == Init => IInv
<1>1. 0 \in 0..Threshold
  BY BreakerAssumption
<1>2. "closed" # "half-open"
  OBVIOUS
<1>. QED
  BY <1>1, <1>2, Zenon DEF Init, IInv, TypeOK, HalfOpenHasProbe

\* The failure count stays within the threshold it is compared with.
LEMMA CountedInRange ==
  ASSUME consecutiveFailures \in 0..Threshold
  PROVE  Counted \in 0..Threshold
  BY BreakerAssumption DEF Counted

\* Every step of every call keeps the type and the probe of a half-open
\* circuit: only an admitted probe makes the circuit half-open, and whatever
\* any call records takes it out of that state.
LEMMA NextBreaker == IInv /\ [Next]_vars => IInv'
<1> SUFFICES ASSUME IInv, [Next]_vars PROVE IInv'
  OBVIOUS
<1> USE DEF IInv, TypeOK, HalfOpenHasProbe
<1>1. CASE CoolDown
  BY <1>1 DEF CoolDown
<1>2. ASSUME NEW c \in Calls, AdmitOrdinary(c) PROVE IInv'
  BY <1>2 DEF AdmitOrdinary
<1>3. ASSUME NEW c \in Calls, AdmitProbe(c) PROVE IInv'
  <2>1. TypeOK'
    BY <1>3 DEF AdmitProbe
  <2>2. halfOpenProbeInFlight' /\ call'[c] = "probe"
    BY <1>3 DEF AdmitProbe
  <2>. QED BY <2>1, <2>2
<1>4. ASSUME NEW c \in Calls, recordSuccess(c) PROVE IInv'
  <2>1. 0 \in 0..Threshold
    BY BreakerAssumption
  <2>. QED BY <1>4, <2>1 DEF recordSuccess
<1>5. ASSUME NEW c \in Calls, recordFailure(c) PROVE IInv'
  <2>1. Counted \in 0..Threshold
    BY CountedInRange
  <2>2. TypeOK'
    BY <1>5, <2>1 DEF recordFailure
  <2>3. breakerState' # "half-open"
    BY <1>5 DEF recordFailure
  <2>. QED BY <2>2, <2>3
<1>6. CASE UNCHANGED vars
  BY <1>6 DEF vars
<1>. QED
  BY <1>1, <1>2, <1>3, <1>4, <1>5, <1>6 DEF Next, Settle

\* A half-open circuit has a probe in flight that will resolve it: for every
\* set of calls and every threshold, recordSuccess and recordFailure of calls
\* admitted before the circuit opened included.
THEOREM BreakerHalfOpen == Spec => []HalfOpenHasProbe
<1>1. IInv => HalfOpenHasProbe
  BY DEF IInv
<1>. QED
  BY InitBreaker, NextBreaker, <1>1, PTL DEF Spec
=============================================================================
