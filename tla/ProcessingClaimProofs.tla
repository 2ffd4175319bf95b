----------------------- MODULE ProcessingClaimProofs -----------------------
(***************************************************************************)
(* Proofs about the processing flag, for any sets of turns, holders,       *)
(* routes and wakes, any retry budget, with Stop and crashes.              *)
(***************************************************************************)
EXTENDS ProcessingClaim, TLAPS

\* Claims are numbered: a claim somebody made, a marker somebody wrote and the
\* boot fence are never ahead of the counter, so the next claim is fresh.
ClaimsNumbered ==
  /\ processingOwner <= nextProcessingOwner
  /\ startedAt <= nextProcessingOwner
  /\ bootTime <= nextProcessingOwner
  /\ \A p \in Procs : claim[p] <= nextProcessingOwner

\* The flag is held exactly while a claim is live, and a live claim was made
\* after the boot.
FlagIsOwned ==
  /\ processing => processingOwner > bootTime
  /\ ~processing => processingOwner = 0

\* A process at or past the fence has made a claim.
HolderHasClaim ==
  \A p \in Procs : pc[p] \in PastFence \cup {"fencing"} => claim[p] > 0

\* What the fence waits for: a landed marker of the live claim is in the
\* column already while its holder still stands before the fence.
LandedIsWritten ==
  \A p \in Procs :
    pc[p] = "fencing" /\ marker[p] = "landed" /\ processingOwner = claim[p]
      => startedAt = claim[p]

\* A marker write that is being retried has retries left.
RetryHasBudget ==
  \A p \in Procs : marker[p] = "retrying" => retries[p] > 0

\* Nobody waits on a free flag, wakes or not.
NobodyWaitsOnFree ==
  \A p \in Procs : pc[p] = "waiting" => processing

IInv ==
  /\ TypeOK
  /\ ClaimsNumbered
  /\ FlagIsOwned
  /\ HolderHasClaim
  /\ LandedIsWritten
  /\ LiveClaimMarked
  /\ RetryHasBudget
  /\ NobodyWaitsOnFree

\* A fresh Conversation satisfies the invariant.
LEMMA InitIInv == Init => IInv
<1> SUFFICES ASSUME Init PROVE IInv
  OBVIOUS
<1>1. TypeOK
  <2>1. /\ 0 \in 0..MaxClaims /\ 0 \in 0..MaxRetries
    BY ClaimAssumption
  <2> QED BY <2>1 DEF Init, TypeOK
<1>2. ClaimsNumbered /\ FlagIsOwned
  BY DEF Init, ClaimsNumbered, FlagIsOwned
<1>3. HolderHasClaim /\ LandedIsWritten /\ LiveClaimMarked
  BY DEF Init, HolderHasClaim, LandedIsWritten, LiveClaimMarked, PastFence
<1>4. RetryHasBudget /\ NobodyWaitsOnFree
  BY DEF Init, RetryHasBudget, NobodyWaitsOnFree
<1> QED BY <1>1, <1>2, <1>3, <1>4 DEF IInv

\* setProcessing(false) keeps the invariant whatever the caller does to pc,
\* as long as pc moves no process to the fence or past it.
LEMMA ClearKeepsIInv ==
  ASSUME IInv,
         NEW f \in [Procs -> {"idle", "fencing", "waiting", "woken"} \cup PastFence],
         \A p \in Procs : f[p] = pc[p] \/ f[p] = "idle",
         ClearProcessing(f),
         UNCHANGED <<markVars, bootVars>>,
         abortController' \in Procs \cup {NoOne},
         signalled' \subseteq Procs
  PROVE  IInv'
<1> USE DEF IInv
<1>1. /\ processing' = FALSE /\ processingOwner' = 0
      /\ nextProcessingOwner' = nextProcessingOwner
      /\ claim' = claim /\ marker' = marker /\ retries' = retries
      /\ bootTime' = bootTime /\ sweepDue' = sweepDue
  BY DEF ClearProcessing, markVars, bootVars
<1>2. startedAt' \in {0, startedAt}
  BY DEF ClearProcessing, MirrorCleared
<1>3. clears' \in [ClearSlots -> 0..MaxRetries]
  BY ClaimAssumption DEF ClearProcessing, MirrorCleared, TypeOK
<1>4. /\ pc' \in [Procs -> {"idle", "fencing", "waiting", "woken"} \cup PastFence]
      /\ \A p \in Procs : pc'[p] \in {pc[p], "idle", "woken"} /\ pc'[p] # "waiting"
  BY DEF ClearProcessing, NotifyIdle, TypeOK
<1>5. TypeOK'
  <2>1. /\ processing' \in BOOLEAN /\ sweepDue' \in BOOLEAN
        /\ claim' \in [Procs -> 0..MaxClaims]
        /\ marker' \in [Procs -> {"none", "retrying", "landed", "failed"}]
        /\ retries' \in [Procs -> 0..MaxRetries]
    BY <1>1, Zenon DEF TypeOK
  <2>2. /\ processingOwner' \in 0..MaxClaims /\ nextProcessingOwner' \in 0..MaxClaims
        /\ startedAt' \in 0..MaxClaims /\ bootTime' \in 0..MaxClaims
    BY <1>1, <1>2, ClaimAssumption DEF TypeOK
  <2> QED BY <1>3, <1>4, <2>1, <2>2, Zenon DEF TypeOK
<1>6. ClaimsNumbered' /\ FlagIsOwned'
  BY <1>1, <1>2 DEF TypeOK, ClaimsNumbered, FlagIsOwned
<1>7. HolderHasClaim'
  BY <1>1, <1>4 DEF HolderHasClaim, PastFence
<1>8. LandedIsWritten' /\ LiveClaimMarked'
  BY <1>1, <1>7 DEF TypeOK, HolderHasClaim, LandedIsWritten, LiveClaimMarked
<1>9. RetryHasBudget' /\ NobodyWaitsOnFree'
  BY <1>1, <1>4 DEF RetryHasBudget, NobodyWaitsOnFree
<1> QED BY <1>5, <1>6, <1>7, <1>8, <1>9

\* A step that leaves flag, column and markers alone and moves processes only
\* away from the fence, or past it with the marker in place.
LEMMA QuietKeepsIInv ==
  ASSUME IInv,
         UNCHANGED <<flagVars, startedAt, clears, markVars, bootVars>>,
         pc' \in [Procs -> {"idle", "fencing", "waiting", "woken"} \cup PastFence],
         \A p \in Procs :
           \/ pc'[p] \in {pc[p], "idle", "woken"}
           \/ pc'[p] = "waiting" /\ processing
           \/ /\ pc'[p] \in PastFence
              /\ claim[p] > 0
              /\ processingOwner = claim[p] => startedAt = claim[p],
         abortController' \in Procs \cup {NoOne},
         signalled' \subseteq Procs
  PROVE  IInv'
<1> USE DEF IInv
<1>1. /\ processing' = processing /\ processingOwner' = processingOwner
      /\ nextProcessingOwner' = nextProcessingOwner
      /\ startedAt' = startedAt /\ clears' = clears
      /\ claim' = claim /\ marker' = marker /\ retries' = retries
      /\ bootTime' = bootTime /\ sweepDue' = sweepDue
  BY DEF flagVars, markVars, bootVars
<1>2. TypeOK'
  BY <1>1, Zenon DEF TypeOK
<1>3. ClaimsNumbered' /\ FlagIsOwned' /\ RetryHasBudget'
  BY <1>1, Zenon DEF ClaimsNumbered, FlagIsOwned, RetryHasBudget
<1>4. HolderHasClaim'
  BY <1>1 DEF HolderHasClaim, PastFence
<1>5. LandedIsWritten' /\ LiveClaimMarked'
  BY <1>1 DEF LandedIsWritten, LiveClaimMarked, PastFence
<1>6. NobodyWaitsOnFree'
  BY <1>1 DEF NobodyWaitsOnFree, PastFence
<1> QED BY <1>2, <1>3, <1>4, <1>5, <1>6

\* releaseProcessing keeps the invariant, whether or not its claim is live.
LEMMA ReleaseKeepsIInv ==
  ASSUME IInv,
         NEW q \in Procs,
         ReleaseProcessing(q, [pc EXCEPT ![q] = "idle"]),
         UNCHANGED <<markVars, bootVars>>,
         abortController' \in Procs \cup {NoOne},
         signalled' \subseteq Procs
  PROVE  IInv'
<1> DEFINE f == [pc EXCEPT ![q] = "idle"]
<1>1. /\ f \in [Procs -> {"idle", "fencing", "waiting", "woken"} \cup PastFence]
      /\ \A p \in Procs : f[p] = pc[p] \/ f[p] = "idle"
  BY DEF IInv, TypeOK
<1>2. CASE processingOwner = claim[q]
  <2>1. ClearProcessing(f)
    BY <1>2 DEF ReleaseProcessing
  <2> QED BY <1>1, <2>1, ClearKeepsIInv
<1>3. CASE processingOwner # claim[q]
  <2>1. pc' = f /\ UNCHANGED <<flagVars, startedAt, clears>>
    BY <1>3 DEF ReleaseProcessing
  <2>2. \A p \in Procs : pc'[p] \in {pc[p], "idle", "woken"}
    BY <1>1, <2>1
  <2> HIDE DEF f
  <2> QED BY <1>1, <2>1, <2>2, QuietKeepsIInv
<1> QED BY <1>2, <1>3

\* setProcessing(true) on a free flag by a process that goes past the fence.
LEMMA SetKeepsIInv ==
  ASSUME IInv,
         NEW q \in Procs,
         NEW stage \in PastFence,
         ~processing,
         SetProcessing(q),
         pc' = [pc EXCEPT ![q] = stage],
         UNCHANGED bootVars,
         abortController' \in Procs \cup {NoOne},
         signalled' \subseteq Procs
  PROVE  IInv'
<1> USE DEF IInv
<1> DEFINE n == nextProcessingOwner + 1
<1>1. /\ processing' = TRUE /\ processingOwner' = n
      /\ nextProcessingOwner' = n /\ startedAt' = n
      /\ claim' = [claim EXCEPT ![q] = n] /\ clears' = clears
      /\ marker' = marker /\ retries' = retries
      /\ bootTime' = bootTime /\ sweepDue' = sweepDue
      /\ nextProcessingOwner < MaxClaims
  BY DEF SetProcessing, bootVars
<1>2. n \in 0..MaxClaims /\ n > nextProcessingOwner /\ n > 0 /\ n > bootTime
  BY <1>1, ClaimAssumption DEF TypeOK, ClaimsNumbered
<1>3. /\ claim' \in [Procs -> 0..MaxClaims]
      /\ claim'[q] = n
      /\ \A p \in Procs \ {q} : claim'[p] = claim[p]
  BY <1>1, <1>2 DEF TypeOK
<1>4. /\ pc' \in [Procs -> {"idle", "fencing", "waiting", "woken"} \cup PastFence]
      /\ pc'[q] = stage
      /\ \A p \in Procs \ {q} : pc'[p] = pc[p]
  BY DEF TypeOK
<1>5. \A p \in Procs \ {q} : claim'[p] # n /\ claim'[p] < n
  BY <1>2, <1>3 DEF TypeOK, ClaimsNumbered
<1> HIDE DEF n
<1>6. TypeOK'
  BY <1>1, <1>2, <1>3, <1>4, Zenon DEF TypeOK
<1>7. ClaimsNumbered' /\ FlagIsOwned'
  BY <1>1, <1>2, <1>3, <1>5, ClaimAssumption DEF TypeOK, ClaimsNumbered, FlagIsOwned
<1>8. HolderHasClaim'
  BY <1>2, <1>3, <1>4 DEF HolderHasClaim
<1>9. LandedIsWritten' /\ LiveClaimMarked'
  BY <1>1, <1>3, <1>4, <1>5 DEF LandedIsWritten, LiveClaimMarked, PastFence
<1>10. RetryHasBudget' /\ NobodyWaitsOnFree'
  BY <1>1 DEF RetryHasBudget, NobodyWaitsOnFree
<1> QED BY <1>6, <1>7, <1>8, <1>9, <1>10

\* setProcessing(true) whose write throws, by a process that gives up.
LEMMA ThrowKeepsIInv ==
  ASSUME IInv,
         SetProcessingThrows,
         pc' \in [Procs -> {"idle", "fencing", "waiting", "woken"} \cup PastFence],
         \A p \in Procs : pc'[p] = pc[p] \/ pc'[p] = "idle",
         UNCHANGED <<ctlVars, bootVars>>
  PROVE  IInv'
<1> USE DEF IInv
<1>1. /\ processing' = processing /\ processingOwner' = processingOwner
      /\ nextProcessingOwner' = nextProcessingOwner + 1
      /\ nextProcessingOwner < MaxClaims
      /\ startedAt' = startedAt /\ clears' = clears
      /\ claim' = claim /\ marker' = marker /\ retries' = retries
      /\ abortController' = abortController /\ signalled' = signalled
      /\ bootTime' = bootTime /\ sweepDue' = sweepDue
  BY DEF SetProcessingThrows, markVars, bootVars, ctlVars
<1>2. nextProcessingOwner' \in 0..MaxClaims
  BY <1>1, ClaimAssumption DEF TypeOK
<1>3. TypeOK'
  BY <1>1, <1>2, Zenon DEF TypeOK
<1>4. ClaimsNumbered' /\ FlagIsOwned' /\ RetryHasBudget'
  BY <1>1 DEF TypeOK, ClaimsNumbered, FlagIsOwned, RetryHasBudget
<1>5. HolderHasClaim' /\ LandedIsWritten' /\ LiveClaimMarked'
  BY <1>1 DEF HolderHasClaim, LandedIsWritten, LiveClaimMarked, PastFence
<1>6. NobodyWaitsOnFree'
  BY <1>1 DEF NobodyWaitsOnFree
<1> QED BY <1>3, <1>4, <1>5, <1>6

\* acquireProcessing by a process that now stands before the fence.
LEMMA AcquireKeepsIInv ==
  ASSUME IInv,
         NEW q \in Procs,
         AcquireProcessing(q),
         pc' = [pc EXCEPT ![q] = "fencing"],
         UNCHANGED bootVars,
         abortController' \in Procs \cup {NoOne},
         signalled' \subseteq Procs
  PROVE  IInv'
<1> USE DEF IInv
<1> DEFINE n == nextProcessingOwner + 1
<1>1. /\ ~processing
      /\ processing' = TRUE /\ processingOwner' = n
      /\ nextProcessingOwner' = n
      /\ claim' = [claim EXCEPT ![q] = n] /\ clears' = clears
      /\ bootTime' = bootTime /\ sweepDue' = sweepDue
      /\ nextProcessingOwner < MaxClaims
  BY DEF AcquireProcessing, bootVars
<1> PICK first \in {"landed", "retrying", "failed"} :
       /\ marker' = [marker EXCEPT ![q] = first]
       /\ startedAt' = IF first = "landed" THEN n ELSE startedAt
       /\ retries' = [retries EXCEPT
            ![q] = IF first = "retrying" THEN MaxRetries ELSE 0]
  BY DEF AcquireProcessing
<1>2. n \in 0..MaxClaims /\ n > nextProcessingOwner /\ n > 0 /\ n > bootTime
  BY <1>1, ClaimAssumption DEF TypeOK, ClaimsNumbered
<1>3. /\ claim' \in [Procs -> 0..MaxClaims]
      /\ claim'[q] = n
      /\ \A p \in Procs \ {q} : claim'[p] = claim[p]
  BY <1>1, <1>2 DEF TypeOK
<1>4. /\ pc' \in [Procs -> {"idle", "fencing", "waiting", "woken"} \cup PastFence]
      /\ pc'[q] = "fencing"
      /\ \A p \in Procs \ {q} : pc'[p] = pc[p]
  BY DEF TypeOK
<1>5. \A p \in Procs \ {q} : claim'[p] # n /\ claim'[p] < n
  BY <1>2, <1>3 DEF TypeOK, ClaimsNumbered
<1>6. /\ marker' \in [Procs -> {"none", "retrying", "landed", "failed"}]
      /\ marker'[q] = first
      /\ \A p \in Procs \ {q} : marker'[p] = marker[p]
  BY DEF TypeOK
<1>7. /\ retries' \in [Procs -> 0..MaxRetries]
      /\ first = "retrying" => retries'[q] = MaxRetries
      /\ \A p \in Procs \ {q} : retries'[p] = retries[p]
  BY ClaimAssumption DEF TypeOK
<1>8. startedAt' \in {n, startedAt} /\ (first = "landed" => startedAt' = n)
  OBVIOUS
<1> HIDE DEF n
<1>9. startedAt' \in 0..MaxClaims
  BY <1>2, <1>8 DEF TypeOK
<1>10. TypeOK'
  BY <1>1, <1>2, <1>3, <1>4, <1>6, <1>7, <1>9, Zenon DEF TypeOK
<1>11. ClaimsNumbered' /\ FlagIsOwned'
  BY <1>1, <1>2, <1>3, <1>5, <1>8, ClaimAssumption
  DEF TypeOK, ClaimsNumbered, FlagIsOwned
<1>12. HolderHasClaim'
  BY <1>2, <1>3, <1>4 DEF HolderHasClaim
<1>13. LandedIsWritten' /\ LiveClaimMarked'
  BY <1>1, <1>3, <1>4, <1>5, <1>6, <1>8 DEF LandedIsWritten, LiveClaimMarked, PastFence
<1>14. RetryHasBudget' /\ NobodyWaitsOnFree'
  BY <1>1, <1>6, <1>7, ClaimAssumption DEF RetryHasBudget, NobodyWaitsOnFree
<1> QED BY <1>10, <1>11, <1>12, <1>13, <1>14

\* A retried marker write: it touches the column only for the live claim.
LEMMA MarkerRetryKeepsIInv ==
  ASSUME IInv, NEW q \in Procs, MarkerRetry(q)
  PROVE  IInv'
<1> USE DEF IInv
<1>1. /\ processing' = processing /\ processingOwner' = processingOwner
      /\ nextProcessingOwner' = nextProcessingOwner
      /\ clears' = clears /\ pc' = pc /\ claim' = claim
      /\ abortController' = abortController /\ signalled' = signalled
      /\ bootTime' = bootTime /\ sweepDue' = sweepDue
  BY DEF MarkerRetry, flagVars, ctlVars, bootVars
<1>2. /\ marker' \in [Procs -> {"none", "retrying", "landed", "failed"}]
      /\ \A p \in Procs : marker'[p] = marker[p] \/ marker'[p] \in {"landed", "failed"}
  BY DEF MarkerRetry, TypeOK
<1>3. /\ retries' \in [Procs -> 0..MaxRetries]
      /\ \A p \in Procs : marker'[p] = "retrying" => retries'[p] > 0
  <2>1. retries[q] \in 0..MaxRetries /\ retries[q] > 0
    BY DEF TypeOK, RetryHasBudget, MarkerRetry
  <2>2. CASE retries' = retries
    BY <1>2, <2>2 DEF TypeOK, RetryHasBudget
  <2>3. CASE /\ retries' = [retries EXCEPT ![q] = @ - 1]
             /\ marker' = IF retries[q] > 1 THEN marker
                          ELSE [marker EXCEPT ![q] = "failed"]
    BY <2>1, <2>3, ClaimAssumption DEF TypeOK, RetryHasBudget
  <2> QED BY <2>2, <2>3 DEF MarkerRetry
<1>4. startedAt' = startedAt \/ (startedAt' = claim[q] /\ processingOwner = claim[q])
  BY DEF MarkerRetry
<1>5. TypeOK'
  <2>1. startedAt' \in 0..MaxClaims
    BY <1>4 DEF TypeOK
  <2> QED BY <1>1, <1>2, <1>3, <2>1, Zenon DEF TypeOK
<1>6. ClaimsNumbered' /\ FlagIsOwned'
  BY <1>1, <1>4 DEF TypeOK, ClaimsNumbered, FlagIsOwned
<1>7. HolderHasClaim' /\ NobodyWaitsOnFree'
  BY <1>1 DEF HolderHasClaim, NobodyWaitsOnFree
<1>8. LandedIsWritten'
  <2> SUFFICES ASSUME NEW p \in Procs, pc[p] = "fencing", marker'[p] = "landed",
                      processingOwner = claim[p]
               PROVE  startedAt' = claim[p]
    BY <1>1 DEF LandedIsWritten
  <2>1. CASE marker[p] = "landed"
    BY <1>4, <2>1 DEF LandedIsWritten
  <2>2. CASE marker[p] # "landed"
    <3>1. p = q
      BY <2>2 DEF MarkerRetry, TypeOK
    <3> QED BY <3>1, <2>2 DEF MarkerRetry, TypeOK
  <2> QED BY <2>1, <2>2
<1>9. LiveClaimMarked'
  BY <1>1, <1>4 DEF LiveClaimMarked
<1> QED BY <1>3, <1>5, <1>6, <1>7, <1>8, <1>9 DEF RetryHasBudget

\* A retried clear touches the column only while nobody's claim is live.
LEMMA ClearRetryKeepsIInv ==
  ASSUME IInv, NEW s \in ClearSlots, ClearRetry(s)
  PROVE  IInv'
<1> USE DEF IInv
<1>1. /\ processing' = processing /\ processingOwner' = processingOwner
      /\ nextProcessingOwner' = nextProcessingOwner
      /\ pc' = pc /\ claim' = claim /\ marker' = marker /\ retries' = retries
      /\ abortController' = abortController /\ signalled' = signalled
      /\ bootTime' = bootTime /\ sweepDue' = sweepDue
  BY DEF ClearRetry, flagVars, markVars, ctlVars, bootVars
<1>2. clears' \in [ClearSlots -> 0..MaxRetries]
  <2>1. clears[s] \in 0..MaxRetries /\ clears[s] > 0
    BY DEF ClearRetry, TypeOK
  <2>2. clears' = [clears EXCEPT ![s] = 0] \/ clears' = [clears EXCEPT ![s] = @ - 1]
    BY DEF ClearRetry
  <2> QED BY <2>1, <2>2, ClaimAssumption DEF TypeOK
<1>3. startedAt' = startedAt \/ (startedAt' = 0 /\ ~processing)
  BY DEF ClearRetry
<1>4. TypeOK'
  <2>1. startedAt' \in 0..MaxClaims
    BY <1>3, ClaimAssumption DEF TypeOK
  <2> QED BY <1>1, <1>2, <2>1, Zenon DEF TypeOK
<1>5. ClaimsNumbered' /\ FlagIsOwned' /\ RetryHasBudget'
  BY <1>1, <1>3 DEF TypeOK, ClaimsNumbered, FlagIsOwned, RetryHasBudget
<1>6. HolderHasClaim' /\ NobodyWaitsOnFree'
  BY <1>1 DEF HolderHasClaim, NobodyWaitsOnFree
<1>7. LandedIsWritten' /\ LiveClaimMarked'
  BY <1>1, <1>3 DEF TypeOK, FlagIsOwned, HolderHasClaim, LandedIsWritten, LiveClaimMarked
<1> QED BY <1>4, <1>5, <1>6, <1>7

\* The daemon dies: memory is reset, the column and the numbering survive.
LEMMA CrashKeepsIInv == ASSUME IInv, Crash PROVE IInv'
<1> USE DEF IInv
<1>1. 0 \in 0..MaxClaims /\ 0 \in 0..MaxRetries
  BY ClaimAssumption
<1>2. TypeOK'
  BY <1>1 DEF Crash, TypeOK
<1>3. ClaimsNumbered' /\ FlagIsOwned'
  BY DEF Crash, TypeOK, ClaimsNumbered, FlagIsOwned
<1>4. HolderHasClaim' /\ LandedIsWritten' /\ LiveClaimMarked'
  BY DEF Crash, HolderHasClaim, LandedIsWritten, LiveClaimMarked, PastFence
<1>5. RetryHasBudget' /\ NobodyWaitsOnFree'
  BY DEF Crash, RetryHasBudget, NobodyWaitsOnFree
<1> QED BY <1>2, <1>3, <1>4, <1>5

\* The monitor's sweep: a live claim is newer than the boot, so its marker is
\* not among the ones the sweep clears.
LEMMA SweepKeepsIInv == ASSUME IInv, ClearStaleProcessing PROVE IInv'
<1> USE DEF IInv
<1>1. /\ processing' = processing /\ processingOwner' = processingOwner
      /\ nextProcessingOwner' = nextProcessingOwner /\ clears' = clears
      /\ pc' = pc /\ claim' = claim /\ marker' = marker /\ retries' = retries
      /\ abortController' = abortController /\ signalled' = signalled
      /\ bootTime' = bootTime /\ sweepDue' = FALSE
  BY DEF ClearStaleProcessing, flagVars, markVars, ctlVars
<1>2. startedAt' = startedAt \/ (startedAt' = 0 /\ startedAt <= bootTime)
  BY DEF ClearStaleProcessing
<1>3. TypeOK'
  <2>1. startedAt' \in 0..MaxClaims
    BY <1>2, ClaimAssumption DEF TypeOK
  <2> QED BY <1>1, <2>1, Zenon DEF TypeOK
<1>4. ClaimsNumbered' /\ FlagIsOwned' /\ RetryHasBudget'
  BY <1>1, <1>2 DEF TypeOK, ClaimsNumbered, FlagIsOwned, RetryHasBudget
<1>5. HolderHasClaim' /\ NobodyWaitsOnFree'
  BY <1>1 DEF HolderHasClaim, NobodyWaitsOnFree
<1>6. \A p \in Procs : claim[p] > 0 /\ processingOwner = claim[p] => claim[p] > bootTime
  BY DEF TypeOK, FlagIsOwned
<1>7. LandedIsWritten' /\ LiveClaimMarked'
  BY <1>1, <1>2, <1>6 DEF TypeOK, HolderHasClaim, LandedIsWritten, LiveClaimMarked
<1> QED BY <1>3, <1>4, <1>5, <1>7

\* Every action of every holder, of Stop, of the daemon's death and of the
\* monitor keeps the invariant.
LEMMA NextKeepsIInv == ASSUME IInv, Next PROVE IInv'
<1>1. /\ Turns \subseteq Procs /\ Fenced \subseteq Procs
      /\ Routes \subseteq Procs /\ Wakes \subseteq Procs
  BY DEF Procs
<1>2. /\ pc \in [Procs -> {"idle", "fencing", "waiting", "woken"} \cup PastFence]
      /\ abortController \in Procs \cup {NoOne}
      /\ signalled \subseteq Procs
  BY DEF IInv, TypeOK
<1>3. \A q \in Procs :
        /\ [pc EXCEPT ![q] = "idle"]
             \in [Procs -> {"idle", "fencing", "waiting", "woken"} \cup PastFence]
        /\ \A p \in Procs : [pc EXCEPT ![q] = "idle"][p] \in {pc[p], "idle"}
  BY <1>2
<1>4. ASSUME NEW p \in Turns \cup Fenced, MarkerRetry(p) PROVE IInv'
  BY <1>1, <1>4, MarkerRetryKeepsIInv
<1>5. ASSUME NEW p \in Turns \cup Fenced, FencePass(p) PROVE IInv'
  <2> DEFINE stage == IF p \in Turns THEN "persisting" ELSE "holding"
  <2>1. /\ pc[p] = "fencing" /\ marker[p] = "landed" /\ processingOwner = claim[p]
        /\ pc' = [pc EXCEPT ![p] = stage] /\ stage \in PastFence
        /\ UNCHANGED <<flagVars, startedAt, clears, markVars, ctlVars, bootVars>>
    BY <1>5 DEF FencePass, PastFence
  <2>2. claim[p] > 0 /\ startedAt = claim[p]
    BY <1>1, <2>1 DEF IInv, HolderHasClaim, LandedIsWritten
  <2> HIDE DEF stage
  <2>3. /\ pc' \in [Procs -> {"idle", "fencing", "waiting", "woken"} \cup PastFence]
        /\ \A r \in Procs : pc'[r] = pc[r] \/ (r = p /\ pc'[r] \in PastFence)
    BY <1>1, <1>2, <2>1
  <2>4. abortController' = abortController /\ signalled' = signalled
    BY <2>1 DEF ctlVars
  <2> QED BY <1>2, <2>1, <2>2, <2>3, <2>4, QuietKeepsIInv
<1>6. ASSUME NEW p \in Turns \cup Fenced, FenceReject(p) PROVE IInv'
  <2>1. /\ ReleaseProcessing(p, [pc EXCEPT ![p] = "idle"])
        /\ abortController' \in {NoOne, abortController}
        /\ UNCHANGED <<markVars, signalled, bootVars>>
    BY <1>6 DEF FenceReject
  <2> QED BY <1>1, <1>2, <2>1, ReleaseKeepsIInv
<1>7. ASSUME NEW s \in ClearSlots, ClearRetry(s) PROVE IInv'
  BY <1>7, ClearRetryKeepsIInv
<1>8. ASSUME NEW h \in Fenced, AcquireFenced(h) PROVE IInv'
  <2>1. abortController' = abortController /\ signalled' = signalled
    BY <1>8 DEF AcquireFenced, ctlVars
  <2> QED BY <1>1, <1>2, <1>8, <2>1, AcquireKeepsIInv DEF AcquireFenced
<1>9. ASSUME NEW h \in Fenced, ReleaseFenced(h) PROVE IInv'
  <2>1. abortController' = abortController /\ signalled' = signalled
    BY <1>9 DEF ReleaseFenced, ctlVars
  <2> QED BY <1>1, <1>2, <1>9, <2>1, ReleaseKeepsIInv DEF ReleaseFenced
<1>10. ASSUME NEW t \in Turns, PersistUserMessage(t) PROVE IInv'
  <2>1. abortController' = t /\ signalled' \subseteq signalled
    BY <1>10 DEF PersistUserMessage
  <2> QED BY <1>1, <1>2, <1>10, <2>1, AcquireKeepsIInv DEF PersistUserMessage
<1>11. ASSUME NEW t \in Turns, PersistAbandoned(t) PROVE IInv'
  BY <1>1, <1>2, <1>11, ReleaseKeepsIInv DEF PersistAbandoned
<1>12. ASSUME NEW t \in Turns, RetryTurn(t) PROVE IInv'
  <2>1. CASE /\ SetProcessing(t)
             /\ pc' = [pc EXCEPT ![t] = "loading"]
             /\ abortController' = t
             /\ signalled' = signalled \ {t}
    <3>1. ~processing /\ UNCHANGED bootVars /\ "loading" \in PastFence
      BY <1>12 DEF RetryTurn, PastFence
    <3>2. signalled' \subseteq Procs
      BY <1>2, <2>1
    <3> QED BY <1>1, <2>1, <3>1, <3>2, SetKeepsIInv
  <2>2. CASE SetProcessingThrows /\ UNCHANGED <<pc, ctlVars>>
    BY <1>2, <1>12, <2>2, ThrowKeepsIInv DEF RetryTurn
  <2> QED BY <1>12, <2>1, <2>2 DEF RetryTurn
<1>13. ASSUME NEW t \in Turns, RetryLoadFails(t) PROVE IInv'
  <2>1. UNCHANGED <<markVars, signalled, bootVars>>
    BY <1>13 DEF RetryLoadFails
  <2>2. CASE abortController = t
    BY <1>1, <1>2, <1>3, <1>13, <2>1, <2>2, ClearKeepsIInv DEF RetryLoadFails
  <2>3. CASE abortController # t
    <3>1. /\ pc' = [pc EXCEPT ![t] = "idle"]
          /\ UNCHANGED <<flagVars, startedAt, clears, abortController>>
      BY <1>13, <2>3 DEF RetryLoadFails
    <3> QED BY <1>1, <1>2, <1>3, <2>1, <3>1, QuietKeepsIInv
  <2> QED BY <2>2, <2>3
<1>14. ASSUME NEW t \in Turns, StartLoop(t) \/ StartLoopThrows(t) PROVE IInv'
  <2>1. /\ pc[t] \in {"persisting", "loading"}
        /\ \E stage \in {"running", "idle"} : pc' = [pc EXCEPT ![t] = stage]
        /\ UNCHANGED <<flagVars, startedAt, clears, markVars, ctlVars, bootVars>>
    BY <1>14 DEF StartLoop, StartLoopThrows
  <2>2. claim[t] > 0 /\ (processingOwner = claim[t] => startedAt = claim[t])
    BY <1>1, <2>1 DEF IInv, HolderHasClaim, LiveClaimMarked, PastFence
  <2>3. /\ pc' \in [Procs -> {"idle", "fencing", "waiting", "woken"} \cup PastFence]
        /\ \A r \in Procs :
             pc'[r] \in {pc[r], "idle"} \/ (r = t /\ pc'[r] \in PastFence)
    BY <1>1, <1>2, <2>1 DEF PastFence
  <2>4. abortController' = abortController /\ signalled' = signalled
    BY <2>1 DEF ctlVars
  <2> QED BY <1>2, <2>1, <2>2, <2>3, <2>4, QuietKeepsIInv
<1>15. ASSUME NEW t \in Turns, ReleaseTurn(t) PROVE IInv'
  BY <1>1, <1>2, <1>3, <1>15, ClearKeepsIInv DEF ReleaseTurn
<1>16. ASSUME NEW r \in Routes, StartSummarize(r) PROVE IInv'
  <2>1. CASE /\ SetProcessing(r)
             /\ pc' = [pc EXCEPT ![r] = "running"]
             /\ abortController' = r
             /\ signalled' = signalled \ {r}
    <3>1. ~processing /\ UNCHANGED bootVars /\ "running" \in PastFence
      BY <1>16 DEF StartSummarize, PastFence
    <3>2. signalled' \subseteq Procs
      BY <1>2, <2>1
    <3> QED BY <1>1, <2>1, <3>1, <3>2, SetKeepsIInv
  <2>2. CASE SetProcessingThrows /\ UNCHANGED <<pc, ctlVars>>
    BY <1>2, <1>16, <2>2, ThrowKeepsIInv DEF StartSummarize
  <2> QED BY <1>16, <2>1, <2>2 DEF StartSummarize
<1>17. ASSUME NEW r \in Routes, EndSummarize(r) PROVE IInv'
  <2>1. abortController' \in {NoOne, abortController} /\ signalled' = signalled
    BY <1>17 DEF EndSummarize
  <2> QED BY <1>1, <1>2, <1>3, <1>17, <2>1, ClearKeepsIInv DEF EndSummarize
<1>18. ASSUME NEW w \in Wakes, RequestWake(w) \/ WakeTimeout(w) PROVE IInv'
  <2>1. /\ \E stage \in {"idle", "woken", "waiting"} :
             /\ pc' = [pc EXCEPT ![w] = stage]
             /\ stage = "waiting" => processing
        /\ UNCHANGED <<flagVars, startedAt, clears, markVars, ctlVars, bootVars>>
    BY <1>18 DEF RequestWake, WakeTimeout
  <2>2. abortController' = abortController /\ signalled' = signalled
    BY <2>1 DEF ctlVars
  <2>3. PICK stage \in {"idle", "woken", "waiting"} :
          /\ pc' = [pc EXCEPT ![w] = stage]
          /\ stage = "waiting" => processing
    BY <2>1
  <2>4. pc' \in [Procs -> {"idle", "fencing", "waiting", "woken"} \cup PastFence]
    BY <1>1, <1>2, <2>3
  <2>5. \A r \in Procs : pc'[r] = IF r = w THEN stage ELSE pc[r]
    BY <1>2, <2>3
  <2>6. \A r \in Procs : \/ pc'[r] \in {pc[r], "idle", "woken"}
                         \/ pc'[r] = "waiting" /\ processing
    BY <2>3, <2>5
  <2> QED BY <1>2, <2>1, <2>2, <2>4, <2>6, QuietKeepsIInv
<1>19. ASSUME NEW w \in Wakes, WakeResume(w) PROVE IInv'
  <2>1. UNCHANGED bootVars /\ abortController' = abortController /\ signalled' = signalled
    BY <1>19 DEF WakeResume, ctlVars
  <2>2. CASE /\ processing
             /\ \E next \in {"waiting", "idle"} : pc' = [pc EXCEPT ![w] = next]
             /\ UNCHANGED <<flagVars, startedAt, clears, markVars>>
    <3>1. PICK next \in {"waiting", "idle"} : pc' = [pc EXCEPT ![w] = next]
      BY <2>2
    <3>2. pc' \in [Procs -> {"idle", "fencing", "waiting", "woken"} \cup PastFence]
      BY <1>1, <1>2, <3>1
    <3>3. \A r \in Procs : pc'[r] = IF r = w THEN next ELSE pc[r]
      BY <1>2, <3>1
    <3>4. \A r \in Procs : \/ pc'[r] \in {pc[r], "idle", "woken"}
                           \/ pc'[r] = "waiting" /\ processing
      BY <2>2, <3>3
    <3> QED BY <1>2, <2>1, <2>2, <3>2, <3>4, QuietKeepsIInv
  <2>3. CASE ~processing /\ SetProcessing(w) /\ pc' = [pc EXCEPT ![w] = "running"]
    <3>1. "running" \in PastFence
      BY DEF PastFence
    <3> QED BY <1>1, <1>2, <2>1, <2>3, <3>1, SetKeepsIInv
  <2>4. CASE ~processing /\ SetProcessingThrows /\ pc' = [pc EXCEPT ![w] = "idle"]
    <3>1. UNCHANGED ctlVars
      BY <1>19 DEF WakeResume
    <3> QED BY <1>1, <1>3, <2>1, <2>4, <3>1, ThrowKeepsIInv
  <2> QED BY <1>19, <2>2, <2>3, <2>4 DEF WakeResume
<1>20. ASSUME NEW w \in Wakes, WakeEnd(w) PROVE IInv'
  <2>1. abortController' = abortController /\ signalled' = signalled
    BY <1>20 DEF WakeEnd, ctlVars
  <2> QED BY <1>1, <1>2, <1>3, <1>20, <2>1, ClearKeepsIInv DEF WakeEnd
<1>21. ASSUME AbortConversation PROVE IInv'
  <2>1. UNCHANGED <<markVars, abortController, bootVars>>
    BY <1>21 DEF AbortConversation
  <2>2. CASE processing /\ abortController # NoOne
    <3>1. /\ signalled' = signalled \cup {abortController}
          /\ UNCHANGED <<flagVars, startedAt, clears, pc>>
      BY <1>21, <2>2 DEF AbortConversation
    <3> QED BY <1>2, <2>1, <2>2, <3>1, QuietKeepsIInv
  <2>3. CASE ~(processing /\ abortController # NoOne)
    <3>1. ClearProcessing(pc) /\ UNCHANGED signalled
      BY <1>21, <2>3 DEF AbortConversation
    <3> QED BY <1>2, <2>1, <3>1, ClearKeepsIInv
  <2> QED BY <2>2, <2>3
<1> QED
  BY <1>4, <1>5, <1>6, <1>7, <1>8, <1>9, <1>10, <1>11, <1>12, <1>13, <1>14,
     <1>15, <1>16, <1>17, <1>18, <1>19, <1>20, <1>21,
     CrashKeepsIInv, SweepKeepsIInv
  DEF Next

\* And so does a step that changes nothing.
LEMMA StutterKeepsIInv == ASSUME IInv, UNCHANGED vars PROVE IInv'
<1>1. /\ pc' = pc /\ abortController' = abortController /\ signalled' = signalled
      /\ UNCHANGED <<flagVars, startedAt, clears, markVars, bootVars>>
  BY DEF vars, ctlVars
<1> QED BY <1>1, QuietKeepsIInv DEF IInv, TypeOK

\* The inductive invariant holds of every behaviour.
THEOREM ClaimInvariant == Spec => []IInv
<1>1. IInv /\ [Next]_vars => IInv'
  BY NextKeepsIInv, StutterKeepsIInv
<1> QED BY InitIInv, <1>1, PTL DEF Spec

\* Type correctness of the processing flag, for every instance.
THEOREM ClaimTypeOK == Spec => []TypeOK
<1>1. IInv => TypeOK
  BY DEF IInv
<1> QED BY ClaimInvariant, <1>1, PTL

\* The fence of acquireProcessing: for every number of holders, with Stop,
\* crashes and failing column writes, a holder past the fence whose claim is
\* live finds its own marker in the column.
THEOREM ClaimMarked == Spec => []LiveClaimMarked
<1>1. IInv => LiveClaimMarked
  BY DEF IInv
<1> QED BY ClaimInvariant, <1>1, PTL

\* waitForIdle's waiters never miss a release.
THEOREM ClaimWaiters == Spec => []WaitersNeverMissRelease
<1>1. IInv => WaitersNeverMissRelease
  BY DEF IInv, NobodyWaitsOnFree, WaitersNeverMissRelease, Procs
<1> QED BY ClaimInvariant, <1>1, PTL

\* mirrorProcessingStarted's re-check: for every instance, a marker that
\* appears in the column is the one of the claim live in that very step.
THEOREM ClaimMarkerLive == Spec => MarkerNamesLiveClaim
<1>1. ASSUME IInv, [Next]_vars
      PROVE  [startedAt' \notin {0, startedAt} => startedAt' = processingOwner']_vars
  <2>1. CASE UNCHANGED vars
    BY <2>1 DEF vars
  <2>2. ASSUME NEW p \in Turns \cup Fenced, MarkerRetry(p), startedAt' # startedAt
        PROVE  startedAt' = processingOwner'
    BY <2>2 DEF MarkerRetry, flagVars
  <2>3. ASSUME NEW p \in Procs, SetProcessing(p) \/ AcquireProcessing(p),
               startedAt' # startedAt
        PROVE  startedAt' = processingOwner'
    BY <2>3 DEF SetProcessing, AcquireProcessing
  <2>4. ASSUME NEW f, ClearProcessing(f) PROVE startedAt' \in {0, startedAt}
    BY <2>4 DEF ClearProcessing, MirrorCleared
  <2>5. ASSUME NEW p, NEW f, ReleaseProcessing(p, f) PROVE startedAt' \in {0, startedAt}
    BY <2>4, <2>5 DEF ReleaseProcessing
  <2>6. ASSUME NEW s \in ClearSlots, ClearRetry(s) PROVE startedAt' \in {0, startedAt}
    BY <2>6 DEF ClearRetry
  <2>7. ASSUME Next, startedAt' \notin {0, startedAt} PROVE startedAt' = processingOwner'
    <3>1. CASE \E p \in Turns \cup Fenced :
                 MarkerRetry(p) \/ FencePass(p) \/ FenceReject(p)
      BY <2>2, <2>5, <2>7, <3>1 DEF FencePass, FenceReject
    <3>2. CASE \E s \in ClearSlots : ClearRetry(s)
      BY <2>6, <2>7, <3>2
    <3>3. CASE \E h \in Fenced : AcquireFenced(h) \/ ReleaseFenced(h)
      BY <2>3, <2>5, <2>7, <3>3 DEF AcquireFenced, ReleaseFenced, Procs
    <3>4. CASE \E t \in Turns :
                 \/ PersistUserMessage(t) \/ PersistAbandoned(t)
                 \/ RetryTurn(t) \/ RetryLoadFails(t)
                 \/ StartLoop(t) \/ StartLoopThrows(t) \/ ReleaseTurn(t)
      <4>1. PICK t \in Turns :
                 \/ PersistUserMessage(t) \/ PersistAbandoned(t)
                 \/ RetryTurn(t) \/ RetryLoadFails(t)
                 \/ StartLoop(t) \/ StartLoopThrows(t) \/ ReleaseTurn(t)
        BY <3>4
      <4>2. CASE PersistUserMessage(t) \/ RetryTurn(t)
        BY <2>3, <2>7, <4>2 DEF PersistUserMessage, RetryTurn, SetProcessingThrows, Procs
      <4>3. CASE PersistAbandoned(t) \/ RetryLoadFails(t) \/ ReleaseTurn(t)
        BY <2>4, <2>5, <2>7, <4>3 DEF PersistAbandoned, RetryLoadFails, ReleaseTurn
      <4>4. CASE StartLoop(t) \/ StartLoopThrows(t)
        BY <2>7, <4>4 DEF StartLoop, StartLoopThrows
      <4> QED BY <4>1, <4>2, <4>3, <4>4
    <3>5. CASE \E r \in Routes : StartSummarize(r) \/ EndSummarize(r)
      BY <2>3, <2>4, <2>7, <3>5
      DEF StartSummarize, EndSummarize, SetProcessingThrows, Procs
    <3>6. CASE \E w \in Wakes :
                 RequestWake(w) \/ WakeTimeout(w) \/ WakeResume(w) \/ WakeEnd(w)
      BY <2>3, <2>4, <2>7, <3>6
      DEF RequestWake, WakeTimeout, WakeResume, WakeEnd, SetProcessingThrows, Procs
    <3>7. CASE AbortConversation
      BY <2>4, <2>7, <3>7 DEF AbortConversation
    <3>8. CASE Crash \/ ClearStaleProcessing
      BY <2>7, <3>8 DEF Crash, ClearStaleProcessing
    <3> QED BY <2>7, <3>1, <3>2, <3>3, <3>4, <3>5, <3>6, <3>7, <3>8 DEF Next
  <2> QED BY <1>1, <2>1, <2>7
<1> QED BY ClaimInvariant, <1>1, PTL DEF Spec, MarkerNamesLiveClaim

----------------------------------------------------------------------------
(* Exclusion, where no wake runs or nobody presses Stop.                   *)

Loops   == Turns \cup Routes \cup Wakes
Working == PastFence \cup {"fencing"}

\* Who is on the way to a loop, or runs one, has the live claim, and a turn or
\* a summary has its controller installed.
LoopsHoldFlag ==
  \A p \in Loops : pc[p] \in Working =>
    /\ processing /\ processingOwner = claim[p]
    /\ p \notin Wakes => abortController = p

\* No two processes have made the same claim.
ClaimsDiffer == \A p, q \in Procs : claim[p] = claim[q] /\ claim[p] > 0 => p = q

Sole == LoopsHoldFlag /\ ClaimsDiffer /\ HeldFlagHasHolder

\* A fresh Conversation has no loop and no claim.
LEMMA InitSole == Init => Sole
BY DEF Init, Sole, LoopsHoldFlag, ClaimsDiffer, HeldFlagHasHolder, Working, PastFence, Procs, Loops

\* While a loop is on its way, nobody else has the live claim.
LEMMA LiveIsLoop ==
  ASSUME IInv, Sole, NEW p \in Loops, pc[p] \in Working,
         NEW q \in Procs, processingOwner = claim[q]
  PROVE  p = q
<1>1. p \in Procs
  BY DEF Loops, Procs
<1>2. claim[p] > 0
  BY <1>1 DEF IInv, HolderHasClaim, Working
<1> QED BY <1>1, <1>2 DEF Sole, LoopsHoldFlag, ClaimsDiffer

\* Freeing the flag once no loop is on its way.
LEMMA FreeKeepsSole ==
  ASSUME Sole, NEW f, ClearProcessing(f), claim' = claim,
         \A p \in Loops : f[p] \notin Working
  PROVE  Sole'
<1>1. processing' = FALSE /\ \A p \in Procs : pc'[p] \in {f[p], "woken"}
  BY DEF ClearProcessing, NotifyIdle
<1>2. LoopsHoldFlag'
  BY <1>1 DEF LoopsHoldFlag, Working, PastFence, Loops, Procs
<1> QED BY <1>1, <1>2 DEF Sole, ClaimsDiffer, HeldFlagHasHolder

\* A step that leaves flag and claims alone, where nobody comes to work and
\* the holder of the live claim stays at work.
LEMMA QuietKeepsSole ==
  ASSUME Sole, processing' = processing, processingOwner' = processingOwner, claim' = claim,
         \A p \in Procs : pc'[p] \in Working => pc[p] \in Working,
         \A p \in Procs : processingOwner = claim[p] /\ pc[p] \in Working => pc'[p] \in Working,
         \A p \in Loops : pc'[p] \in Working => abortController' = abortController
  PROVE  Sole'
<1>1. LoopsHoldFlag'
  BY DEF Sole, LoopsHoldFlag, Loops, Procs
<1>2. HeldFlagHasHolder'
  BY DEF Sole, HeldFlagHasHolder, Working
<1> QED BY <1>1, <1>2 DEF Sole, ClaimsDiffer

\* Taking the free flag.
LEMMA TakeKeepsSole ==
  ASSUME IInv, Sole, NEW q \in Procs, NEW stage \in Working,
         ~processing, SetProcessing(q) \/ AcquireProcessing(q),
         pc' = [pc EXCEPT ![q] = stage],
         q \in Loops \ Wakes => abortController' = q
  PROVE  Sole'
<1> DEFINE n == nextProcessingOwner + 1
<1>1. processing' = TRUE /\ processingOwner' = n /\ claim' = [claim EXCEPT ![q] = n]
  BY DEF SetProcessing, AcquireProcessing
<1>2. n > 0 /\ \A p \in Procs : claim[p] # n
  BY DEF IInv, TypeOK, ClaimsNumbered
<1>3. pc'[q] = stage /\ \A p \in Procs \ {q} : pc'[p] = pc[p]
  BY DEF IInv, TypeOK
<1>4. claim'[q] = n /\ \A p \in Procs \ {q} : claim'[p] = claim[p]
  BY <1>1 DEF IInv, TypeOK
<1>5. \A p \in Loops : p \in Procs /\ pc[p] \notin Working
  BY DEF Sole, LoopsHoldFlag, Loops, Procs
<1> HIDE DEF n
<1>6. LoopsHoldFlag'
  BY <1>1, <1>3, <1>4, <1>5 DEF LoopsHoldFlag
<1>7. ClaimsDiffer'
  BY <1>2, <1>4 DEF Sole, ClaimsDiffer
<1>8. HeldFlagHasHolder'
  BY <1>1, <1>3, <1>4 DEF HeldFlagHasHolder, Working
<1> QED BY <1>6, <1>7, <1>8 DEF Sole

\* Giving back a claim by name, by a process that stops working.
LEMMA ReleaseKeepsSole ==
  ASSUME IInv, Sole, NEW q \in Procs,
         ReleaseProcessing(q, [pc EXCEPT ![q] = "idle"]),
         claim' = claim,
         q \notin Loops => abortController' = abortController,
         q \in Loops => pc[q] \in Working
  PROVE  Sole'
<1> DEFINE f == [pc EXCEPT ![q] = "idle"]
<1>1. f[q] = "idle" /\ \A p \in Procs \ {q} : f[p] = pc[p]
  BY DEF IInv, TypeOK
<1>2. "idle" \notin Working /\ Loops \subseteq Procs
  BY DEF Working, PastFence, Loops, Procs
<1>3. CASE processingOwner = claim[q]
  <2>1. ClearProcessing(f)
    BY <1>3 DEF ReleaseProcessing
  <2>2. \A p \in Loops : f[p] \notin Working
    BY <1>1, <1>2, <1>3, LiveIsLoop
  <2> QED BY <2>1, <2>2, FreeKeepsSole
<1>4. CASE processingOwner # claim[q]
  <2>1. pc' = f /\ processing' = processing /\ processingOwner' = processingOwner
    BY <1>4 DEF ReleaseProcessing, flagVars
  <2>2. q \notin Loops
    BY <1>4 DEF Sole, LoopsHoldFlag
  <2> HIDE DEF f
  <2> QED BY <1>1, <1>2, <1>4, <2>1, <2>2, QuietKeepsSole
<1> QED BY <1>3, <1>4

\* A loop that ends its run and frees the flag without naming its claim.
LEMMA EndKeepsSole ==
  ASSUME IInv, Sole, NEW q \in Loops, pc[q] \in Working,
         ClearProcessing([pc EXCEPT ![q] = "idle"]), claim' = claim
  PROVE  Sole'
<1> DEFINE f == [pc EXCEPT ![q] = "idle"]
<1>1. q \in Procs /\ Loops \subseteq Procs /\ "idle" \notin Working
  BY DEF Working, PastFence, Loops, Procs
<1>2. f[q] = "idle" /\ \A p \in Procs \ {q} : f[p] = pc[p]
  BY <1>1 DEF IInv, TypeOK
<1>3. processingOwner = claim[q]
  BY DEF Sole, LoopsHoldFlag
<1>4. \A p \in Loops : f[p] \notin Working
  BY <1>1, <1>2, <1>3, LiveIsLoop
<1> QED BY <1>4, FreeKeepsSole

\* Every action keeps the exclusion, unless Stop meets a wake, which has no
\* controller to signal.
LEMMA NextKeepsSole ==
  ASSUME Wakes = {} \/ ~StopEnabled, IInv, Sole, Next
  PROVE  Sole'
<1>1. /\ Turns \subseteq Procs /\ Fenced \subseteq Procs
      /\ Routes \subseteq Procs /\ Wakes \subseteq Procs
      /\ Turns \subseteq Loops \ Wakes /\ Routes \subseteq Loops \ Wakes
      /\ Wakes \subseteq Loops /\ Fenced \cap Loops = {} /\ Loops \subseteq Procs
  BY ClaimAssumption DEF Procs, Loops
<1>2. \A q \in Procs : \A s :
        /\ [pc EXCEPT ![q] = s][q] = s
        /\ \A p \in Procs \ {q} : [pc EXCEPT ![q] = s][p] = pc[p]
  BY DEF IInv, TypeOK
<1>3. "idle" \notin Working /\ "woken" \notin Working /\ "waiting" \notin Working
  BY DEF Working, PastFence
<1>4. {"fencing", "persisting", "loading", "running", "holding"} \subseteq Working
  BY DEF Working, PastFence
<1>5. ASSUME NEW p \in Turns \cup Fenced, MarkerRetry(p) PROVE Sole'
  BY <1>5, QuietKeepsSole DEF MarkerRetry, flagVars, ctlVars
<1>6. ASSUME NEW p \in Turns \cup Fenced, FencePass(p) PROVE Sole'
  <2>1. PICK s \in {"persisting", "holding"} : pc' = [pc EXCEPT ![p] = s]
    BY <1>6 DEF FencePass
  <2>2. /\ pc[p] = "fencing" /\ processing' = processing /\ processingOwner' = processingOwner
        /\ claim' = claim /\ abortController' = abortController
    BY <1>6 DEF FencePass, flagVars, markVars, ctlVars
  <2> QED BY <1>1, <1>2, <1>4, <2>1, <2>2, QuietKeepsSole
<1>7. ASSUME NEW p \in Turns \cup Fenced, FenceReject(p) PROVE Sole'
  <2>1. /\ pc[p] = "fencing" /\ ReleaseProcessing(p, [pc EXCEPT ![p] = "idle"])
        /\ claim' = claim
        /\ p \notin Turns => abortController' = abortController
    BY <1>7 DEF FenceReject, markVars
  <2> QED BY <1>1, <1>4, <2>1, ReleaseKeepsSole
<1>8. ASSUME NEW s \in ClearSlots, ClearRetry(s) PROVE Sole'
  BY <1>8, QuietKeepsSole DEF ClearRetry, flagVars, markVars, ctlVars
<1>9. ASSUME NEW h \in Fenced, AcquireFenced(h) PROVE Sole'
  BY <1>1, <1>4, <1>9, TakeKeepsSole DEF AcquireFenced, AcquireProcessing
<1>10. ASSUME NEW h \in Fenced, ReleaseFenced(h) PROVE Sole'
  BY <1>1, <1>10, ReleaseKeepsSole DEF ReleaseFenced, markVars, ctlVars
<1>11. ASSUME NEW t \in Turns, PersistUserMessage(t) PROVE Sole'
  BY <1>1, <1>4, <1>11, TakeKeepsSole DEF PersistUserMessage, AcquireProcessing
<1>12. ASSUME NEW t \in Turns, PersistAbandoned(t) PROVE Sole'
  BY <1>1, <1>4, <1>12, ReleaseKeepsSole DEF PersistAbandoned, markVars
<1>13. ASSUME SetProcessingThrows, UNCHANGED ctlVars,
              NEW p \in Procs, pc[p] \notin Working, pc' \in {pc, [pc EXCEPT ![p] = "idle"]}
       PROVE  Sole'
  <2>1. processing' = processing /\ processingOwner' = processingOwner /\ claim' = claim
        /\ abortController' = abortController
    BY <1>13 DEF SetProcessingThrows, markVars, ctlVars
  <2>2. \A q \in Procs : pc'[q] \in Working <=> pc[q] \in Working
    BY <1>2, <1>3, <1>13
  <2> QED BY <2>1, <2>2, QuietKeepsSole
<1>14. ASSUME NEW t \in Turns, RetryTurn(t) PROVE Sole'
  <2>1. pc[t] = "idle" /\ ~processing
    BY <1>14 DEF RetryTurn
  <2>2. CASE SetProcessing(t) /\ pc' = [pc EXCEPT ![t] = "loading"] /\ abortController' = t
    BY <1>1, <1>4, <2>1, <2>2, TakeKeepsSole
  <2>3. CASE SetProcessingThrows /\ UNCHANGED <<pc, ctlVars>>
    BY <1>1, <1>3, <1>13, <2>1, <2>3
  <2> QED BY <1>14, <2>2, <2>3 DEF RetryTurn
<1>15. ASSUME NEW t \in Turns, RetryLoadFails(t) PROVE Sole'
  <2>1. pc[t] = "loading" /\ claim' = claim
    BY <1>15 DEF RetryLoadFails, markVars
  <2>2. abortController = t
    BY <1>1, <1>4, <2>1 DEF Sole, LoopsHoldFlag
  <2> QED BY <1>1, <1>4, <1>15, <2>1, <2>2, EndKeepsSole DEF RetryLoadFails
<1>16. ASSUME NEW t \in Turns, StartLoop(t) \/ StartLoopThrows(t) PROVE Sole'
  <2>1. pc[t] \in Working
    BY <1>4, <1>16 DEF StartLoop, StartLoopThrows
  <2>2. abortController = t /\ t # NoOne
    BY <1>1, <2>1, ClaimAssumption DEF Sole, LoopsHoldFlag
  <2>3. /\ pc' = [pc EXCEPT ![t] = "running"]
        /\ processing' = processing /\ processingOwner' = processingOwner
        /\ claim' = claim /\ abortController' = abortController
    BY <1>16, <2>2 DEF StartLoop, StartLoopThrows, flagVars, markVars, ctlVars
  <2> QED BY <1>1, <1>2, <1>4, <2>1, <2>3, QuietKeepsSole
<1>17. ASSUME NEW t \in Turns, ReleaseTurn(t) PROVE Sole'
  BY <1>1, <1>4, <1>17, EndKeepsSole DEF ReleaseTurn, markVars
<1>18. ASSUME NEW r \in Routes, StartSummarize(r) PROVE Sole'
  <2>1. pc[r] = "idle" /\ ~processing
    BY <1>18 DEF StartSummarize
  <2>2. CASE SetProcessing(r) /\ pc' = [pc EXCEPT ![r] = "running"] /\ abortController' = r
    BY <1>1, <1>4, <2>1, <2>2, TakeKeepsSole
  <2>3. CASE SetProcessingThrows /\ UNCHANGED <<pc, ctlVars>>
    BY <1>1, <1>3, <1>13, <2>1, <2>3
  <2> QED BY <1>18, <2>2, <2>3 DEF StartSummarize
<1>19. ASSUME NEW r \in Routes, EndSummarize(r) PROVE Sole'
  BY <1>1, <1>4, <1>19, EndKeepsSole DEF EndSummarize, markVars
<1>20. ASSUME NEW w \in Wakes, NEW s \in {"idle", "woken", "waiting"},
              pc[w] \notin Working, pc' = [pc EXCEPT ![w] = s],
              UNCHANGED <<flagVars, markVars, ctlVars>>
       PROVE  Sole'
  <2>1. processing' = processing /\ processingOwner' = processingOwner /\ claim' = claim
        /\ abortController' = abortController
    BY <1>20 DEF flagVars, markVars, ctlVars
  <2>2. \A q \in Procs : pc'[q] \in Working <=> pc[q] \in Working
    BY <1>1, <1>2, <1>3, <1>20
  <2> QED BY <2>1, <2>2, QuietKeepsSole
<1>21. ASSUME NEW w \in Wakes, RequestWake(w) \/ WakeTimeout(w) PROVE Sole'
  BY <1>3, <1>20, <1>21 DEF RequestWake, WakeTimeout
<1>22. ASSUME NEW w \in Wakes, WakeResume(w) PROVE Sole'
  <2>1. pc[w] = "woken" /\ UNCHANGED ctlVars
    BY <1>22 DEF WakeResume
  <2>2. CASE /\ \E next \in {"waiting", "idle"} : pc' = [pc EXCEPT ![w] = next]
             /\ UNCHANGED <<flagVars, startedAt, clears, markVars>>
    BY <1>3, <1>20, <2>1, <2>2
  <2>3. CASE ~processing /\ SetProcessing(w) /\ pc' = [pc EXCEPT ![w] = "running"]
    BY <1>1, <1>4, <2>3, TakeKeepsSole
  <2>4. CASE SetProcessingThrows /\ pc' = [pc EXCEPT ![w] = "idle"]
    BY <1>1, <1>3, <1>13, <2>1, <2>4
  <2> QED BY <1>22, <2>2, <2>3, <2>4 DEF WakeResume
<1>23. ASSUME NEW w \in Wakes, WakeEnd(w) PROVE Sole'
  BY <1>1, <1>4, <1>23, EndKeepsSole DEF WakeEnd, markVars
<1>24. ASSUME AbortConversation PROVE Sole'
  <2>1. claim' = claim /\ abortController' = abortController /\ Wakes = {}
    BY <1>24 DEF AbortConversation, markVars
  <2>2. CASE processing /\ abortController # NoOne
    BY <1>24, <2>1, <2>2, QuietKeepsSole DEF AbortConversation, flagVars
  <2>3. CASE ~(processing /\ abortController # NoOne)
    <3>1. ClearProcessing(pc)
      BY <1>24, <2>3 DEF AbortConversation
    <3>2. \A p \in Loops : pc[p] \notin Working
      BY <1>1, <2>1, <2>3, ClaimAssumption DEF Sole, LoopsHoldFlag, Procs
    <3> QED BY <2>1, <3>1, <3>2, FreeKeepsSole
  <2> QED BY <2>2, <2>3
<1>25. ASSUME Crash PROVE Sole'
  <2>1. processing' = FALSE /\ claim' = claim /\ \A p \in Procs : pc'[p] = "idle"
    BY <1>25 DEF Crash
  <2> QED BY <1>1, <1>3, <2>1 DEF Sole, LoopsHoldFlag, ClaimsDiffer, HeldFlagHasHolder
<1>26. ASSUME ClearStaleProcessing PROVE Sole'
  BY <1>26, QuietKeepsSole DEF ClearStaleProcessing, flagVars, markVars, ctlVars
<1> QED
  BY <1>5, <1>6, <1>7, <1>8, <1>9, <1>10, <1>11, <1>12, <1>14, <1>15, <1>16, <1>17,
     <1>18, <1>19, <1>21, <1>22, <1>23, <1>24, <1>25, <1>26
  DEF Next

\* The exclusion holds of every behaviour.
LEMMA SoleInvariant ==
  ASSUME Wakes = {} \/ ~StopEnabled
  PROVE  Spec => []Sole
<1>1. IInv /\ Sole /\ [Next]_vars => Sole'
  <2>1. ASSUME Sole, UNCHANGED vars PROVE Sole'
    BY <2>1, QuietKeepsSole DEF vars, flagVars, markVars, ctlVars
  <2> QED BY <2>1, NextKeepsSole
<1> QED BY InitSole, ClaimInvariant, <1>1, PTL DEF Spec

\* At most one agent loop, summary or wake runs at a time, for any number of
\* holders, with Stop, failing column writes and crashes, as long as Stop does
\* not meet a wake (abortConversation's force-clear).
THEOREM ClaimExclusion ==
  ASSUME Wakes = {} \/ ~StopEnabled
  PROVE  Spec => []TurnExclusion
<1>1. IInv /\ Sole => TurnExclusion
  <2> SUFFICES ASSUME IInv, Sole, NEW p \in Loops, NEW q \in Loops,
                      pc[p] = "running", pc[q] = "running"
               PROVE  p = q
    BY DEF TurnExclusion, Loops
  <2>1. pc[p] \in Working /\ pc[q] \in Working /\ q \in Procs
    BY DEF Working, PastFence, Loops, Procs
  <2>2. processingOwner = claim[q]
    BY <2>1 DEF Sole, LoopsHoldFlag
  <2> QED BY <2>1, <2>2, LiveIsLoop
<1> QED BY SoleInvariant, ClaimInvariant, <1>1, PTL

\* Every held flag has a process behind it that will release it, under the
\* same condition: no error path of a turn, a retry, a fenced holder or the
\* summarize route leaves the conversation latched busy.
THEOREM ClaimHasHolder ==
  ASSUME Wakes = {} \/ ~StopEnabled
  PROVE  Spec => []HeldFlagHasHolder
<1>1. Sole => HeldFlagHasHolder
  BY DEF Sole
<1> QED BY SoleInvariant, <1>1, PTL

============================================================================
