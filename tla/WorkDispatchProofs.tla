-------------------------- MODULE WorkDispatchProofs --------------------------
(***************************************************************************)
(* Proofs about the distribution of work, for every number of threads,     *)
(* every size of the nonce space and of a scan, and every stratum thread.  *)
(***************************************************************************)
EXTENDS WorkDispatch, TLAPS

(* Multiplication by a slice is monotonic: the arithmetic fact behind      *)
(* std_get_new_work's slices.                                              *)
LEMMA Monotonic ==
  ASSUME NEW s \in Nat, NEW a \in Nat, NEW b \in Nat, a <= b
  PROVE  s * a <= s * b
<1>1. PICK d \in Nat : b = a + d
  BY b - a \in Nat, b = a + (b - a)
<1>2. s * b = s * a + s * d
  BY <1>1
<1>3. s * d \in Nat /\ s * a \in Nat
  OBVIOUS
<1> QED
  BY <1>2, <1>3

(* A slice lies within the nonces, and is not empty. *)
LEMMA SliceBounds ==
  ASSUME NEW t \in Threads
  PROVE  /\ First(t) \in 0..MaxNonce /\ End(t) \in 0..MaxNonce
         /\ First(t) < End(t)
         /\ Slice * (t + 1) - N \in 0..MaxNonce
<1>1. Slice \in Nat /\ N <= Slice /\ Reserve < Slice /\ Slice * N <= MaxNonce
  BY ThreadsAssumption DEF Slice
<1>2. t \in Nat /\ t + 1 \in Nat /\ t + 1 <= N /\ 1 <= t + 1
  BY ThreadsAssumption DEF Threads
<1>3. Slice * (t + 1) <= Slice * N
  BY <1>1, <1>2, Monotonic, ThreadsAssumption
<1>4. Slice * (t + 1) = Slice * t + Slice /\ Slice * t \in Nat
  BY <1>1, <1>2
<1> QED
  BY <1>1, <1>2, <1>3, <1>4, ThreadsAssumption DEF First, End

(* The slices of two threads do not meet. *)
LEMMA SlicesApart ==
  ASSUME NEW t \in Threads, NEW u \in Threads, t < u
  PROVE  End(t) < First(u)
<1>1. Slice \in Nat /\ Slice * (t + 1) \in Nat
  BY ThreadsAssumption DEF Slice, Threads
<1>2. t + 1 \in Nat /\ u \in Nat /\ t + 1 <= u
  BY ThreadsAssumption DEF Threads
<1>3. Slice * (t + 1) <= Slice * u
  BY <1>1, <1>2, Monotonic
<1> QED
  BY <1>1, <1>2, <1>3, ThreadsAssumption DEF First, End
-----------------------------------------------------------------------------
(* The strengthening: a nonce never passes its end, and a miner that has   *)
(* taken work over has the bounds of its own slice.  The value of end_nonce*)
(* before the first copy is another one.                                   *)
SliceKept ==
  \A t \in Threads :
     /\ nonce[t] <= endNonce[t]
     /\ work[t].job # NoJob \/ mpc[t] = "scan" => endNonce[t] = End(t) /\ First(t) <= nonce[t]

DispatchInv == DispatchTypeOK /\ StaleScanIsRestarted /\ ScanInSlice /\ SliceKept

(* Every thread starts with the bounds main_entry_thread gives it. *)
LEMMA InvInit == DInit => DispatchInv
<1> SUFFICES ASSUME DInit PROVE DispatchInv
  OBVIOUS
<1>1. DispatchTypeOK
  <2>1. BlankWork \in Work
    BY WorkAssumption DEF BlankWork, Work
  <2>2. endNonce \in [Threads -> 0..MaxNonce]
    BY SliceBounds DEF DInit
  <2>3. nonce \in [Threads -> 0..MaxNonce] /\ limit \in [Threads -> 0..MaxNonce]
    BY ThreadsAssumption DEF DInit
  <2> QED
    BY <2>1, <2>2, <2>3 DEF DInit, DispatchTypeOK, MinerLocations
<1>2. StaleScanIsRestarted /\ ScanInSlice
  BY DEF DInit, StaleScanIsRestarted, ScanInSlice
<1>3. SliceKept
  BY SliceBounds DEF DInit, SliceKept, BlankWork
<1> QED
  BY <1>1, <1>2, <1>3 DEF DispatchInv

(* The stratum thread moves no nonce, and marks every miner whose work it  *)
(* makes stale.                                                            *)
LEMMA StratumKeepsInv == DispatchInv /\ Stratum => DispatchInv'
<1> SUFFICES ASSUME DispatchInv, Stratum PROVE DispatchInv'
  OBVIOUS
<1>1. UNCHANGED miners
  BY DEF Stratum, Publish, ClearJob, RestartThreads, OnlyFlags, miners
<1>2. DispatchTypeOK'
  <2>1. restart' \in [Threads -> BOOLEAN]
    BY DEF DispatchInv, DispatchTypeOK, Stratum, Publish, ClearJob, RestartThreads,
           OnlyFlags, AllRestarted
  <2>2. gwork' \in Work /\ cleared' \in BOOLEAN
    BY DEF DispatchInv, DispatchTypeOK, Stratum, Publish, ClearJob, RestartThreads,
           OnlyFlags, Work
  <2> QED
    BY <1>1, <2>1, <2>2 DEF DispatchInv, DispatchTypeOK, Stratum, miners
<1>3. StaleScanIsRestarted'
  BY <1>1 DEF DispatchInv, StaleScanIsRestarted, Stratum, Publish, ClearJob,
              RestartThreads, OnlyFlags, AllRestarted, miners
<1>4. ScanInSlice' /\ SliceKept'
  BY <1>1 DEF DispatchInv, ScanInSlice, SliceKept, miners
<1> QED
  BY <1>2, <1>3, <1>4 DEF DispatchInv

(* A fetch leaves the miner with the shared work and within its slice.     *)
LEMMA FetchKeepsInv ==
  ASSUME DispatchInv, NEW t \in Threads, Fetch(t)
  PROVE  DispatchInv'
<1> DEFINE n == IF NeedsCopy(t) THEN First(t) ELSE nonce[t] + 1
           e == IF NeedsCopy(t) THEN End(t) ELSE endNonce[t]
<1>1. PICK batch \in 1..MaxBatch :
        limit' = [limit EXCEPT ![t] = (IF n + batch > e THEN e ELSE n + batch) - 1]
  BY DEF Fetch
<1>2. /\ mpc' = [mpc EXCEPT ![t] = "scan"]
      /\ work' = IF NeedsCopy(t) THEN [work EXCEPT ![t] = gwork] ELSE work
      /\ nonce' = [nonce EXCEPT ![t] = n]
      /\ endNonce' = [endNonce EXCEPT ![t] = e]
      /\ restart' = [restart EXCEPT ![t] = FALSE]
      /\ UNCHANGED <<env, found>>
  BY DEF Fetch, MinerAt
<1>3. First(t) \in 0..MaxNonce /\ End(t) \in 0..MaxNonce /\ First(t) < End(t)
  BY SliceBounds
<1>4. /\ e = End(t) /\ n \in 0..MaxNonce /\ First(t) <= n /\ n <= e
  <2>1. CASE NeedsCopy(t)
    BY <1>3, <2>1
  <2>2. CASE ~NeedsCopy(t)
    <3>1. work[t].job # NoJob /\ ~(nonce[t] >= endNonce[t])
      BY <2>2 DEF NeedsCopy
    <3>2. nonce[t] \in 0..MaxNonce /\ endNonce[t] = End(t) /\ First(t) <= nonce[t]
      BY <3>1 DEF DispatchInv, DispatchTypeOK, SliceKept
    <3> QED
      BY <1>3, <2>2, <3>1, <3>2, ThreadsAssumption
  <2> QED
    BY <2>1, <2>2
<1>5. limit'[t] \in 0..MaxNonce /\ limit'[t] < End(t)
  BY <1>1, <1>3, <1>4, BatchAssumption, ThreadsAssumption DEF DispatchInv, DispatchTypeOK
<1>6. limit' = [limit EXCEPT ![t] = limit'[t]]
  BY <1>1 DEF DispatchInv, DispatchTypeOK
<1> HIDE DEF n, e
<1>7. DispatchTypeOK'
  BY <1>2, <1>3, <1>4, <1>5, <1>6 DEF DispatchInv, DispatchTypeOK, MinerLocations, env
<1>8. StaleScanIsRestarted'
  BY <1>2 DEF DispatchInv, DispatchTypeOK, StaleScanIsRestarted, NeedsCopy, env
<1>9. ScanInSlice' /\ SliceKept'
  BY <1>2, <1>3, <1>4, <1>5, <1>6 DEF DispatchInv, DispatchTypeOK, ScanInSlice, SliceKept
<1> QED
  BY <1>7, <1>8, <1>9 DEF DispatchInv

(* A round of hashing stays below the limit of the scan. *)
LEMMA HashKeepsInv ==
  ASSUME DispatchInv, NEW t \in Threads, Hash(t)
  PROVE  DispatchInv'
<1>1. PICK f \in Shares(t) : found' = [found EXCEPT ![t] = f]
  BY DEF Hash
<1>2. nonce[t] \in Nat /\ limit[t] \in Nat /\ nonce[t] < limit[t] /\ limit[t] <= MaxNonce
  BY ThreadsAssumption DEF Hash, DispatchInv, DispatchTypeOK
<1>3. f \in SUBSET Nat
  BY <1>2 DEF Shares, Round
<1>4. /\ nonce' = [nonce EXCEPT ![t] = nonce'[t]]
      /\ nonce'[t] \in Nat /\ nonce[t] < nonce'[t] /\ nonce'[t] <= limit[t]
  BY <1>2 DEF Hash, DispatchInv, DispatchTypeOK
<1>5. nonce'[t] \in 0..MaxNonce
  BY <1>2, <1>4, ThreadsAssumption
<1>6. UNCHANGED <<env, restart, mpc, work, endNonce, limit>>
  BY DEF Hash
<1>7. mpc[t] = "scan"
  BY DEF Hash
<1>8. DispatchTypeOK'
  BY <1>1, <1>3, <1>4, <1>5, <1>6 DEF DispatchInv, DispatchTypeOK, env
<1>9. StaleScanIsRestarted'
  BY <1>6 DEF DispatchInv, StaleScanIsRestarted, env
<1>10. First(t) \in Nat /\ End(t) \in Nat /\ First(t) <= nonce[t] /\ limit[t] < End(t) /\ endNonce[t] = End(t)
  BY <1>7, SliceBounds, ThreadsAssumption DEF DispatchInv, ScanInSlice, SliceKept
<1>11. ScanInSlice'
  BY <1>2, <1>4, <1>6, <1>10 DEF DispatchInv, DispatchTypeOK, ScanInSlice
<1>12. SliceKept'
  BY <1>2, <1>4, <1>6, <1>10 DEF DispatchInv, DispatchTypeOK, SliceKept
<1> QED
  BY <1>8, <1>9, <1>11, <1>12 DEF DispatchInv

(* The other steps of a miner move only its place, or hand in a share.     *)
LEMMA OtherStepsKeepInv ==
  ASSUME DispatchInv, NEW t \in Threads,
         FirstJob(t) \/ Proceed(t) \/ WakeUp(t) \/ Submit(t) \/ ScanEnds(t)
  PROVE  DispatchInv'
<1>1. /\ UNCHANGED <<env, restart, work, nonce, endNonce, limit>>
      /\ \E l \in MinerLocations \ {"scan"} : mpc' = mpc \/ mpc' = [mpc EXCEPT ![t] = l]
      /\ found' = found \/ \E n \in Nat : found' = [found EXCEPT ![t] = @ \ {n}]
  BY DEF FirstJob, Proceed, WakeUp, Submit, ScanEnds, MinerAt, MinerLocations,
         DispatchInv, DispatchTypeOK
<1>2. DispatchTypeOK'
  BY <1>1 DEF DispatchInv, DispatchTypeOK, env
<1>3. StaleScanIsRestarted' /\ ScanInSlice' /\ SliceKept'
  BY <1>1 DEF DispatchInv, DispatchTypeOK, StaleScanIsRestarted, ScanInSlice, SliceKept, env
<1> QED
  BY <1>2, <1>3 DEF DispatchInv

(* Every step of a miner or of the stratum thread keeps the invariant. *)
LEMMA InvStep == DispatchInv /\ [DNext]_dvars => DispatchInv'
<1> SUFFICES ASSUME DispatchInv, [DNext]_dvars PROVE DispatchInv'
  OBVIOUS
<1>1. CASE Stratum
  BY <1>1, StratumKeepsInv
<1>2. ASSUME NEW t \in Threads, Miner(t) PROVE DispatchInv'
  BY <1>2, FetchKeepsInv, HashKeepsInv, OtherStepsKeepInv DEF Miner
<1>3. CASE UNCHANGED dvars
  BY <1>3 DEF DispatchInv, DispatchTypeOK, StaleScanIsRestarted, ScanInSlice, SliceKept,
              dvars, env, miners
<1> QED
  BY <1>1, <1>2, <1>3 DEF DNext

(* The invariant holds in every state of every behaviour. *)
THEOREM Invariance == DispatchSpec => []DispatchInv
BY InvInit, InvStep, PTL DEF DispatchSpec

(* The types of the work and of the restart flags, and no 32-bit overflow  *)
(* of a nonce, for every number of threads.                                *)
THEOREM TypesAndBounds == DispatchSpec => []DispatchTypeOK
<1>1. DispatchInv => DispatchTypeOK
  BY DEF DispatchInv
<1> QED
  BY <1>1, Invariance, PTL

(* No restart is lost between stratum_gen_work, the reset block and the    *)
(* miners, in any order of their steps.                                    *)
THEOREM NoLostRestart == DispatchSpec => []StaleScanIsRestarted
<1>1. DispatchInv => StaleScanIsRestarted
  BY DEF DispatchInv
<1> QED
  BY <1>1, Invariance, PTL

(* No scan leaves the slice of its thread. *)
THEOREM ScansStayInSlice == DispatchSpec => []ScanInSlice
<1>1. DispatchInv => ScanInSlice
  BY DEF DispatchInv
<1> QED
  BY <1>1, Invariance, PTL

(* The rounds of two threads lie in slices that do not meet. *)
LEMMA RoundsApart == DispatchInv => RoundsDisjoint
<1> SUFFICES ASSUME DispatchInv PROVE RoundsDisjoint
  OBVIOUS
<1>1. ASSUME NEW t \in Threads, mpc[t] = "scan", nonce[t] < limit[t]
      PROVE  \A n \in Round(t) : n \in Int /\ First(t) <= n /\ n < End(t)
  <2>1. nonce[t] \in Nat /\ limit[t] \in Nat /\ First(t) <= nonce[t] /\ limit[t] < End(t)
    BY <1>1, ThreadsAssumption DEF DispatchInv, DispatchTypeOK, ScanInSlice
  <2>2. First(t) \in Int /\ End(t) \in Int
    BY SliceBounds
  <2> QED
    BY <1>1, <2>1, <2>2 DEF Round
<1>2. ASSUME NEW t \in Threads, NEW u \in Threads, t < u,
             mpc[t] = "scan", nonce[t] < limit[t], mpc[u] = "scan", nonce[u] < limit[u]
      PROVE  Round(t) \cap Round(u) = {}
  <2>1. First(u) \in Int /\ End(t) \in Int /\ End(t) < First(u)
    BY <1>2, SlicesApart, SliceBounds
  <2>2. \A n \in Round(t) : n \in Int /\ n < End(t)
    BY <1>1, <1>2
  <2>3. \A n \in Round(u) : First(u) <= n
    BY <1>1, <1>2
  <2> QED
    BY <2>1, <2>2, <2>3
<1>3. \A t, u \in Threads : t # u => t < u \/ u < t
  BY ThreadsAssumption DEF Threads
<1> QED
  BY <1>2, <1>3 DEF RoundsDisjoint

(* No two threads hash the same nonce at a time. *)
THEOREM NoNonceTwice == DispatchSpec => []RoundsDisjoint
BY RoundsApart, Invariance, PTL
=============================================================================
