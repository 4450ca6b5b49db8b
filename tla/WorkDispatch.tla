----------------------------- MODULE WorkDispatch -----------------------------
(***************************************************************************)
(* How the mining threads get their work: the shared g_work and its        *)
(* read-write lock, the restart flags, std_get_new_work (soj_work.c), the  *)
(* loop of main_entry_thread (soj.c) and scanhash_civiclight.              *)
(*                                                                         *)
(* The stratum thread is an environment that may, in any order, publish    *)
(* work, clear the job id, restart the threads and change the two flags    *)
(* the miners look at; MinerSystem shows that the real one is a special    *)
(* case of it.  What holds here holds whatever the pool and the network do.*)
(*                                                                         *)
(* `data' stands for the 76 bytes of header that std_get_new_work compares,*)
(* `epoch' for g_work.reauth_epoch.  A step under g_work_lock is atomic.   *)
(***************************************************************************)
EXTENDS Integers

CONSTANTS N,          \* opt_n_threads
          MaxNonce,   \* 0xffffffff
          Reserve,    \* 0x20, nonces left unused at the end of a slice
          MaxBatch,   \* bound on max64, the hashes of one scan
          Jobs, NoJob,
          Data, NoData,   \* headers; the zeroed one before the first job
          Epochs          \* values of reauth_epoch

\* There are far fewer threads than nonces, and slices are longer than the reserve.
ASSUME ThreadsAssumption == /\ N \in Nat \ {0} /\ MaxNonce \in Nat /\ Reserve \in Nat \ {0}
                            /\ N <= MaxNonce \div N /\ Reserve < MaxNonce \div N
ASSUME BatchAssumption == MaxBatch \in Nat \ {0}
ASSUME WorkAssumption == NoJob \notin Jobs /\ NoData \notin Data /\ 0 \in Epochs

VARIABLES down,       \* stratum_down
          announced,  \* stratum.job.job_id is not NULL
          gwork,      \* g_work
          cleared,    \* g_work.job_id was cleared, restart_threads is due
          restart,    \* work_restart[t].restart
          mpc,        \* where the miner is
          work,       \* its copy of the work
          nonce,      \* work.data[19], and n of scanhash_civiclight
          endNonce,   \* end_nonce
          limit,      \* last_nonce of the running scan
          found       \* nonces of the last pair that are still to be submitted

env    == <<down, announced, gwork, cleared>>
miners == <<mpc, work, nonce, endNonce, limit, found>>
dvars  == <<env, restart, miners>>

Threads == 0..(N - 1)

Work == [job : Jobs \cup {NoJob}, data : Data \cup {NoData}, epoch : Epochs]

BlankWork == [job |-> NoJob, data |-> NoData, epoch |-> 0]

\* The nonces of a thread: from First(t) up to, and not including, End(t).
Slice == MaxNonce \div N

(* Mutants: every thread starts at zero; a slice ends where the next does. *)
First_Zero(t) == 0

End_Next(t) == Slice * (t + 2) - Reserve

First(t) == Slice * t

End(t) == Slice * (t + 1) - Reserve

DInit == /\ down = TRUE /\ announced = FALSE
         /\ gwork = BlankWork /\ cleared = FALSE
         /\ restart = [t \in Threads |-> FALSE]
         /\ mpc = [t \in Threads |-> "start"]
         /\ work = [t \in Threads |-> BlankWork]
         /\ nonce = [t \in Threads |-> 0]
         /\ endNonce = [t \in Threads |-> Slice * (t + 1) - N]
         /\ limit = [t \in Threads |-> 0]
         /\ found = [t \in Threads |-> {}]
-----------------------------------------------------------------------------
(* The stratum thread's side. *)

AllRestarted == [t \in Threads |-> TRUE]

\* stratum_gen_work: g_work and every restart flag under the write lock.
Publish(w) == /\ gwork' = w
              /\ restart' = AllRestarted
              /\ UNCHANGED <<cleared, miners>>

\* The reset block clears g_work.job_id under the write lock ...
ClearJob == /\ gwork' = [gwork EXCEPT !.job = NoJob]
            /\ cleared' = TRUE
            /\ UNCHANGED <<restart, miners>>

\* ... and restarts the threads after it; other callers restart them, too.
RestartThreads == /\ restart' = AllRestarted
                  /\ cleared' = FALSE
                  /\ UNCHANGED <<gwork, miners>>

OnlyFlags == UNCHANGED <<gwork, cleared, restart, miners>>

Stratum == /\ down' \in BOOLEAN /\ announced' \in BOOLEAN
           /\ \/ gwork' \in [job : Jobs, data : Data, epoch : Epochs] /\ Publish(gwork')
              \/ ClearJob
              \/ RestartThreads
              \/ OnlyFlags
-----------------------------------------------------------------------------
(* main_entry_thread *)

MinerAt(t, from, to) == mpc[t] = from /\ mpc' = [mpc EXCEPT ![t] = to]

\* wait for stratum to send the first job
FirstJob(t) == /\ announced
               /\ MinerAt(t, "start", "top")
               /\ UNCHANGED <<env, restart, work, nonce, endNonce, limit, found>>

\* The top of the loop: wait while the stratum is down, then go and get
\* work, or wait for a restart when the slice is used up.
Proceed(t) ==
    /\ ~down
    /\ MinerAt(t, "top", IF nonce[t] >= endNonce[t] /\ ~restart[t] THEN "idle" ELSE "fetch")
    /\ UNCHANGED <<env, restart, work, nonce, endNonce, limit, found>>

(* Mutant: only a new job id ends the wait of an exhausted miner. *)
WakeUp_NewJobOnly(t) == /\ restart[t] /\ work[t].job # gwork.job
                        /\ MinerAt(t, "idle", "fetch")
                        /\ UNCHANGED <<env, restart, work, nonce, endNonce, limit, found>>

WakeUp(t) == /\ restart[t]
             /\ MinerAt(t, "idle", "fetch")
             /\ UNCHANGED <<env, restart, work, nonce, endNonce, limit, found>>

(* Mutant: a blank job id on either side no longer forces a copy, and the  *)
(* header is not compared.                                                 *)
NeedsCopy_JobOnly(t) == work[t].job # gwork.job \/ nonce[t] >= endNonce[t]

(* std_get_new_work takes the shared work over when its job differs or     *)
(* either job id is missing, when the slice is used up, and when the       *)
(* header differs.                                                         *)
NeedsCopy(t) == \/ work[t].job = NoJob \/ gwork.job = NoJob
                \/ work[t].job # gwork.job
                \/ nonce[t] >= endNonce[t]
                \/ work[t].data # gwork.data

(* Mutant: max_nonce is not limited by end_nonce. *)
Fetch_Unclamped(t) ==
    /\ MinerAt(t, "fetch", "scan")
    /\ work' = [work EXCEPT ![t] = gwork]
    /\ nonce' = [nonce EXCEPT ![t] = IF NeedsCopy(t) THEN First(t) ELSE @ + 1]
    /\ endNonce' = [endNonce EXCEPT ![t] = End(t)]
    /\ restart' = [restart EXCEPT ![t] = FALSE]
    /\ \E batch \in 1..MaxBatch : limit' = [limit EXCEPT ![t] = nonce'[t] + batch - 1]
    /\ UNCHANGED <<env, found>>

\* get_new_work and the restart flag under the read lock, then max_nonce.
Fetch(t) ==
    LET copy == NeedsCopy(t)
        n    == IF copy THEN First(t) ELSE nonce[t] + 1
        e    == IF copy THEN End(t) ELSE endNonce[t]
    IN /\ MinerAt(t, "fetch", "scan")
       /\ work' = IF copy THEN [work EXCEPT ![t] = gwork] ELSE work
       /\ nonce' = [nonce EXCEPT ![t] = n]
       /\ endNonce' = [endNonce EXCEPT ![t] = e]
       /\ restart' = [restart EXCEPT ![t] = FALSE]
       /\ \E batch \in 1..MaxBatch :
            limit' = [limit EXCEPT ![t] = (IF n + batch > e THEN e ELSE n + batch) - 1]
       /\ UNCHANGED <<env, found>>
-----------------------------------------------------------------------------
(* scanhash_civiclight *)

\* The nonces hashed by the next round: a pair while it fits, then one.
Round(t) == IF nonce[t] + 1 < limit[t] THEN {nonce[t], nonce[t] + 1} ELSE {nonce[t]}

\* Any of them may be a share, except under the zero target of a blank work.
Shares(t) == IF work[t].data = NoData THEN {{}} ELSE SUBSET Round(t)

Hash(t) == /\ mpc[t] = "scan" /\ found[t] = {}
           /\ nonce[t] < limit[t] /\ ~restart[t]
           /\ found' \in {[found EXCEPT ![t] = f] : f \in Shares(t)}
           /\ nonce' = [nonce EXCEPT ![t] = IF nonce[t] + 1 < limit[t] THEN @ + 2 ELSE @ + 1]
           /\ UNCHANGED <<env, restart, mpc, work, endNonce, limit>>

\* submit_solution for the lowest nonce found
Submit(t) == /\ found[t] # {}
             /\ \E n \in found[t] :
                  /\ \A m \in found[t] : n <= m
                  /\ found' = [found EXCEPT ![t] = @ \ {n}]
             /\ UNCHANGED <<env, restart, mpc, work, nonce, endNonce, limit>>

ScanEnds(t) == /\ found[t] = {}
               /\ nonce[t] >= limit[t] \/ restart[t]
               /\ MinerAt(t, "scan", "top")
               /\ UNCHANGED <<env, restart, work, nonce, endNonce, limit, found>>

Miner(t) == \/ FirstJob(t) \/ Proceed(t) \/ WakeUp(t) \/ Fetch(t)
            \/ Hash(t) \/ Submit(t) \/ ScanEnds(t)

DNext == Stratum \/ \E t \in Threads : Miner(t)

DispatchSpec == DInit /\ [][DNext]_dvars
-----------------------------------------------------------------------------
MinerLocations == {"start", "top", "idle", "fetch", "scan"}

(* Every variable holds a value its C type and its use allow; the nonces   *)
(* are unsigned, and neither their sums nor max_nonce - 1 leave the range. *)
DispatchTypeOK ==
    /\ down \in BOOLEAN /\ announced \in BOOLEAN /\ cleared \in BOOLEAN
    /\ gwork \in Work
    /\ restart \in [Threads -> BOOLEAN]
    /\ mpc \in [Threads -> MinerLocations]
    /\ work \in [Threads -> Work]
    /\ nonce \in [Threads -> 0..MaxNonce]
    /\ endNonce \in [Threads -> 0..MaxNonce]
    /\ limit \in [Threads -> 0..MaxNonce]
    /\ found \in [Threads -> SUBSET Nat]

(* No restart is lost: a miner that scans something else than the shared   *)
(* work has its restart flag set, or restart_threads is about to set it.   *)
(* The flag is cleared by the miner itself, in the same read-locked        *)
(* section in which it takes the work over.                                *)
StaleScanIsRestarted ==
    \A t \in Threads :
        mpc[t] = "scan" /\ (work[t].job # gwork.job \/ work[t].data # gwork.data)
            => restart[t] \/ cleared

(* A scan stays in the slice of its thread: it starts at or after First(t) *)
(* and never reaches End(t), however often it was interrupted, resumed or  *)
(* restarted.                                                              *)
ScanInSlice ==
    \A t \in Threads :
        mpc[t] = "scan" => First(t) <= nonce[t] /\ limit[t] < End(t)

(* Two threads never hash the same nonce, whatever work they hold.         *)
RoundsDisjoint ==
    \A t, u \in Threads :
        (t # u /\ mpc[t] = "scan" /\ nonce[t] < limit[t]
               /\ mpc[u] = "scan" /\ nonce[u] < limit[u])
            => Round(t) \cap Round(u) = {}
=============================================================================
