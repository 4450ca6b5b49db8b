----------------------------- MODULE MinerSystem ------------------------------
(***************************************************************************)
(* The whole miner: the stratum thread (StratumSession), the mining        *)
(* threads (WorkDispatch) and the workio thread (soj.c) that sends their   *)
(* shares, on the shared g_work, restart flags, submission queue,          *)
(* stratum_down, solution_submission_suspended and reauth_epoch.           *)
(*                                                                         *)
(* Each step of the stratum thread is joined with what it does to the      *)
(* miners, to reauth_epoch and to extranonce2.  The header built by        *)
(* stratum_gen_work depends on the extranonce1 of its session and on       *)
(* extranonce2: `data' is the number of the connection and extranonce2.    *)
(***************************************************************************)
EXTENDS StratumSession, Sequences

CONSTANTS N, MaxNonce, Reserve, MaxBatch,   \* as in WorkDispatch
          Troubles,                         \* bound: sequences of sets of faults, one
                                            \* of which a behaviour may meet in order
          MaxQueue,                         \* bound: shares waiting for workio
          MaxXnonce2                        \* bound: publications of one job

ASSUME SystemAssumption == /\ Troubles \subseteq Seq(SUBSET Faults)
                           /\ MaxQueue \in Nat /\ MaxXnonce2 \in Nat

\* As in WorkDispatch: far fewer threads than nonces, slices longer than the reserve.
ASSUME MinersAssumption == /\ N \in Nat \ {0} /\ MaxNonce \in Nat /\ Reserve \in Nat \ {0}
                           /\ N <= MaxNonce \div N /\ Reserve < MaxNonce \div N
                           /\ MaxBatch \in Nat \ {0}

VARIABLES
  gwork, restart, mpc, work, nonce, endNonce, limit, found,  \* as in WorkDispatch
  epoch,       \* reauth_epoch
  conn,        \* number of the latest connection
  xnonce2,     \* stratum.job.xnonce2
  faultsLeft,  \* faults that may still happen, in this order
  queue,       \* shares pushed to the workio thread
  wpc, wcmd    \* where that thread is, and its command

NoData == << >>
Data   == Nat \X Nat
Epochs == Nat

D == INSTANCE WorkDispatch WITH announced <- (job # NoJob),
                                cleared   <- (pc = "resetRestart")

Cmd    == [work : D!Work, token : Epochs]
NoCmd  == [work |-> D!BlankWork, token |-> 0]

mining  == <<gwork, restart, mpc, work, nonce, endNonce, limit, found>>
workio  == <<queue, wpc, wcmd>>
vars    == <<svars, mining, epoch, conn, xnonce2, faultsLeft, workio>>

MInit == /\ SInit /\ D!DInit
         /\ epoch = 0 /\ conn = 0 /\ xnonce2 = 0 /\ faultsLeft \in Troubles
         /\ queue = << >> /\ wpc = "pop" /\ wcmd = NoCmd
-----------------------------------------------------------------------------
(* The stratum thread. *)

\* steps that neither fail nor touch anything of the other threads but flags
Silent == /\ \/ TopNoReset \/ ResetDown \/ ResetDisconnect
             \/ LinkUp \/ BackoffOver \/ Prime
             \/ SubscribeOk \/ AuthorizeOk \/ (AuthorizeMethod /\ curl' # "null")
             \/ curl = "null" /\ (SubscribeFails \/ AuthorizeFails)
             \/ ReauthSkip \/ ReauthBegin \/ ReauthDown \/ ReauthCut
             \/ ReauthUp \/ ReauthResume \/ ReauthFailed
             \/ ReauthTrue /\ caller # "pool"
             \/ SelectReady \/ RecvOther
             \/ RecvNotify /\ (job' = job => xnonce2 < MaxXnonce2)
             \/ NoGenWork \/ ClockStep \/ Crashed
          /\ D!OnlyFlags
          /\ UNCHANGED <<epoch, conn, faultsLeft>>

Connect == /\ ConnectOk
           /\ conn' = conn + 1
           /\ D!OnlyFlags
           /\ UNCHANGED <<epoch, faultsLeft>>

(* Mutant: restart_threads is not called. *)
Restart_Forgotten == /\ ResetRestart \/ LinkDown \/ PoolRestart
                     /\ UNCHANGED <<mining, epoch, conn, faultsLeft>>

\* restart_threads
Restart == /\ ResetRestart \/ LinkDown \/ PoolRestart
           /\ D!RestartThreads
           /\ UNCHANGED <<epoch, conn, faultsLeft>>

ClearWork == /\ ResetWork
             /\ D!ClearJob
             /\ UNCHANGED <<epoch, conn, faultsLeft>>

(* Mutant: the epoch stays as it is when the connection is lost. *)
Bump_Forgotten == /\ BumpEpoch \/ (ReauthTrue /\ caller = "pool")
                  /\ D!OnlyFlags
                  /\ UNCHANGED <<epoch, conn, faultsLeft>>

\* atomic_fetch_add(&reauth_epoch, 1)
Bump == /\ BumpEpoch \/ (ReauthTrue /\ caller = "pool")
        /\ epoch' = epoch + 1
        /\ D!OnlyFlags
        /\ UNCHANGED <<conn, faultsLeft>>

\* stratum_gen_work; with a NULL job_id the process ends
PublishWork == /\ GenWork
               /\ IF job = NoJob THEN D!OnlyFlags
                  ELSE D!Publish([job |-> job, data |-> <<conn, xnonce2>>, epoch |-> epoch])
               /\ UNCHANGED <<epoch, conn, faultsLeft>>

(* What goes wrong.  The third incorrect cycle error and the third failed  *)
(* read restart the threads.                                               *)
QuietFault(k) ==
    /\ \/ k = "connect"   /\ ConnectFails
       \/ k = "setup"     /\ curl # "null" /\ (SubscribeAgain \/ SubscribeFails \/ AuthorizeFails)
       \/ k = "reconnect" /\ ((AuthorizeMethod /\ curl' = "null") \/ RecvReconnect)
       \/ k = "timeout"   /\ SelectTimeout
       \/ k = "badnotify" /\ RecvBadNotify
       \/ k = "garbage"   /\ RecvGarbage
       \/ k = "stale"     /\ RecvStaleError
       \/ k = "cycle"     /\ RecvCycleError /\ pc' = "post"
       \/ k = "recv"      /\ RecvFails /\ pc' = "reauth"
    /\ D!OnlyFlags

RestartFault(k) == /\ \/ k = "cycle" /\ RecvCycleError /\ pc' = "reauth"
                      \/ k = "recv"  /\ RecvFails /\ pc' = "recvWait"
                   /\ D!RestartThreads

Fault == /\ faultsLeft # << >>
         /\ faultsLeft' = Tail(faultsLeft)
         /\ \E k \in Head(faultsLeft) : QuietFault(k) \/ RestartFault(k)
         /\ UNCHANGED <<epoch, conn>>

(* extranonce2 starts from zero with a new job id and moves on with every  *)
(* publication.                                                            *)
Stratum == /\ \/ Silent \/ Connect \/ Restart \/ ClearWork \/ Bump \/ PublishWork \/ Fault
           /\ xnonce2' = IF job' # job THEN 0
                         ELSE IF GenWork /\ job # NoJob THEN xnonce2 + 1
                         ELSE xnonce2
           /\ UNCHANGED workio
-----------------------------------------------------------------------------
(* The mining threads; submit_solution copies the work, tags it with the   *)
(* present epoch and pushes it to the workio thread.                       *)

Mine(t) == /\ \/ D!FirstJob(t) \/ D!Proceed(t) \/ D!WakeUp(t) \/ D!Fetch(t)
              \/ D!Hash(t) \/ D!ScanEnds(t)
           /\ UNCHANGED workio

SubmitShare(t) == /\ Len(queue) < MaxQueue
                  /\ D!Submit(t)
                  /\ queue' = Append(queue, [work |-> work[t], token |-> epoch])
                  /\ UNCHANGED <<wpc, wcmd>>

Miner(t) == /\ pc # "crashed"
            /\ UNCHANGED <<svars, epoch, conn, xnonce2, faultsLeft>>
            /\ Mine(t) \/ SubmitShare(t)
-----------------------------------------------------------------------------
(* The workio thread: workio_submit_work and submit_upstream_work. *)

WorkioAt(from, to) == wpc = from /\ wpc' = to

\* tq_pop, and the first look at reauth_epoch
Pop == /\ queue # << >>
       /\ wcmd' = Head(queue) /\ queue' = Tail(queue)
       /\ WorkioAt("pop", IF Head(queue).token < epoch THEN "pop" ELSE "wait")

(* Mutant: a suspended submission waits for the end of the suspension. *)
Resume_Waits == /\ ~paused /\ ~suspended
                /\ WorkioAt("wait", "check")
                /\ UNCHANGED <<queue, wcmd>>

\* enforce_backoff_wait_if_needed, then is_solution_submission_suspended
Resume == /\ ~paused
          /\ WorkioAt("wait", IF suspended THEN "pop" ELSE "check")
          /\ UNCHANGED <<queue, wcmd>>

\* the second look at reauth_epoch, now for the work
Check == /\ WorkioAt("check", IF wcmd.work.epoch < epoch THEN "pop" ELSE "send")
         /\ UNCHANGED <<queue, wcmd>>

\* stratum_send_line under sock_lock; a failure is not retried
Send == /\ WorkioAt("send", "pop")
        /\ UNCHANGED <<queue, wcmd>>

Workio == /\ pc # "crashed"
          /\ Pop \/ Resume \/ Check \/ Send
          /\ UNCHANGED <<svars, mining, epoch, conn, xnonce2, faultsLeft>>
-----------------------------------------------------------------------------
MNext == Stratum \/ (\E t \in D!Threads : Miner(t)) \/ Workio

MinerSpec == MInit /\ [][MNext]_vars

\* Threads are scheduled and pauses end; nothing is asked of the pool.
MinerFairness == /\ WF_vars(Workio)
                 /\ WF_vars(PauseEnds /\ Stratum)
                 /\ \A t \in D!Threads : WF_vars(Miner(t))

FairMinerSpec == MinerSpec /\ MinerFairness
-----------------------------------------------------------------------------
Pending == {queue[i] : i \in 1..Len(queue)}
               \cup (IF wpc \in {"wait", "check"} THEN {wcmd} ELSE {})

(* "Bump epoch to invalidate any queued submissions on connection loss":   *)
(* when a new connection is there, every share of an older one that has    *)
(* not passed the workio thread's checks will be dropped by them.          *)
OldSharesMarked == curl # "null" /\ ~suspended
                       => \A c \in Pending : c.work.data[1] # conn => c.work.epoch < epoch

(* Every share that is queued names a job: no miner hashes for a job id    *)
(* that the reset has cleared.                                             *)
SharesHaveJob == \A c \in Pending : c.work.job # NoJob

(* "Waiting for new work...": a miner that has used up its nonces does not *)
(* hash them again for the same work.                                      *)
ExhaustedWaitsForWork ==
    [][\A t \in D!Threads :
          mpc[t] = "fetch" /\ mpc'[t] = "scan" /\ nonce[t] >= endNonce[t]
              => work[t] # gwork]_vars

(* No share blocks the ones behind it: the workio thread comes back to its *)
(* queue although the stratum thread suspends submissions, for good when a *)
(* reauthentication fails, starts a backoff while a share waits, or starts *)
(* another one before that share has seen the end of the first.  Backoffs  *)
(* without end are not meant: their causes are bounded by Troubles.        *)
SubmissionEnds == wpc # "pop" ~> wpc = "pop"

(* Published work is taken: a miner whose restart flag is set clears it    *)
(* when it fetches the work, also when it was waiting with its slice used  *)
(* up, unless the stratum goes down or it still waits for a first job.     *)
NewWorkIsTaken ==
    \A t \in D!Threads : restart[t] ~> (~restart[t] \/ down \/ mpc[t] = "start")

(* The stratum thread, as it really behaves, is one of the environments    *)
(* WorkDispatch allows for: what holds there holds in the whole miner.     *)
Dispatches == D!DispatchSpec
=============================================================================
