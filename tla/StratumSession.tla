---------------------------- MODULE StratumSession ----------------------------
(***************************************************************************)
(* The control of the stratum thread: stratum_thread and                   *)
(* stratum_handle_response of soj.c, and the connection functions they     *)
(* call in soj_stratum_transport.c and soj_stratum_methods.c.  An action   *)
(* is a stretch of code between two writes that another thread can see or  *)
(* between two blocking calls.  The pool and the network decide the        *)
(* outcome of every call; of a line only the branch it selects is kept.    *)
(*                                                                         *)
(* What the same steps do to the shared work, to the restart flags and to  *)
(* reauth_epoch is added by MinerSystem, action by action.                 *)
(*                                                                         *)
(* Wall-clock waits are truth values: `paused' is now < pause_until_time,  *)
(* `cooldown' is immediate_disconnect /\ now < next_reconnect_time.        *)
(***************************************************************************)
EXTENDS Naturals

CONSTANTS Jobs,             \* job ids the pool may announce
          NoJob,            \* a NULL job_id
          Faults            \* what the pool and the network may do wrong

AllFaults == {"connect", "setup", "recv", "timeout", "garbage", "stale",
              "cycle", "reconnect", "badnotify"}

ASSUME SessionAssumption == NoJob \notin Jobs /\ Faults \subseteq AllFaults

VARIABLES
  pc,            \* where the stratum thread is
  caller,        \* who wants the connection: the reconnect loop, or the
                 \* branch that called stratum_reauthenticate
  retry,         \* retry_count of stratum_reauthenticate
  again,         \* retry of stratum_subscribe: the second request is out
  curl,          \* stratum.curl: NULL, or how far the pool let us in
  url,           \* stratum.url: the configured pool or a redirection
  cooldown,      \* the pool closed a connection at once: refuse to connect
  job, newJob,   \* stratum.job.job_id, stratum.new_job
  preJob,        \* pre_reauth_job_id
  down,          \* stratum_down
  suspended,     \* solution_submission_suspended
  inProgress,    \* reauth_in_progress
  needReset,     \* stratum_need_reset
  recvFailures,  \* recv_failures of stratum_thread
  lineFailures,  \* consecutive_stratum_failures of stratum_recv_line
  cycleErrors,   \* consecutive_incorrect_cycle_errors
  paused         \* protection backoff is running

control == <<pc, caller, retry, again>>
link    == <<curl, url, cooldown>>
jobs    == <<job, newJob, preJob>>
flags   == <<down, suspended, inProgress, needReset>>
counts  == <<recvFailures, lineFailures, cycleErrors, paused>>
svars   == <<control, link, jobs, flags, counts>>

ReauthCallers == {"json", "pool", "recv", "timeout"}

\* stages of stratum_connect, stratum_subscribe, stratum_authorize
Setup == {"connect", "subscribe", "authorize"}

Locations == {"top", "reset", "resetWork", "resetRestart", "link", "bump", "wait",
              "prime", "primeGen", "select", "recv", "recvWait", "post",
              "reauth", "reauthDown", "reauthCut", "reauthUp", "reauthResume",
              "reauthFailed", "reauthTrue", "poolRestart", "crashed"} \cup Setup

MaxAttempts  == 3   \* max_retries of stratum_reauthenticate
RecvLimit    == 3   \* recv_failures that engage the backoff
LineDrop     == 2   \* consecutive failures that force a disconnect
LinePause    == 3   \* MAX_FAILURES_BEFORE_PAUSE
CycleLimit   == 2   \* incorrect cycle errors that are only counted
-----------------------------------------------------------------------------
SInit == /\ pc = "top" /\ caller = "loop" /\ retry = 0 /\ again = FALSE
         /\ curl = "null" /\ url = "pool" /\ cooldown = FALSE
         /\ job = NoJob /\ newJob = FALSE /\ preJob = NoJob
         /\ down = TRUE /\ suspended = FALSE /\ inProgress = FALSE /\ needReset = FALSE
         /\ recvFailures = 0 /\ lineFailures = 0 /\ cycleErrors = 0 /\ paused = FALSE

Goto(l) == pc' = l /\ UNCHANGED <<caller, retry, again>>

(* Mutant of stratum_disconnect: pending data flags survive. *)
Disconnect_KeepsNewJob == curl' = "null" /\ job' = NoJob /\ UNCHANGED newJob

(* stratum_disconnect *)
Disconnect == curl' = "null" /\ newJob' = FALSE /\ job' = NoJob

(* Mutant: a failed set-up or socket leaves the connection as it is. *)
DropIf_Never(b) == UNCHANGED <<curl, newJob, job>>

DropIf(b) == IF b THEN Disconnect ELSE UNCHANGED <<curl, newJob, job>>

(* stratum_recv_line: a line resets the failure counter; a failed socket   *)
(* counts, drops the connection from the second failure on and pauses at   *)
(* the third; 60 seconds without data count for nothing.  cut is TRUE when *)
(* the caller disconnects after it, engage when it engages the backoff.    *)
Received == lineFailures' = 0 /\ UNCHANGED paused

RecvTimedOut(cut, engage) == /\ paused' = (paused \/ engage)
                             /\ DropIf(cut)
                             /\ UNCHANGED lineFailures

(* Mutant: the counter is not reset when the pause starts. *)
RecvCut_NoReset(cut, engage) == /\ curl # "null"
                                /\ lineFailures' = lineFailures + 1
                                /\ paused' = (paused \/ engage \/ lineFailures + 1 >= LinePause)
                                /\ DropIf(cut \/ lineFailures + 1 >= LineDrop)

RecvCut(cut, engage) == LET n == lineFailures + 1 IN
                        /\ curl # "null"
                        /\ lineFailures' = IF n >= LinePause THEN 0 ELSE n
                        /\ paused' = (paused \/ engage \/ n >= LinePause)
                        /\ DropIf(cut \/ n >= LineDrop)

RecvNothing(cut, engage) == RecvTimedOut(cut, engage) \/ RecvCut(cut, engage)
-----------------------------------------------------------------------------
(* stratum_thread, the reset block. *)

TopNoReset == /\ pc = "top" /\ ~needReset
              /\ Goto("link")
              /\ UNCHANGED <<link, jobs, flags, counts>>

ResetDown == /\ pc = "top" /\ needReset
             /\ needReset' = FALSE /\ down' = TRUE
             /\ Goto("reset")
             /\ UNCHANGED <<link, jobs, suspended, inProgress, counts>>

ResetDisconnect == /\ pc = "reset"
                   /\ Disconnect
                   /\ Goto("resetWork")
                   /\ UNCHANGED <<url, cooldown, preJob, flags, counts>>

\* g_work.job_id is cleared under g_work_lock
ResetWork == /\ pc = "resetWork"
             /\ Goto("resetRestart")
             /\ UNCHANGED <<link, jobs, flags, counts>>

\* back to the configured url, then restart_threads
ResetRestart == /\ pc = "resetRestart"
                /\ job' = NoJob /\ newJob' = FALSE /\ url' = "pool"
                /\ Goto("link")
                /\ UNCHANGED <<curl, cooldown, preJob, flags, counts>>
-----------------------------------------------------------------------------
(* stratum_thread, while (!stratum.curl). *)

LinkUp == /\ pc = "link" /\ curl # "null"
          /\ Goto("select")
          /\ UNCHANGED <<link, jobs, flags, counts>>

(* Mutant of the loop head: the miners are not told that the link is down. *)
LinkDown_StaysUp == /\ pc = "link" /\ curl = "null"
                    /\ Goto("bump")
                    /\ UNCHANGED <<link, jobs, flags, counts>>

\* stratum_down, restart_threads
LinkDown == /\ pc = "link" /\ curl = "null"
            /\ down' = TRUE
            /\ Goto("bump")
            /\ UNCHANGED <<link, jobs, suspended, inProgress, needReset, counts>>

\* reauth_epoch
BumpEpoch == /\ pc = "bump"
             /\ pc' = "wait" /\ caller' = "loop" /\ UNCHANGED <<retry, again>>
             /\ UNCHANGED <<link, jobs, flags, counts>>

\* enforce_backoff_wait_if_needed returns, in the loop or after recv failures
BackoffOver == /\ pc \in {"wait", "recvWait"} /\ ~paused
               /\ Goto(IF pc = "wait" THEN "connect" ELSE "post")
               /\ needReset' = (needReset \/ pc = "recvWait")
               /\ UNCHANGED <<link, jobs, down, suspended, inProgress, counts>>

\* A new job came with the authorization: resume mining and publish it.
Prime == /\ pc = "prime"
         /\ Goto(IF newJob THEN "primeGen" ELSE "link")
         /\ down' = (down /\ ~newJob)
         /\ UNCHANGED <<link, jobs, suspended, inProgress, needReset, counts>>
-----------------------------------------------------------------------------
(* stratum_connect, stratum_subscribe and stratum_authorize, called by the *)
(* loop above (one attempt, and a disconnect when it fails) and by         *)
(* stratum_reauthenticate (up to three attempts of each stage).            *)

NextStage(l) == pc' = l /\ retry' = 0 /\ again' = FALSE /\ UNCHANGED caller

\* The reconnect loop starts over, stratum_reauthenticate has attempts left
\* or gives up; who gives up disconnects.
GivesUp == caller = "loop" \/ retry + 1 >= MaxAttempts

StageFailed == /\ pc' = IF caller = "loop" THEN "link"
                        ELSE IF GivesUp THEN "reauthFailed" ELSE pc
               /\ retry' = IF GivesUp THEN 0 ELSE retry + 1
               /\ again' = FALSE /\ UNCHANGED caller

ConnectOk == /\ pc = "connect" /\ ~cooldown
             /\ curl' = "connected"
             /\ url' = IF caller = "loop" THEN url ELSE "pool"
             /\ NextStage("subscribe")
             /\ UNCHANGED <<cooldown, jobs, flags, counts>>

\* No TCP connection, a cooldown that still runs, or a server that closes
\* at once and so starts one.
ConnectFails == /\ pc = "connect" /\ "connect" \in Faults
                /\ curl' = "null"
                /\ IF caller = "loop" THEN Disconnect ELSE UNCHANGED <<newJob, job>>
                /\ url' = IF caller = "loop" THEN url ELSE "pool"
                /\ cooldown' \in {cooldown, TRUE}
                /\ StageFailed
                /\ UNCHANGED <<preJob, flags, counts>>

SubscribeOk == /\ pc = "subscribe" /\ curl # "null"
               /\ Received
               /\ curl' = "subscribed"
               /\ NextStage("authorize")
               /\ UNCHANGED <<url, cooldown, jobs, flags, recvFailures, cycleErrors>>

\* An answer without a usable result: ask once more without parameters.
SubscribeAgain == /\ pc = "subscribe" /\ curl # "null" /\ ~again /\ "setup" \in Faults
                  /\ Received
                  /\ again' = TRUE /\ UNCHANGED <<pc, caller, retry>>
                  /\ UNCHANGED <<link, jobs, flags, recvFailures, cycleErrors>>

\* Requests on a connection that is gone fail by themselves.
SetupMayFail == curl = "null" \/ "setup" \in Faults

(* Mutant: stratum_reauthenticate gives up without stratum_disconnect.     *)
SubscribeFails_KeepsLink ==
    /\ pc = "subscribe" /\ SetupMayFail
    /\ \/ curl # "null" /\ again /\ Received /\ DropIf(caller = "loop")
       \/ RecvNothing(caller = "loop", FALSE)
    /\ StageFailed
    /\ UNCHANGED <<url, cooldown, preJob, flags, recvFailures, cycleErrors>>

\* Refused twice, not sent, not answered, or cut off.
SubscribeFails == /\ pc = "subscribe" /\ SetupMayFail
                  /\ \/ curl # "null" /\ again /\ Received /\ DropIf(GivesUp)
                     \/ RecvNothing(GivesUp, FALSE)
                  /\ StageFailed
                  /\ UNCHANGED <<url, cooldown, preJob, flags, recvFailures, cycleErrors>>

(* stratum_authorize handles method calls until a line is none: a notify,  *)
(* a client.reconnect, or one that changes nothing here.                   *)
AuthorizeMethod ==
    /\ pc = "authorize" /\ curl # "null"
    /\ Received
    /\ \/ job' \in Jobs /\ newJob' = TRUE /\ UNCHANGED <<curl, url>>
       \/ "reconnect" \in Faults /\ url' = "redirect" /\ Disconnect
       \/ UNCHANGED <<curl, url, job, newJob>>
    /\ UNCHANGED <<control, cooldown, preJob, flags, recvFailures, cycleErrors>>

AuthorizeOk == /\ pc = "authorize" /\ curl # "null"
               /\ Received
               /\ curl' = "authorized"
               /\ NextStage(IF caller = "loop" THEN "prime" ELSE "reauthUp")
               /\ UNCHANGED <<url, cooldown, jobs, flags, recvFailures, cycleErrors>>

\* Refused, not sent, not answered or cut off.  A refused notify is taken
\* for the answer, after new_job was set.
AuthorizeFails ==
    /\ pc = "authorize" /\ SetupMayFail
    /\ \/ /\ curl # "null" /\ Received
          /\ IF GivesUp THEN Disconnect
             ELSE /\ newJob' \in {newJob, newJob \/ "badnotify" \in Faults}
                  /\ UNCHANGED <<curl, job>>
       \/ RecvNothing(GivesUp, FALSE)
    /\ StageFailed
    /\ UNCHANGED <<url, cooldown, preJob, flags, recvFailures, cycleErrors>>
-----------------------------------------------------------------------------
(* stratum_reauthenticate *)

CallReauth(c) == pc' = "reauth" /\ caller' = c /\ UNCHANGED <<retry, again>>

\* Somebody is at it: report success.
ReauthSkip == /\ pc = "reauth" /\ inProgress
              /\ Goto("reauthTrue")
              /\ UNCHANGED <<link, jobs, flags, counts>>

ReauthBegin == /\ pc = "reauth" /\ ~inProgress
               /\ inProgress' = TRUE /\ suspended' = TRUE
               /\ preJob' = job
               /\ Goto("reauthDown")
               /\ UNCHANGED <<link, job, newJob, down, needReset, counts>>

ReauthDown == /\ pc = "reauthDown"
              /\ down' = TRUE
              /\ Goto("reauthCut")
              /\ UNCHANGED <<link, jobs, suspended, inProgress, needReset, counts>>

ReauthCut == /\ pc = "reauthCut"
             /\ Disconnect
             /\ NextStage("connect")
             /\ UNCHANGED <<url, cooldown, preJob, flags, counts>>

ReauthUp == /\ pc = "reauthUp"
            /\ down' = FALSE /\ inProgress' = FALSE
            /\ Goto("reauthResume")
            /\ UNCHANGED <<link, jobs, suspended, needReset, counts>>

ReauthResume == /\ pc = "reauthResume"
                /\ suspended' = FALSE
                /\ Goto("reauthTrue")
                /\ UNCHANGED <<link, jobs, down, inProgress, needReset, counts>>

\* The four callers after a failure: only two of them lift the suspension.
ReauthFailed == /\ pc = "reauthFailed"
                /\ needReset' = TRUE
                /\ suspended' = (suspended /\ caller \notin {"recv", "timeout"})
                /\ cycleErrors' = IF caller = "pool" THEN 0 ELSE cycleErrors
                /\ Goto("post")
                /\ UNCHANGED <<link, jobs, down, inProgress, recvFailures, lineFailures, paused>>

\* The four callers after a success; the pool error branch goes on to bump
\* reauth_epoch (here) and to restart the miners (PoolRestart).
ReauthTrue == /\ pc = "reauthTrue"
              /\ recvFailures' = IF caller = "recv" THEN 0 ELSE recvFailures
              /\ Goto(IF caller = "pool" THEN "poolRestart" ELSE "post")
              /\ UNCHANGED <<link, jobs, flags, lineFailures, cycleErrors, paused>>

PoolRestart == /\ pc = "poolRestart"
               /\ cycleErrors' = 0
               /\ Goto("post")
               /\ UNCHANGED <<link, jobs, flags, recvFailures, lineFailures, paused>>
-----------------------------------------------------------------------------
(* stratum_thread, one message. *)

SelectReady == /\ pc = "select"
               /\ Goto("recv")
               /\ UNCHANGED <<link, jobs, flags, counts>>

\* stratum_socket_full waited opt_timeout seconds in vain
SelectTimeout == /\ pc = "select" /\ "timeout" \in Faults
                 /\ CallReauth("timeout")
                 /\ UNCHANGED <<link, jobs, flags, counts>>

\* stratum_recv_line returned a line: mining may go on.
GotLine == pc = "recv" /\ curl # "null" /\ Received /\ down' = FALSE

RecvNotify == /\ GotLine
              /\ job' \in Jobs /\ newJob' = TRUE
              /\ Goto("post")
              /\ UNCHANGED <<link, preJob, suspended, inProgress, needReset, recvFailures, cycleErrors>>

\* stratum_notify refuses the parameters, new_job is set all the same
RecvBadNotify == /\ "badnotify" \in Faults /\ GotLine
                 /\ newJob' = TRUE
                 /\ Goto("post")
                 /\ UNCHANGED <<link, job, preJob, suspended, inProgress, needReset,
                                recvFailures, cycleErrors>>

\* client.reconnect
RecvReconnect == /\ "reconnect" \in Faults /\ GotLine
                 /\ url' = "redirect" /\ Disconnect
                 /\ Goto("post")
                 /\ UNCHANGED <<cooldown, preJob, suspended, inProgress, needReset,
                                recvFailures, cycleErrors>>

\* An accepted share clears the counter; other answers and methods, an
\* answer without an id or with another error leave everything alone.
RecvOther == /\ GotLine
             /\ cycleErrors' \in {0, cycleErrors}
             /\ Goto("post")
             /\ UNCHANGED <<link, jobs, suspended, inProgress, needReset, recvFailures>>

RecvGarbage == /\ "garbage" \in Faults /\ GotLine
               /\ CallReauth("json")
               /\ UNCHANGED <<link, jobs, suspended, inProgress, needReset, recvFailures, cycleErrors>>

\* "stale" or "job not found"
RecvStaleError == /\ "stale" \in Faults /\ GotLine
                  /\ cycleErrors' = 0
                  /\ CallReauth("pool")
                  /\ UNCHANGED <<link, jobs, suspended, inProgress, needReset, recvFailures>>

\* "incorrect cycle": counted, and past the limit the miners are restarted
RecvCycleError == /\ "cycle" \in Faults /\ GotLine
                  /\ cycleErrors' = cycleErrors + 1
                  /\ IF cycleErrors + 1 > CycleLimit THEN CallReauth("pool") ELSE Goto("post")
                  /\ UNCHANGED <<link, jobs, suspended, inProgress, needReset, recvFailures>>

\* stratum_recv_line returned NULL; the counter restarts after 300 seconds.
\* The third failure in a row engages the backoff (and restarts the miners).
RecvFails == /\ pc = "recv" /\ "recv" \in Faults
             /\ \E since \in {0, recvFailures} :
                  LET full == since + 1 >= RecvLimit IN
                  /\ recvFailures' = IF full THEN 0 ELSE since + 1
                  /\ IF full THEN Goto("recvWait") ELSE CallReauth("recv")
                  /\ RecvNothing(FALSE, full)
             /\ UNCHANGED <<url, cooldown, preJob, flags, cycleErrors>>
-----------------------------------------------------------------------------
(* stratum_gen_work: with a job, the work is built and published; a NULL   *)
(* job_id goes to strdup.                                                  *)
GenWork == /\ pc = "primeGen" \/ (pc = "post" /\ newJob /\ ~needReset)
           /\ newJob' = FALSE
           /\ Goto(IF job = NoJob THEN "crashed" ELSE IF pc = "post" THEN "top" ELSE "link")
           /\ UNCHANGED <<link, job, preJob, flags, counts>>

NoGenWork == /\ pc = "post" /\ (needReset \/ ~newJob)
             /\ Goto("top")
             /\ UNCHANGED <<link, jobs, flags, counts>>
-----------------------------------------------------------------------------
(* The wall clock crosses pause_until_time, or next_reconnect_time. *)

\* Mutant: every slice of the wait moves the boundary on.
PauseEnds_Rearmed == paused /\ UNCHANGED svars

PauseEnds == /\ paused /\ paused' = FALSE
             /\ UNCHANGED <<control, link, jobs, flags, recvFailures, lineFailures, cycleErrors>>

CooldownEnds == /\ cooldown /\ cooldown' = FALSE
                /\ UNCHANGED <<control, curl, url, jobs, flags, counts>>

\* A crashed process does nothing any more.
Crashed == pc = "crashed" /\ UNCHANGED svars

ResetStep   == TopNoReset \/ ResetDown \/ ResetDisconnect \/ ResetWork \/ ResetRestart
LoopStep    == LinkUp \/ LinkDown \/ BumpEpoch \/ BackoffOver \/ Prime
SetupStep   == \/ ConnectOk \/ ConnectFails
               \/ SubscribeOk \/ SubscribeAgain \/ SubscribeFails
               \/ AuthorizeMethod \/ AuthorizeOk \/ AuthorizeFails
ReauthStep  == \/ ReauthSkip \/ ReauthBegin \/ ReauthDown \/ ReauthCut \/ ReauthUp
               \/ ReauthResume \/ ReauthFailed \/ ReauthTrue \/ PoolRestart
MessageStep == \/ SelectReady \/ SelectTimeout
               \/ RecvNotify \/ RecvBadNotify \/ RecvReconnect \/ RecvOther
               \/ RecvGarbage \/ RecvStaleError \/ RecvCycleError \/ RecvFails
WorkStep    == GenWork \/ NoGenWork
ClockStep   == PauseEnds \/ CooldownEnds

ThreadStep == ResetStep \/ LoopStep \/ SetupStep \/ ReauthStep \/ MessageStep \/ WorkStep

SNext == ThreadStep \/ ClockStep \/ Crashed

SessionSpec == SInit /\ [][SNext]_svars

(* The thread is scheduled and time passes.  The network is not always     *)
(* against us: a connection, a subscription and an authorization that are  *)
(* tried again and again succeed in the end, and a pool that is listened   *)
(* to again and again announces a job.                                     *)
SessionFairness == /\ WF_svars(ThreadStep)
                   /\ WF_svars(PauseEnds) /\ WF_svars(CooldownEnds)
                   /\ SF_svars(ConnectOk) /\ SF_svars(SubscribeOk) /\ SF_svars(AuthorizeOk)
                   /\ SF_svars(SelectReady) /\ SF_svars(RecvNotify)

FairSessionSpec == SessionSpec /\ SessionFairness
-----------------------------------------------------------------------------
FlagsOK == /\ again \in BOOLEAN /\ cooldown \in BOOLEAN /\ newJob \in BOOLEAN
           /\ down \in BOOLEAN /\ suspended \in BOOLEAN
           /\ inProgress \in BOOLEAN /\ needReset \in BOOLEAN /\ paused \in BOOLEAN

RangesOK == /\ pc \in Locations /\ caller \in {"loop"} \cup ReauthCallers
            /\ retry \in 0..(MaxAttempts - 1)
            /\ curl \in {"null", "connected", "subscribed", "authorized"}
            /\ url \in {"pool", "redirect"}
            /\ job \in Jobs \cup {NoJob} /\ preJob \in Jobs \cup {NoJob}
            /\ recvFailures \in 0..(RecvLimit - 1) /\ lineFailures \in 0..(LinePause - 1)
            /\ cycleErrors \in 0..(CycleLimit + 1)

(* Every variable holds a value its declaration allows, and every counter  *)
(* of failures or attempts is reset before it passes its limit.            *)
SessionTypeOK == FlagsOK /\ RangesOK

(* A job that waits to be published belongs to a session that is still     *)
(* there: no disconnect, on whatever path, leaves stratum.new_job behind.  *)
(* Unless the pool sends malformed notifications, stratum_gen_work then    *)
(* finds a job_id.                                                         *)
FreshJobIsUsable == newJob => /\ curl # "null"
                              /\ "badnotify" \in Faults \/ job # NoJob

(* While a connection is being built, by the loop or by a                  *)
(* reauthentication, stratum_down keeps the miners from starting a scan.   *)
SetupIsQuiet == pc \in Setup \cup {"bump", "wait", "reauthCut"} => down

(* The thread waits for messages, and so learns of jobs, only on a session *)
(* the pool has authorized.                                                *)
ListensAuthorized == pc \in {"select", "prime", "primeGen", "reauthUp", "reauthResume"}
                         => curl = "authorized"

(* Suspended submissions are resumed only when the pool has authorized the *)
(* new session, or when the reauthentication has given up, the connection  *)
(* is gone and a reset is ordered: never on a session half set up, however *)
(* often its stages were retried and whoever dropped it in between.        *)
ResumesOnSession ==
    [][suspended /\ ~suspended' => \/ curl = "authorized"
                                   \/ curl = "null" /\ needReset']_svars

(* Mining resumes: if the pool keeps accepting connections and announcing  *)
(* jobs, stratum_down does not stay set, whatever failed before, unless a  *)
(* malformed first notification has crashed the process.                   *)
MiningResumes == down ~> (~down \/ pc = "crashed")

(* "Suspend solution submissions during reauthentication": the suspension  *)
(* is over some time after the reauthentication is.                        *)
SuspensionEnds == suspended ~> ~suspended

(* stratum_reauthenticate "returns true if all steps succeed": a caller    *)
(* that is told TRUE has an authorized session.                            *)
TrueMeansAuthorized == pc = "reauthTrue" => curl = "authorized"
=============================================================================
