--------------------------- MODULE MinerSystemProofs ---------------------------
(***************************************************************************)
(* The whole miner implements its two parts: every behaviour of it is one  *)
(* of the stratum thread and one of the work distribution, so that what is *)
(* proved of them holds of the miner.                                      *)
(***************************************************************************)
EXTENDS MinerSystem, StratumSessionProofs

(* The counters that make up the header and the tag of a work. *)
CountersOK == epoch \in Nat /\ conn \in Nat /\ xnonce2 \in Nat

(* A step of the stratum thread in the miner is one of StratumSession. *)
LEMMA StratumStep == Stratum => SNext
<1> SUFFICES ASSUME Stratum PROVE SNext
  OBVIOUS
<1> USE DEF SNext, ThreadStep, ResetStep, LoopStep, SetupStep, ReauthStep, MessageStep, WorkStep
<1>1. CASE Silent
  BY <1>1 DEF Silent
<1>2. CASE Connect \/ Restart \/ ClearWork \/ Bump \/ PublishWork
  BY <1>2 DEF Connect, Restart, ClearWork, Bump, PublishWork
<1>3. CASE Fault
  BY <1>3 DEF Fault, QuietFault, RestartFault
<1> QED
  BY <1>1, <1>2, <1>3 DEF Stratum

(* Every step of the miner is a step of its stratum thread or leaves that  *)
(* thread's state alone.                                                   *)
LEMMA SessionOfStep == [MNext]_vars => [SNext]_svars
<1>1. Stratum => SNext
  BY StratumStep
<1>2. ASSUME NEW t \in D!Threads, Miner(t) PROVE UNCHANGED svars
  BY <1>2 DEF Miner
<1>3. Workio => UNCHANGED svars
  BY DEF Workio
<1>4. UNCHANGED vars => UNCHANGED svars
  BY DEF vars
<1> QED
  BY <1>1, <1>2, <1>3, <1>4 DEF MNext

(* The miner implements the specification of its stratum thread. *)
THEOREM SessionRefinement == MinerSpec => SessionSpec
<1>1. MInit => SInit
  BY DEF MInit
<1> QED
  BY <1>1, SessionOfStep, PTL DEF MinerSpec, SessionSpec

(* The counters are natural numbers. *)
LEMMA CountersStep == CountersOK /\ [MNext]_vars => CountersOK'
<1> SUFFICES ASSUME CountersOK, [MNext]_vars PROVE CountersOK'
  OBVIOUS
<1> USE DEF CountersOK
<1>1. CASE Stratum
  <2>1. xnonce2' \in Nat
    BY <1>1 DEF Stratum
  <2>2. epoch' \in Nat /\ conn' \in Nat
    BY <1>1 DEF Stratum, Silent, Connect, Restart, ClearWork, Bump, PublishWork, Fault
  <2> QED
    BY <2>1, <2>2
<1>2. ASSUME NEW t \in D!Threads, Miner(t) PROVE CountersOK'
  BY <1>2 DEF Miner
<1>3. CASE Workio
  BY <1>3 DEF Workio
<1>4. CASE UNCHANGED vars
  BY <1>4 DEF vars
<1> QED
  BY <1>1, <1>2, <1>3, <1>4 DEF MNext

(* What the miners see of a step of the stratum thread is what             *)
(* WorkDispatch lets its environment do.                                   *)
LEMMA StratumIsEnvironment ==
  ASSUME SessionInv, SessionInv', CountersOK, Stratum
  PROVE  D!Stratum
<1>1. down' \in BOOLEAN /\ (job' # NoJob) \in BOOLEAN
  BY Zenon DEF SessionInv, FlagsOK
<1>2. CASE PublishWork /\ job # NoJob
  <2>1. D!Publish([job |-> job, data |-> <<conn, xnonce2>>, epoch |-> epoch])
    BY <1>2 DEF PublishWork
  <2>2. gwork' = [job |-> job, data |-> <<conn, xnonce2>>, epoch |-> epoch]
    BY <2>1 DEF D!Publish
  <2>3. gwork' \in [job : Jobs, data : Data, epoch : Epochs]
    BY <1>2, <2>2 DEF SessionInv, RangesOK, CountersOK, Data, Epochs
  <2> QED
    BY <1>1, <2>1, <2>2, <2>3 DEF D!Stratum
<1>3. CASE ~(PublishWork /\ job # NoJob)
  <2>1. D!OnlyFlags \/ D!RestartThreads \/ D!ClearJob
    BY <1>3 DEF Stratum, Silent, Connect, Restart, ClearWork, Bump, PublishWork, Fault,
                QuietFault, RestartFault
  <2> QED
    BY <1>1, <2>1 DEF D!Stratum
<1> QED
  BY <1>2, <1>3

(* Every step of the miner is one of WorkDispatch or leaves its state      *)
(* alone.                                                                  *)
LEMMA DispatchOfStep ==
  SessionInv /\ SessionInv' /\ CountersOK /\ [MNext]_vars => [D!DNext]_D!dvars
<1> SUFFICES ASSUME SessionInv, SessionInv', CountersOK, [MNext]_vars PROVE [D!DNext]_D!dvars
  OBVIOUS
<1>1. CASE Stratum
  BY <1>1, StratumIsEnvironment DEF D!DNext
<1>2. ASSUME NEW t \in D!Threads, Miner(t) PROVE D!Miner(t)
  BY <1>2 DEF Miner, Mine, SubmitShare, D!Miner
<1>3. ASSUME UNCHANGED <<svars, mining>> PROVE UNCHANGED D!dvars
  BY <1>3 DEF svars, mining, control, flags, jobs, D!dvars, D!env, D!miners
<1>4. CASE Workio \/ UNCHANGED vars
  BY <1>3, <1>4 DEF Workio, vars
<1> QED
  BY <1>1, <1>2, <1>4 DEF MNext, D!DNext

(* The miner implements WorkDispatch: the stratum thread, on whatever path *)
(* of connection, redirection, reauthentication or reset, restarts the     *)
(* miners whenever it changes the shared work.                             *)
THEOREM DispatchRefinement == MinerSpec => Dispatches
<1>1. MInit => D!DInit /\ CountersOK
  BY DEF MInit, CountersOK
<1>2. SessionSpec => []SessionInv
  BY SessionInvariance
<1> QED
  BY <1>1, <1>2, SessionRefinement, CountersStep, DispatchOfStep, PTL
     DEF MinerSpec, Dispatches, D!DispatchSpec
-----------------------------------------------------------------------------
(* What std_get_new_work and scanhash_civiclight keep to, whatever the     *)
(* stratum thread does, holds with the real stratum thread.                *)
DispatchTheory == INSTANCE WorkDispatchProofs WITH announced <- (job # NoJob),
                                                   cleared   <- (pc = "resetRestart")

MinersInv == DispatchTheory!DispatchInv

LEMMA SameSteps == (D!DNext <=> DispatchTheory!DNext) /\ D!dvars = DispatchTheory!dvars
BY DEF D!DNext, DispatchTheory!DNext, D!dvars, DispatchTheory!dvars,
       D!env, DispatchTheory!env, D!miners, DispatchTheory!miners,
       D!Stratum, DispatchTheory!Stratum, D!Publish, DispatchTheory!Publish,
       D!ClearJob, DispatchTheory!ClearJob, D!RestartThreads, DispatchTheory!RestartThreads,
       D!OnlyFlags, DispatchTheory!OnlyFlags, D!AllRestarted, DispatchTheory!AllRestarted,
       D!Miner, DispatchTheory!Miner, D!MinerAt, DispatchTheory!MinerAt,
       D!FirstJob, DispatchTheory!FirstJob, D!Proceed, DispatchTheory!Proceed,
       D!WakeUp, DispatchTheory!WakeUp, D!Fetch, DispatchTheory!Fetch,
       D!NeedsCopy, DispatchTheory!NeedsCopy, D!Hash, DispatchTheory!Hash,
       D!Round, DispatchTheory!Round, D!Shares, DispatchTheory!Shares,
       D!Submit, DispatchTheory!Submit, D!ScanEnds, DispatchTheory!ScanEnds,
       D!First, DispatchTheory!First, D!End, DispatchTheory!End,
       D!Slice, DispatchTheory!Slice, D!Threads, DispatchTheory!Threads

LEMMA SameStart == D!DInit <=> DispatchTheory!DInit
BY DEF D!DInit, DispatchTheory!DInit, D!BlankWork, DispatchTheory!BlankWork,
       D!Threads, DispatchTheory!Threads, D!Slice, DispatchTheory!Slice

\* The assumptions of WorkDispatch hold of its instance.
LEMMA InstanceAssumptions ==
  DispatchTheory!ThreadsAssumption /\ DispatchTheory!BatchAssumption /\ DispatchTheory!WorkAssumption
<1>1. NoData \notin Data /\ 0 \in Epochs
  BY DEF NoData, Data, Epochs
<1> QED
  BY <1>1, MinersAssumption, SessionAssumption
     DEF DispatchTheory!ThreadsAssumption, DispatchTheory!BatchAssumption, DispatchTheory!WorkAssumption

LEMMA MinersStep == MinersInv /\ [D!DNext]_D!dvars => MinersInv'
<1>1. DispatchTheory!DispatchInv /\ [DispatchTheory!DNext]_DispatchTheory!dvars
          => DispatchTheory!DispatchInv'
  BY InstanceAssumptions, DispatchTheory!InvStep
     DEF DispatchTheory!ThreadsAssumption, DispatchTheory!BatchAssumption,
         DispatchTheory!WorkAssumption
<1>2. [D!DNext]_D!dvars => [DispatchTheory!DNext]_DispatchTheory!dvars
  <2>1. UNCHANGED D!dvars => UNCHANGED DispatchTheory!dvars
    BY DEF D!dvars, DispatchTheory!dvars, D!env, DispatchTheory!env, D!miners, DispatchTheory!miners
  <2> QED
    BY <2>1, SameSteps
<1> QED
  BY <1>1, <1>2 DEF MinersInv

LEMMA MinersInvariance == MinerSpec => []MinersInv
<1>1. MInit => MinersInv
  BY InstanceAssumptions, SameStart, DispatchTheory!InvInit
     DEF MInit, MinersInv, DispatchTheory!ThreadsAssumption, DispatchTheory!BatchAssumption,
         DispatchTheory!WorkAssumption
<1> QED
  BY <1>1, MinersStep, DispatchRefinement, PTL DEF MinerSpec, Dispatches, D!DispatchSpec

(* What holds of the work distribution under any environment holds of the  *)
(* miner with its real stratum thread, for every number of mining threads: *)
(* no restart is lost, no scan leaves its slice, no nonce is hashed by two *)
(* threads at a time.                                                      *)
THEOREM MinersKeepApart ==
  MinerSpec => [](D!StaleScanIsRestarted /\ D!ScanInSlice /\ D!RoundsDisjoint)
<1>1. MinersInv => DispatchTheory!RoundsDisjoint
  BY InstanceAssumptions, DispatchTheory!RoundsApart
     DEF MinersInv, DispatchTheory!ThreadsAssumption, DispatchTheory!BatchAssumption,
         DispatchTheory!WorkAssumption
<1>2. DispatchTheory!RoundsDisjoint <=> D!RoundsDisjoint
  BY DEF DispatchTheory!RoundsDisjoint, D!RoundsDisjoint, DispatchTheory!Round, D!Round,
         DispatchTheory!Threads, D!Threads
<1>3. MinersInv => D!StaleScanIsRestarted /\ D!ScanInSlice
  BY DEF MinersInv, DispatchTheory!DispatchInv,
         DispatchTheory!StaleScanIsRestarted, D!StaleScanIsRestarted,
         DispatchTheory!ScanInSlice, D!ScanInSlice, DispatchTheory!First, D!First,
         DispatchTheory!End, D!End, DispatchTheory!Slice, D!Slice,
         DispatchTheory!Threads, D!Threads
<1>4. MinersInv => D!StaleScanIsRestarted /\ D!ScanInSlice /\ D!RoundsDisjoint
  BY <1>1, <1>2, <1>3
<1> QED
  BY <1>4, MinersInvariance, PTL

(* What holds of the stratum thread by itself holds of it in the miner:    *)
(* its flags and counters are in range, it publishes no job of a lost      *)
(* session, the miners wait while it connects, and it resumes submissions  *)
(* only on an authorized session or on the way to a reset.                 *)
THEOREM MinerKeepsSession ==
  MinerSpec => /\ [](SessionTypeOK /\ FreshJobIsUsable /\ SetupIsQuiet /\ ListensAuthorized)
               /\ ResumesOnSession
<1>1. SessionInv => SessionTypeOK /\ FreshJobIsUsable /\ SetupIsQuiet /\ ListensAuthorized
  BY DEF SessionInv, SafetyInv, SessionTypeOK
<1>2. MinerSpec => ResumesOnSession
  BY SessionRefinement, SafeResumption
<1> QED
  BY <1>1, <1>2, SessionRefinement, SessionInvariance, PTL

(* The types the miners' variables have in the whole miner. *)
MinersTyped == /\ gwork \in D!Work /\ work \in [D!Threads -> D!Work]
               /\ mpc \in [D!Threads -> D!MinerLocations]
               /\ found \in [D!Threads -> SUBSET Nat]

LEMMA MinersAreTyped == MinersInv => MinersTyped
BY DEF MinersInv, MinersTyped, DispatchTheory!DispatchInv, DispatchTheory!DispatchTypeOK,
       DispatchTheory!Work, D!Work, DispatchTheory!Threads, D!Threads,
       DispatchTheory!MinerLocations, D!MinerLocations
-----------------------------------------------------------------------------
(* A share of a lost connection stays marked as such, as long as nothing   *)
(* makes the stratum thread call stratum_reauthenticate: that function     *)
(* connects anew without a step of reauth_epoch before it.                 *)
ReauthCauses == {"recv", "timeout", "garbage", "stale", "cycle"}

\* The stratum thread is neither in stratum_reauthenticate nor on its way from it.
NoReauth == /\ caller = "loop"
            /\ pc \notin {"reauth", "reauthDown", "reauthCut", "reauthUp", "reauthResume",
                          "reauthFailed", "reauthTrue", "poolRestart", "recvWait"}

Header(w) == w.data # NoData

\* A work of an older connection has an older epoch, already when the thread
\* is about to connect.
Marked(w) == /\ w.epoch <= epoch
             /\ w.data[1] # conn \/ pc \in {"wait", "connect"} => w.epoch < epoch

\* Wherever a work is on its way from stratum_gen_work to the pool.
WorksMarked  == /\ Header(gwork) => Marked(gwork)
                /\ \A t \in D!Threads : Header(work[t]) => Marked(work[t])
SharesTyped  == queue \in Seq(Cmd) /\ wcmd \in Cmd
SharesMarked == /\ \A i \in 1..Len(queue) : Header(queue[i].work) /\ Marked(queue[i].work)
                /\ wpc \in {"wait", "check"} => Header(wcmd.work) /\ Marked(wcmd.work)
FindsScan    == \A t \in D!Threads : found[t] # {} => mpc[t] = "scan" /\ Header(work[t])

MarkedInv == NoReauth /\ WorksMarked /\ SharesTyped /\ SharesMarked /\ FindsScan

(* Without its causes no reauthentication starts. *)
LEMMA NoReauthStep ==
  ASSUME Faults \cap ReauthCauses = {}, NoReauth, [SNext]_svars
  PROVE  NoReauth'
<1> USE DEF NoReauth, ReauthCauses, control, link, jobs, flags, counts, Goto
<1>1. CASE ResetStep \/ LoopStep
  BY <1>1 DEF ResetStep, TopNoReset, ResetDown, ResetDisconnect, ResetWork, ResetRestart,
              LoopStep, LinkUp, LinkDown, BumpEpoch, BackoffOver, Prime
<1>2. CASE SetupStep
  BY <1>2 DEF SetupStep, ConnectOk, ConnectFails, SubscribeOk, SubscribeAgain, SubscribeFails,
              AuthorizeMethod, AuthorizeOk, AuthorizeFails, NextStage, StageFailed
<1>3. CASE ReauthStep
  BY <1>3 DEF ReauthStep, ReauthSkip, ReauthBegin, ReauthDown, ReauthCut, ReauthUp, ReauthResume,
              ReauthFailed, ReauthTrue, PoolRestart
<1>4. CASE MessageStep
  BY <1>4 DEF MessageStep, SelectReady, SelectTimeout, RecvNotify, RecvBadNotify, RecvReconnect,
              RecvOther, RecvGarbage, RecvStaleError, RecvCycleError, RecvFails, GotLine
<1>5. CASE WorkStep \/ ClockStep \/ Crashed \/ UNCHANGED svars
  BY <1>5 DEF WorkStep, GenWork, NoGenWork, ClockStep, PauseEnds, CooldownEnds, Crashed, svars
<1> QED
  BY <1>1, <1>2, <1>3, <1>4, <1>5 DEF SNext, ThreadStep

(* The thread comes to the place where it connects only past a step of     *)
(* reauth_epoch, and only there the connection changes.                    *)
LEMMA ConnectsMarked ==
  ASSUME NoReauth, CountersOK, Stratum
  PROVE  /\ epoch' = epoch \/ epoch' = epoch + 1
         /\ conn' = conn \/ pc = "connect"
         /\ pc' \in {"wait", "connect"} => pc \in {"wait", "connect"} \/ epoch' = epoch + 1
<1> USE DEF NoReauth, control, link, jobs, flags, counts, Goto
<1>1. CASE Silent
  BY <1>1 DEF Silent, TopNoReset, ResetDown, ResetDisconnect, LinkUp, BackoffOver, Prime,
              SubscribeOk, AuthorizeOk, AuthorizeMethod, SubscribeFails, AuthorizeFails, NextStage,
              StageFailed, ReauthSkip, ReauthBegin, ReauthDown, ReauthCut, ReauthUp, ReauthResume,
              ReauthFailed, ReauthTrue, SelectReady, RecvOther, RecvNotify, NoGenWork, GotLine,
              ClockStep, PauseEnds, CooldownEnds, Crashed, svars
<1>2. CASE Connect \/ Restart \/ ClearWork \/ Bump \/ PublishWork
  BY <1>2 DEF Connect, ConnectOk, NextStage, Restart, ResetRestart, LinkDown, PoolRestart,
              ClearWork, ResetWork, Bump, BumpEpoch, ReauthTrue, PublishWork, GenWork
<1>3. CASE Fault
  BY <1>3 DEF Fault, QuietFault, RestartFault, ConnectFails, SubscribeAgain, SubscribeFails,
              AuthorizeFails, AuthorizeMethod, SelectTimeout, RecvReconnect, RecvBadNotify,
              RecvGarbage, RecvStaleError, RecvCycleError, RecvFails, GotLine, CallReauth, StageFailed
<1> QED
  BY <1>1, <1>2, <1>3 DEF Stratum

(* What is marked stays marked. *)
LEMMA MarksKept ==
  ASSUME NoReauth, CountersOK, Stratum
  PROVE  \A w \in D!Work : Marked(w) => Marked(w)'
BY ConnectsMarked DEF D!Work, Epochs, CountersOK, Marked

(* The stratum thread publishes work of the present connection and epoch   *)
(* and takes nothing from the shares.                                      *)
LEMMA StratumMarks ==
  ASSUME MarkedInv, MinersTyped, CountersOK, Stratum
  PROVE  WorksMarked' /\ SharesTyped' /\ SharesMarked' /\ FindsScan'
<1>1. UNCHANGED <<mpc, work, found, queue, wpc, wcmd>>
  BY DEF Stratum, Silent, Connect, Restart, ClearWork, Bump, PublishWork, Fault, QuietFault, RestartFault,
         D!OnlyFlags, D!RestartThreads, D!ClearJob, D!Publish, D!miners, workio
<1>2. \A w \in D!Work : Marked(w) => Marked(w)'
  BY MarksKept DEF MarkedInv
<1>3. Header(gwork)' => Marked(gwork)'
  <2>1. CASE PublishWork /\ job # NoJob
    <3>1. gwork' = [job |-> job, data |-> <<conn, xnonce2>>, epoch |-> epoch]
      BY <2>1 DEF PublishWork, D!Publish
    <3>2. pc' \notin {"wait", "connect"} /\ epoch' = epoch /\ conn' = conn
      BY <2>1 DEF PublishWork, GenWork, Goto
    <3> QED
      BY <3>1, <3>2 DEF Marked, CountersOK
  <2>2. CASE ~(PublishWork /\ job # NoJob)
    <3>1. gwork' = gwork \/ gwork' = [gwork EXCEPT !.job = NoJob]
      BY <2>2 DEF Stratum, Silent, Connect, Restart, ClearWork, Bump, PublishWork, Fault,
                  QuietFault, RestartFault, D!OnlyFlags, D!RestartThreads, D!ClearJob
    <3>2. gwork'.data = gwork.data /\ gwork'.epoch = gwork.epoch
      BY <3>1 DEF MinersTyped, D!Work
    <3> QED
      BY <1>2, <3>2 DEF MarkedInv, WorksMarked, MinersTyped, Header, Marked
  <2> QED
    BY <2>1, <2>2
<1>4. WorksMarked'
  BY <1>1, <1>2, <1>3 DEF MarkedInv, WorksMarked, MinersTyped, Header
<1>5. SharesTyped' /\ FindsScan'
  BY <1>1 DEF MarkedInv, SharesTyped, FindsScan, Header
<1>6. SharesMarked'
  <2>1. \A i \in 1..Len(queue) : queue[i].work \in D!Work
    <3>1. \A i \in 1..Len(queue) : queue[i] \in Cmd
      BY DEF MarkedInv, SharesTyped
    <3> QED
      BY <3>1 DEF Cmd
  <2>2. wcmd.work \in D!Work
    BY DEF MarkedInv, SharesTyped, Cmd
  <2> QED
    BY <1>1, <1>2, <2>1, <2>2 DEF MarkedInv, SharesMarked, Header
<1> QED
  BY <1>4, <1>5, <1>6

(* A miner passes the mark on: from g_work to its copy, from there to the  *)
(* shares it finds.                                                        *)
LEMMA MinerMarks ==
  ASSUME MarkedInv, MinersTyped, CountersOK, NEW t \in D!Threads, Miner(t)
  PROVE  WorksMarked' /\ SharesTyped' /\ SharesMarked' /\ FindsScan'
<1>1. UNCHANGED <<gwork, epoch, conn, pc, wpc, wcmd>>
  BY DEF Miner, Mine, SubmitShare, D!FirstJob, D!Proceed, D!WakeUp, D!Fetch, D!Hash, D!Submit,
         D!ScanEnds, D!env, workio, svars, control
<1>2. work' = work \/ work' = [work EXCEPT ![t] = gwork]
  BY DEF Miner, Mine, SubmitShare, D!FirstJob, D!Proceed, D!WakeUp, D!Fetch, D!Hash, D!Submit,
         D!ScanEnds
<1>3. WorksMarked'
  BY <1>1, <1>2 DEF MarkedInv, WorksMarked, MinersTyped, Header, Marked
<1>4. SharesTyped' /\ SharesMarked'
  <2>1. CASE UNCHANGED queue
    BY <1>1, <2>1 DEF MarkedInv, SharesTyped, SharesMarked, Header, Marked
  <2>2. CASE SubmitShare(t)
    <3> DEFINE c == [work |-> work[t], token |-> epoch]
    <3>1. c \in Cmd /\ Header(c.work) /\ Marked(c.work)
      BY <2>2 DEF SubmitShare, D!Submit, MarkedInv, FindsScan, WorksMarked, MinersTyped, Cmd,
                  CountersOK, Epochs
    <3>2. queue' = Append(queue, c)
      BY <2>2 DEF SubmitShare
    <3> HIDE DEF c
    <3>3. /\ queue' \in Seq(Cmd)
          /\ \A i \in 1..Len(queue') : \/ queue'[i] = c
                                         \/ (i \in 1..Len(queue) /\ queue'[i] = queue[i])
      BY <3>1, <3>2 DEF MarkedInv, SharesTyped
    <3> QED
      BY <1>1, <3>1, <3>3 DEF MarkedInv, SharesTyped, SharesMarked, Header, Marked
  <2> QED
    BY <2>1, <2>2 DEF Miner, Mine, workio
<1>5. FindsScan'
  <2>1. CASE D!Hash(t)
    <3>1. PICK f \in D!Shares(t) : found' = [found EXCEPT ![t] = f]
      BY <2>1 DEF D!Hash
    <3>2. f # {} => Header(work[t])
      BY <3>1 DEF D!Shares, Header
    <3>3. mpc[t] = "scan" /\ UNCHANGED <<mpc, work>>
      BY <2>1 DEF D!Hash
    <3> QED
      BY <3>1, <3>2, <3>3 DEF MarkedInv, FindsScan, MinersTyped, Header
  <2>2. CASE D!Submit(t)
    BY <2>2 DEF D!Submit, MarkedInv, FindsScan, MinersTyped, Header
  <2>3. CASE D!Fetch(t)
    <3>1. found[t] = {} /\ UNCHANGED found
      BY <2>3 DEF D!Fetch, D!MinerAt, MarkedInv, FindsScan
    <3>2. \A u \in D!Threads : u # t => mpc'[u] = mpc[u] /\ work'[u] = work[u]
      BY <1>2, <2>3 DEF D!Fetch, D!MinerAt, MinersTyped
    <3> QED
      BY <3>1, <3>2 DEF MarkedInv, FindsScan, Header
  <2>4. CASE D!FirstJob(t) \/ D!Proceed(t) \/ D!WakeUp(t) \/ D!ScanEnds(t)
    <3>1. found[t] = {} /\ UNCHANGED <<found, work>>
      BY <2>4 DEF D!FirstJob, D!Proceed, D!WakeUp, D!ScanEnds, D!MinerAt, MarkedInv, FindsScan
    <3>2. \A u \in D!Threads : u # t => mpc'[u] = mpc[u]
      BY <2>4 DEF D!FirstJob, D!Proceed, D!WakeUp, D!ScanEnds, D!MinerAt, MinersTyped
    <3> QED
      BY <3>1, <3>2 DEF MarkedInv, FindsScan, Header
  <2> QED
    BY <2>1, <2>2, <2>3, <2>4 DEF Miner, Mine, SubmitShare
<1> QED
  BY <1>3, <1>4, <1>5

(* The workio thread only takes shares. *)
LEMMA WorkioMarks ==
  ASSUME MarkedInv, MinersTyped, CountersOK, Workio
  PROVE  WorksMarked' /\ SharesTyped' /\ SharesMarked' /\ FindsScan'
<1>1. UNCHANGED <<gwork, work, found, mpc, epoch, conn, pc>>
  BY DEF Workio, mining, svars, control
<1>2. WorksMarked' /\ FindsScan'
  BY <1>1 DEF MarkedInv, WorksMarked, FindsScan, Header, Marked
<1>3. CASE Pop
  <2>1. queue # << >> /\ queue \in Seq(Cmd)
    BY <1>3 DEF Pop, MarkedInv, SharesTyped
  <2>2. /\ wcmd' = queue[1] /\ queue' \in Seq(Cmd) /\ wcmd' \in Cmd
        /\ \A i \in 1..Len(queue') : i + 1 \in 1..Len(queue) /\ queue'[i] = queue[i + 1]
    BY <1>3, <2>1 DEF Pop
  <2>3. 1 \in 1..Len(queue)
    BY <2>1
  <2> QED
    BY <1>1, <1>2, <2>2, <2>3 DEF MarkedInv, SharesTyped, SharesMarked, Header, Marked
<1>4. CASE Resume \/ Check \/ Send
  BY <1>1, <1>2, <1>4 DEF Resume, Check, Send, WorkioAt, MarkedInv, SharesTyped, SharesMarked, Header, Marked
<1> QED
  BY <1>3, <1>4 DEF Workio

LEMMA MarkedStep ==
  ASSUME Faults \cap ReauthCauses = {}, MarkedInv, MinersTyped, CountersOK, [MNext]_vars
  PROVE  MarkedInv'
<1>1. NoReauth'
  BY NoReauthStep, SessionOfStep DEF MarkedInv
<1>2. CASE Stratum
  BY <1>1, <1>2, StratumMarks DEF MarkedInv
<1>3. ASSUME NEW t \in D!Threads, Miner(t) PROVE MarkedInv'
  BY <1>1, <1>3, MinerMarks DEF MarkedInv
<1>4. CASE Workio
  BY <1>1, <1>4, WorkioMarks DEF MarkedInv
<1>5. CASE UNCHANGED vars
  BY <1>1, <1>5 DEF MarkedInv, WorksMarked, SharesTyped, SharesMarked, FindsScan, Header, Marked,
                    vars, mining, workio, svars, control
<1> QED
  BY <1>2, <1>3, <1>4, <1>5 DEF MNext

(* No share of an older connection passes the workio thread's look at      *)
(* reauth_epoch once the next connection is there, whatever the pool and   *)
(* the network do short of making the thread reauthenticate.               *)
THEOREM OldSharesStayMarked ==
  ASSUME Faults \cap ReauthCauses = {}
  PROVE  MinerSpec => []OldSharesMarked
<1>1. MInit => MarkedInv /\ CountersOK
  <2> SUFFICES ASSUME MInit PROVE MarkedInv /\ CountersOK
    OBVIOUS
  <2>1. NoReauth /\ CountersOK
    BY DEF MInit, SInit, NoReauth, CountersOK
  <2>2. WorksMarked /\ FindsScan
    BY DEF MInit, D!DInit, D!BlankWork, WorksMarked, FindsScan, Header
  <2>3. D!BlankWork \in D!Work
    BY DEF D!BlankWork, D!Work, Epochs
  <2>4. SharesTyped /\ SharesMarked
    BY <2>3 DEF MInit, SharesTyped, SharesMarked, NoCmd, Cmd, Epochs
  <2> QED
    BY <2>1, <2>2, <2>4 DEF MarkedInv
<1>2. MarkedInv => OldSharesMarked
  BY DEF MarkedInv, SharesMarked, OldSharesMarked, Pending, Marked
<1> QED
  BY <1>1, <1>2, MarkedStep, CountersStep, MinersInvariance, MinersAreTyped, PTL DEF MinerSpec
=============================================================================
