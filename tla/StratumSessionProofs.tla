------------------------- MODULE StratumSessionProofs -------------------------
(***************************************************************************)
(* Proofs about the stratum thread, for every set of jobs and every        *)
(* combination of faults of the pool and the network.                      *)
(***************************************************************************)
EXTENDS StratumSession, TLAPS

(* What the safety invariants rest on.  A connection is only ever attempted*)
(* after a disconnect; outside the set-up stages a session is complete or  *)
(* gone; and the third incorrect cycle error is always followed by the     *)
(* reset of its counter, after the reauthentication it calls for.          *)
ConnectsFromScratch == pc \in {"bump", "wait", "connect"} => curl = "null"

Settled == pc \notin Setup => curl \in {"null", "authorized"}

Reauthenticating == pc \in Setup \cup {"reauth", "reauthDown", "reauthCut", "reauthUp", "reauthResume",
                                       "reauthFailed", "reauthTrue", "poolRestart"}

CycleCounted == cycleErrors > CycleLimit => caller = "pool" /\ Reauthenticating

(* Whoever gives up a reauthentication has disconnected. *)
GaveUpEmpty == pc = "reauthFailed" => curl = "null"

SafetyInv == /\ FreshJobIsUsable /\ SetupIsQuiet /\ ListensAuthorized
             /\ ConnectsFromScratch /\ Settled /\ CycleCounted /\ GaveUpEmpty

SessionInv == FlagsOK /\ RangesOK /\ SafetyInv

(* The state stratum_thread starts in. *)
LEMMA SessionInit == SInit => SessionInv
<1> SUFFICES ASSUME SInit PROVE SessionInv
  OBVIOUS
<1>1. FlagsOK
  BY Zenon DEF SInit, FlagsOK
<1>2. RangesOK
  BY DEF SInit, RangesOK, Locations, Setup, ReauthCallers, MaxAttempts, RecvLimit, LinePause, CycleLimit
<1>3. FreshJobIsUsable /\ SetupIsQuiet /\ ListensAuthorized
  BY DEF SInit, FreshJobIsUsable, SetupIsQuiet, ListensAuthorized, Setup
<1>4. ConnectsFromScratch /\ Settled /\ CycleCounted /\ GaveUpEmpty
  BY DEF SInit, ConnectsFromScratch, Settled, CycleCounted, GaveUpEmpty, CycleLimit, Setup
<1> QED
  BY <1>1, <1>2, <1>3, <1>4 DEF SessionInv, SafetyInv

(* Every flag stays a flag. *)
LEMMA FlagsStep == ASSUME FlagsOK, SNext PROVE FlagsOK'
<1> USE DEF FlagsOK, control, link, jobs, flags, counts, Goto, Disconnect, DropIf
<1>1. CASE ResetStep
  BY <1>1, Zenon DEF ResetStep, TopNoReset, ResetDown, ResetDisconnect, ResetWork, ResetRestart
<1>2. CASE LoopStep
  BY <1>2, Zenon DEF LoopStep, LinkUp, LinkDown, BumpEpoch, BackoffOver, Prime
<1>3. CASE SetupStep
  BY <1>3, Zenon DEF SetupStep, ConnectOk, ConnectFails, SubscribeOk, SubscribeAgain, SubscribeFails,
              AuthorizeMethod, AuthorizeOk, AuthorizeFails, NextStage, StageFailed,
              Received, RecvNothing, RecvTimedOut, RecvCut
<1>4. CASE ReauthStep
  BY <1>4, Zenon DEF ReauthStep, ReauthSkip, ReauthBegin, ReauthDown, ReauthCut, ReauthUp, ReauthResume,
              ReauthFailed, ReauthTrue, PoolRestart, NextStage
<1>5. CASE MessageStep
  BY <1>5, Zenon DEF MessageStep, SelectReady, SelectTimeout, RecvNotify, RecvBadNotify, RecvReconnect,
              RecvOther, RecvGarbage, RecvStaleError, RecvCycleError, RecvFails, GotLine, CallReauth,
              Received, RecvNothing, RecvTimedOut, RecvCut
<1>6. CASE WorkStep
  BY <1>6, Zenon DEF WorkStep, GenWork, NoGenWork
<1>7. CASE ClockStep \/ Crashed
  BY <1>7, Zenon DEF ClockStep, PauseEnds, CooldownEnds, Crashed, svars
<1> QED
  BY <1>1, <1>2, <1>3, <1>4, <1>5, <1>6, <1>7 DEF SNext, ThreadStep

(* Locations and counters stay in range. *)
LEMMA RangesStep == ASSUME SessionInv, SNext PROVE RangesOK'
<1> USE DEF SessionInv, SafetyInv, RangesOK, Locations, Setup, ReauthCallers,
            MaxAttempts, RecvLimit, LinePause, CycleLimit,
            control, link, jobs, flags, counts, Goto, Disconnect, DropIf
<1>1. CASE ResetStep
  BY <1>1 DEF ResetStep, TopNoReset, ResetDown, ResetDisconnect, ResetWork, ResetRestart
<1>2. CASE LoopStep
  BY <1>2 DEF LoopStep, LinkUp, LinkDown, BumpEpoch, BackoffOver, Prime
<1>3. CASE SetupStep
  <2> USE DEF NextStage, StageFailed, GivesUp, Received
  <2>1. CASE ConnectOk
    BY <2>1 DEF ConnectOk
  <2>2. CASE ConnectFails
    <3>1. UNCHANGED <<preJob, recvFailures, lineFailures, cycleErrors>> /\ job' \in {job, NoJob}
      BY <2>2 DEF ConnectFails
    <3>2. curl' = "null" /\ (url' = url \/ url' = "pool")
      BY <2>2 DEF ConnectFails
    <3>3. StageFailed /\ pc = "connect"
      BY <2>2 DEF ConnectFails
    <3> QED
      BY <3>1, <3>2, <3>3
  <2>3. CASE SubscribeOk \/ SubscribeAgain \/ AuthorizeOk
    BY <2>3 DEF SubscribeOk, SubscribeAgain, AuthorizeOk
  <2>4. CASE AuthorizeMethod
    BY <2>4 DEF AuthorizeMethod
  <2>5. CASE SubscribeFails
    BY <2>5 DEF SubscribeFails, RecvNothing, RecvTimedOut, RecvCut, LineDrop
  <2>6. CASE AuthorizeFails
    BY <2>6 DEF AuthorizeFails, RecvNothing, RecvTimedOut, RecvCut, LineDrop
  <2> QED
    BY <1>3, <2>1, <2>2, <2>3, <2>4, <2>5, <2>6 DEF SetupStep
<1>4. CASE ReauthStep
  BY <1>4 DEF ReauthStep, ReauthSkip, ReauthBegin, ReauthDown, ReauthCut, ReauthUp, ReauthResume,
              ReauthFailed, ReauthTrue, PoolRestart, NextStage
<1>5. CASE MessageStep
  BY <1>5 DEF MessageStep, SelectReady, SelectTimeout, RecvNotify, RecvBadNotify, RecvReconnect,
              RecvOther, RecvGarbage, RecvStaleError, RecvCycleError, RecvFails, GotLine, CallReauth,
              Received, RecvNothing, RecvTimedOut, RecvCut, LineDrop, CycleCounted, Reauthenticating
<1>6. CASE WorkStep
  BY <1>6 DEF WorkStep, GenWork, NoGenWork
<1>7. CASE ClockStep \/ Crashed
  BY <1>7 DEF ClockStep, PauseEnds, CooldownEnds, Crashed, svars
<1> QED
  BY <1>1, <1>2, <1>3, <1>4, <1>5, <1>6, <1>7 DEF SNext, ThreadStep

(* A pending job keeps its session; a connection is built from nothing and *)
(* while the miners wait; only a complete session is listened to; a        *)
(* reauthentication that is given up leaves no connection; a counter past  *)
(* its limit is reset before the next answer is read.                      *)
LEMMA SafetyStep == ASSUME SessionInv, SNext PROVE SafetyInv'
<1> USE DEF SessionInv, SafetyInv, FreshJobIsUsable, SetupIsQuiet, ListensAuthorized,
            ConnectsFromScratch, Settled, CycleCounted, GaveUpEmpty, Reauthenticating, Setup,
            control, link, jobs, flags, counts, Goto, Disconnect, DropIf
<1>1. CASE ResetStep
  BY <1>1 DEF ResetStep, TopNoReset, ResetDown, ResetDisconnect, ResetWork, ResetRestart
<1>2. CASE LoopStep
  BY <1>2 DEF LoopStep, LinkUp, LinkDown, BumpEpoch, BackoffOver, Prime
<1>3. CASE SetupStep
  <2> USE <1>3 DEF SetupStep, ConnectOk, ConnectFails, SubscribeOk, SubscribeAgain, SubscribeFails,
                 AuthorizeMethod, AuthorizeOk, AuthorizeFails, NextStage, StageFailed, GivesUp,
                 Received, RecvNothing, RecvTimedOut, RecvCut
  <2>1. FreshJobIsUsable'
    BY SessionAssumption
  <2>2. SetupIsQuiet'
    OBVIOUS
  <2>3. GaveUpEmpty'
    OBVIOUS
  <2>4. (ConnectsFromScratch /\ Settled /\ ListensAuthorized)'
    OBVIOUS
  <2>5. CycleCounted'
    BY DEF CycleLimit, RangesOK
  <2> QED
    BY <2>1, <2>2, <2>3, <2>4, <2>5
<1>4. CASE ReauthStep
  <2> USE <1>4 DEF ReauthStep, ReauthSkip, ReauthBegin, ReauthDown, ReauthCut, ReauthUp, ReauthResume,
                 ReauthFailed, ReauthTrue, PoolRestart, NextStage
  <2>1. FreshJobIsUsable'
    OBVIOUS
  <2>2. SetupIsQuiet'
    OBVIOUS
  <2>3. GaveUpEmpty'
    OBVIOUS
  <2>4. (ConnectsFromScratch /\ Settled /\ ListensAuthorized)'
    OBVIOUS
  <2>5. CycleCounted'
    BY DEF CycleLimit, RangesOK
  <2> QED
    BY <2>1, <2>2, <2>3, <2>4, <2>5
<1>5. CASE MessageStep
  BY <1>5, SessionAssumption
     DEF MessageStep, SelectReady, SelectTimeout, RecvNotify, RecvBadNotify, RecvReconnect,
         RecvOther, RecvGarbage, RecvStaleError, RecvCycleError, RecvFails, GotLine, CallReauth,
         Received, RecvNothing, RecvTimedOut, RecvCut, CycleLimit, RangesOK
<1>6. CASE WorkStep
  BY <1>6 DEF WorkStep, GenWork, NoGenWork
<1>7. CASE ClockStep \/ Crashed
  BY <1>7 DEF ClockStep, PauseEnds, CooldownEnds, Crashed, svars
<1> QED
  BY <1>1, <1>2, <1>3, <1>4, <1>5, <1>6, <1>7 DEF SNext, ThreadStep

(* The invariant is kept by every step, also of the other threads. *)
LEMMA SessionStep == SessionInv /\ [SNext]_svars => SessionInv'
<1>1. ASSUME SessionInv, SNext PROVE SessionInv'
  BY <1>1, FlagsStep, RangesStep, SafetyStep DEF SessionInv
<1>2. ASSUME SessionInv, UNCHANGED svars PROVE SessionInv'
  BY <1>2 DEF SessionInv, SafetyInv, FlagsOK, RangesOK, FreshJobIsUsable, SetupIsQuiet,
              ListensAuthorized, ConnectsFromScratch, Settled, CycleCounted, GaveUpEmpty,
              Reauthenticating, svars, control, link, jobs, flags, counts
<1> QED
  BY <1>1, <1>2

(* The invariant of the stratum thread. *)
THEOREM SessionInvariance == SessionSpec => []SessionInv
BY SessionInit, SessionStep, PTL DEF SessionSpec

(* Flags, locations and counters of the stratum thread stay in range,      *)
(* whatever the pool and the network do.                                   *)
THEOREM SessionTypes == SessionSpec => []SessionTypeOK
<1>1. SessionInv => SessionTypeOK
  BY DEF SessionInv, SessionTypeOK
<1> QED
  BY <1>1, SessionInvariance, PTL

(* No disconnect leaves a job behind that stratum_gen_work would publish.  *)
THEOREM NoOrphanJob == SessionSpec => []FreshJobIsUsable
<1>1. SessionInv => FreshJobIsUsable
  BY DEF SessionInv, SafetyInv
<1> QED
  BY <1>1, SessionInvariance, PTL

(* stratum_down is set as long as a connection is being built. *)
THEOREM QuietSetup == SessionSpec => []SetupIsQuiet
<1>1. SessionInv => SetupIsQuiet
  BY DEF SessionInv, SafetyInv
<1> QED
  BY <1>1, SessionInvariance, PTL

(* The thread never listens on a session that is not authorized. *)
THEOREM AuthorizedListening == SessionSpec => []ListensAuthorized
<1>1. SessionInv => ListensAuthorized
  BY DEF SessionInv, SafetyInv
<1> QED
  BY <1>1, SessionInvariance, PTL

(* Only two stores lift the suspension: the last one of                    *)
(* stratum_reauthenticate and the one of a caller that was told of a       *)
(* failure.                                                                *)
LEMMA Resumption ==
  ASSUME FlagsOK, SNext, suspended, ~suspended'
  PROVE  ReauthResume \/ ReauthFailed
<1> USE DEF FlagsOK, control, link, jobs, flags, counts
<1>1. CASE ResetStep
  BY <1>1, Zenon DEF ResetStep, TopNoReset, ResetDown, ResetDisconnect, ResetWork, ResetRestart
<1>2. CASE LoopStep
  BY <1>2, Zenon DEF LoopStep, LinkUp, LinkDown, BumpEpoch, BackoffOver, Prime
<1>3. CASE SetupStep
  BY <1>3, Zenon DEF SetupStep, ConnectOk, ConnectFails, SubscribeOk, SubscribeAgain, SubscribeFails,
              AuthorizeMethod, AuthorizeOk, AuthorizeFails
<1>4. CASE ReauthStep
  BY <1>4, Zenon DEF ReauthStep, ReauthSkip, ReauthBegin, ReauthDown, ReauthCut, ReauthUp,
              ReauthTrue, PoolRestart
<1>5. CASE MessageStep
  BY <1>5, Zenon DEF MessageStep, SelectReady, SelectTimeout, RecvNotify, RecvBadNotify, RecvReconnect,
              RecvOther, RecvGarbage, RecvStaleError, RecvCycleError, RecvFails
<1>6. CASE WorkStep \/ ClockStep \/ Crashed
  BY <1>6, Zenon DEF WorkStep, GenWork, NoGenWork, ClockStep, PauseEnds, CooldownEnds, Crashed, svars
<1> QED
  BY <1>1, <1>2, <1>3, <1>4, <1>5, <1>6 DEF SNext, ThreadStep

(* Submissions suspended by a reauthentication are resumed on an           *)
(* authorized session or, when it has failed, with the connection gone and *)
(* a reset ordered.                                                        *)
THEOREM SafeResumption == SessionSpec => ResumesOnSession
<1>1. ASSUME SessionInv, [SNext]_svars, suspended, ~suspended'
      PROVE  curl = "authorized" \/ (curl = "null" /\ needReset')
  <2>1. SNext
    BY <1>1 DEF svars, flags
  <2>2. ReauthResume \/ ReauthFailed
    BY <1>1, <2>1, Resumption DEF SessionInv
  <2>3. CASE ReauthResume
    BY <1>1, <2>3 DEF SessionInv, SafetyInv, ListensAuthorized, ReauthResume
  <2>4. CASE ReauthFailed
    BY <1>1, <2>4 DEF SessionInv, SafetyInv, GaveUpEmpty, ReauthFailed
  <2> QED
    BY <2>2, <2>3, <2>4
<1>2. SessionInv /\ [SNext]_svars
         => [suspended /\ ~suspended' => \/ curl = "authorized"
                                         \/ curl = "null" /\ needReset']_svars
  BY <1>1
<1> QED
  BY <1>2, SessionInvariance, PTL DEF SessionSpec, ResumesOnSession
====
