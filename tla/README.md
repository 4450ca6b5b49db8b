# CivicLight miner: a TLA+ verification project

The repository is `soj`, a CPU miner for CivicNet's `civiclight` algorithm that
talks to a mining pool over the stratum protocol. This directory holds TLA+
models of its concurrent core, of the parts between the socket and the miners,
and of its hash kernels, TLC configurations that check them on small instances,
and TLAPS proofs of the properties that hold for every instance.

## 1. Inventory

### Threads and shared state

| Thread | Code | Does |
|---|---|---|
| stratum | `stratum_thread` (soj.c), `soj_stratum_transport.c`, `soj_stratum_methods.c` | connects, subscribes, authorizes, listens, reauthenticates, publishes work |
| miners, `opt_n_threads` of them | `main_entry_thread` (soj.c), `soj_work.c`, `scanhash_civiclight` | fetch work, hash their slice of the nonces, hand in shares |
| workio | `workio_thread` (soj.c) | sends shares to the pool |
| statistics | `algo/civiclight/civiclight_stats.c` | logs hash rates |

They share `g_work` (under `g_work_lock`), `work_restart[]`, the `stratum`
context (`sock_lock`, `work_lock`), one queue per thread (`soj_queue.c`), and
the unlocked flags `stratum_down`, `solution_submission_suspended`,
`reauth_epoch`, `stratum_need_reset` and `pause_until_time`.

### Components

| Component | State | Operations | What makes it correct |
|---|---|---|---|
| inter-thread queue, `soj_queue.c` | list, frozen flag, condition variable | `tq_push`, `tq_pop`, `tq_freeze` | order kept, nothing lost, no lost wake-up |
| stratum session, `soj.c`, transport, methods | connection, job, `new_job`, flags, failure counters | reset, reconnect loop, connect/subscribe/authorize, `stratum_reauthenticate`, handling of lines | pending jobs belong to a live session; nobody mines while the link is built; mining resumes |
| protection backoff, `util.c` | `pause_until_time` | activate, wait | ends; blocks nobody for ever |
| work distribution, `soj_work.c`, `soj.c`, `civiclight.c` | `g_work`, restart flags, nonce ranges | publish, clear, restart; fetch, scan, wait | no lost restart; slices disjoint and in range |
| share submission, `soj.c` | queue of commands, epochs | `submit_solution`, `workio_submit_work`, `submit_upstream_work` | shares of a dead session are dropped; no share blocks the next |
| line buffer and requests, transport | `sockbuf`, `sock_lock` | append, cut, send | lines neither lost nor merged, the buffer never overrun, requests unmixed |
| job parsing, methods | job, coinbase, extranonces, difficulty | notify, set_difficulty, set_extranonce, publish | the pool can rebuild what was hashed; extranonce2 unique per header |
| share results and statistics | share counters, rings `share_stats`, `rate_samples` | submit, answer, reset; sample | answers belong to shares; entries unmixed; rates are those of their windows |
| encodings, targets, `util.c` | none | `hex2bin`, `diff_to_hash`, `valid_hash` | agree with their definitions, in both builds |
| yespower, `yespower-opt.c` | V, S tables and XY of a thread, reused | `pwxform`, `blockmix`, `smix` in 1, 2, 4 lanes | every build computes the same function |
| SHA-256, HMAC, PBKDF2 | contexts, padded buffers | compress, update, final, derive | every build computes the standard's function |
| SIMD interleaving, `intrlv.h` | none | interleave, take apart, rearrange | a permutation, and undone by its inverse |
| proof of work, `civiclight.c` | none | plain, midstate, two-lane hash | the paths agree on both sides of the activation time |
| command line, start-up, CPU affinity, algorithm gate | set once | - | - |
| `compat/`, tests, builds | none | - | - |

### How they interact, and what is hard

* The stratum thread publishes work under the write lock and sets every restart
  flag; a miner takes the work and clears its own flag under the read lock. Five
  other places call `restart_threads` without new work; one of them, the reset,
  changes `g_work` first and sets the flags later.
* Four callers use `stratum_reauthenticate`, each with its own idea of what to do
  after success and failure. It has four stages of up to three attempts on a
  connection that any stage may lose.
* Shares are tagged twice with `reauth_epoch`: when queued (the token of the
  command) and when their work was published. The workio thread looks at both,
  at the suspension flag and at the backoff, each at another moment.
* Failures are counted in four counters with different limits and reset rules.
* The pool's byte stream is cut by chunks of any size, by calls that give up
  halfway, and by reconnects; requests of two threads share one socket.
* A share is queued before it is counted, so its answer may come first; the ring
  of statistics is emptied without its lock.
* Each hash kernel exists in up to five hand-scheduled forms, chosen at build
  time; the memory they work in is never cleared between two hashes.

PROJECT.json lists the hazards one by one, at the line where each bites, with
the properties aimed at it.

## 2. Modules and how they correspond to the code

```
FifoQueue  <--implements--  ThreadQueue
StratumSession  <--extends--  MinerSystem  --instance-->  WorkDispatch
```

**FifoQueue** is what callers of `soj_queue.c` rely on: one line of elements, put
until closed, delivered oldest first to whoever asks.

**ThreadQueue** models `soj_queue.c`. A step is a critical section under
`tq->mutex`. A popper is outside, about to look (`entered`), asleep on the
condition variable or woken; `pthread_cond_signal` wakes one sleeper,
`SpuriousWakeup` and `Timeout` are what POSIX allows. The histories `accepted`
and `delivered` are there to state the order. In the miner each queue has one
popper without a deadline; the model keeps what the interface allows.

**StratumSession** models the control of the stratum thread: `pc` names the place
in `stratum_thread`, `stratum_reauthenticate` or the three set-up calls, `caller`
says who wants the connection. An action is a stretch between two writes another
thread can see, or between blocking calls. Every outcome of the pool and the
network is a choice, the bad ones guarded by membership in the constant `Faults`.
Of a line only the branch it selects is kept. The counters (`recv_failures`,
`consecutive_stratum_failures`, `consecutive_incorrect_cycle_errors`,
`retry_count`) have their real limits. Backoff and reconnect cooldown are truth
values that the passing of time clears: their length matters to no property here.
A NULL `job_id` given to `strdup` ends in the place `crashed`.

**WorkDispatch** models `g_work`, the restart flags and the miners. A step under
`g_work_lock` is atomic. The stratum thread is an environment that may publish,
clear, restart and flip the two flags the miners read, in any order. A header is a
model value: what matters is whether two of them differ. A hash is a share or not
by choice, except under the zero target of blank work. The number of hashes of a
scan (`opt_scantime` times the hash rate) is a choice of 1..`MaxBatch`. The code's
default two-way scan is modelled (`CIVIC_ONEWAY` is not defined by the builds).
Job ids are compared as numbers by the code; two model jobs are ids with
different numbers.

**MinerSystem** composes them and adds the workio thread. It EXTENDS
StratumSession, joins each of its steps with what the step does to the miners
(`Publish`, `ClearJob`, `RestartThreads` or `OnlyFlags` of WorkDispatch), to
`reauth_epoch` and to extranonce2, and adds the queue of shares with the steps of
the workio thread between which other threads can act. A header is the pair of the
connection's number (for its extranonce1) and extranonce2. Three bounds keep it
finite: `Troubles`, `MaxQueue` waiting shares and `MaxXnonce2` publications of one
job. `Troubles` is a set of sequences of sets of fault kinds; a behaviour meets the
faults of one of them, one kind from each set, in that order and at any time, or
only the first few of them.

**LineReader** models `stratum_buffer_append` and `stratum_recv_line`: chunks of at
most `RECVSIZE` bytes are appended, the buffer grows by `RBUFSIZE`, the first
line is cut off and the rest moved down. A byte is a newline or one of `Bytes`.
A time-out or failed receive leaves the buffer as it is; a disconnect empties it.
The histories `sent` and `cut` are what the pool wrote and what was returned.

**LineWriter** models `stratum_send_line` and `send_line`: the lock, partial writes,
and the return in the middle of a line when `select` says the socket would block.
A byte is its writer and its place in the request.

**JobData** models the data that StratumSession and MinerSystem leave out:
`stratum_notify` with its refusals, the layout coinb1 | extranonce1 | extranonce2 |
coinb2, the branches, `stratum_parse_extranonce`, `stratum_set_difficulty`, and in
`stratum_gen_work` the copy of the job and the carry of extranonce2. Bytes are
digits below `Radix`. What lies behind the end of a shorter allocation is a choice.

**ShareAccounts** models the life of a share in the counters: queued, counted
(`update_submit_stats` in two steps, so that a half-stored entry exists), sent or
dropped, answered (`share_result`), and the reset by the stratum thread.

**RateWindow** models the samples behind the displayed hash rates
(`civiclight_stats.c`). A rate is the pair of hashes and seconds it is a quotient of.

**YespowerCell**, **YespowerMix** and **YespowerLanes** model `yespower-opt.c`. The
first has a cell of sixteen words with its SIMD order, Salsa20 and `pwxform`;
the second every blockmix kernel that has a caller, on one memory in which lanes
may share buffers; the third the drivers `smix1`, `smix2` and `smix` of each build,
and a thread that hashes again in the region the last hash left. The control
(order of reads and writes, which row is read, when tables are rotated, what a
pipelined kernel holds in registers) is kept; words have `Bits` bits, and
multiplication, rotation and table masks are scaled with them.

**Sha256Rounds** models the compression function as the SHA instructions of x86
(one and two lanes), those of ARM, `sph_sha2.c` and `yespower_sha256.c` compute it,
four rounds to a step, on small words; of a round constant the last digit is kept.

**ShaStream** models what is around it: context, update and padding of three codes
(`sha256-hash.c`, `yespower_sha256.c`, `sph_sha2.c`), with real buffer sizes. The
compression is free: a chaining value is the sequence of the blocks compressed so
far, and the constant `Digest(_)` makes 32 bytes of it. Every compression function
is such a `Digest` applied at the end, so what holds here holds for SHA-256.
`Leftover` is what the buffer of a new context happens to hold, `Message` what is
streamed, `Chunks` the lengths of the pieces.

**Pbkdf2** extends it with HMAC and the two ways through `YP_PBKDF2_SHA256`: the
generic loop, and the short way for one iteration, which pads two buffers once
(`SHA256_Pad_Almost`) and overwrites the block number and the inner hash in them.
`KdfCalls` are the calls it is made with.

**PowHash** extends that with `civiclight_powhash` and its midstate and two-lane
forms for the pairs of `Headers`. `Yespower(_)` is any function of 32 bytes. The
activation time is the code's.

**Interleave** models every function of `intrlv.h` as what it does with words that
know where they came from, for each vector unit that has its own version.

**Encodings** models `hex2bin` (the 64-bit mask with its carries, and the tail) and
`bin2hex`.

**Targets** models `diff_to_hash`, `hash_to_diff` and `valid_hash` of both builds,
which work on two halves of a hash where the compiler has 128-bit integers and on
four limbs where it has not. A limb has H * H values for the code's 2^32 * 2^32.
Difficulties are exact fractions.

**MCPoolLink** and **MCHashing** put the independent modules into one run each: the
variable `part` says which of them a behaviour is about, the others stay idle.

Modules named `...Proofs` hold the theorems, `MC...` the instances.
Definitions named `X_...` after a definition `X` are mutants: plausible mistakes in
the code `X` stands for, each of which breaks a property (PROJECT.json, "mutants").

## 3. Runs

| Run | Configuration | Shows |
|---|---|---|
| `queue` | 3 poppers (1 with a deadline), 3 pushes | `Fifo`, `NoLostWakeup`, and refinement of FifoQueue with delivery |
| `session` | 2 jobs, all faults, real limits | `FreshJobIsUsable`, `SetupIsQuiet`, `ListensAuthorized`, `ResumesOnSession`, `MiningResumes` |
| `dispatch` | 2 threads, 9 nonces, scans of up to 3 | `StaleScanIsRestarted`, `ScanInSlice`, `RoundsDisjoint`, no overflow |
| `miner_link` | 1 miner, 2 link faults, 2 waiting shares | `OldSharesMarked` where connections are lost without reauthentication |
| `miner_reauth` | 1 miner, reauthentications by any 2 faults, and sequences of faults that end in one backoff or two | `Dispatches`, `SubmissionEnds`, `NewWorkIsTaken` |
| `pool_link` | line buffer, requests, job data, share accounts, rates | `LinesExact`, `BufferFits`, `RequestsWhole`, `ShareRebuilds`, `DiffOfSession`, `ExtranonceAdvances`, `AnswersCovered`, `EntriesWhole`, `RateExact` |
| `hashing` | every build of the hash kernels; encodings | `LanesAgree`, `SimdIsPortable`, `LayoutKept`, `LanesComeBack`, `RoundsAgree`, `StreamIsPadded`, `KeyIsPbkdf2`, `PathsAgree`, `HexDecodes`, `SharesMeetDiff` |

Five runs look for the disagreement of the code with its own comments, and
TLC finds each:

| Run | Property | What happens |
|---|---|---|
| `suspension` | `SuspensionEnds` | A reauthentication after garbage or a pool error fails. Unlike the other two callers, this one leaves `solution_submission_suspended` set; the miner reconnects, mines and drops every share. |
| `reauth_return` | `TrueMeansAuthorized` | `stratum_reauthenticate` leaves `reauth_in_progress` set when it fails; the next call "succeeds" at once on a dead connection. |
| `shares_reauth` | `OldSharesMarked` | A reauthentication after a timeout does not increment `reauth_epoch`; shares of the old session are not dropped. |
| `shares_null_job` | `SharesHaveJob` | After a reset a miner scans the old header with a NULL job id once any line has cleared `stratum_down`. |
| `exhausted` | `ExhaustedWaitsForWork` | A lost connection wakes a miner that waits for new work; it hashes the same nonces again. |

### Seen while modelling, stated by no run

Session and shares:

* `pre_reauth_job_id` is written "to reject if pool sends same job" and never read;
  the comment at soj.c:1529 says more than 4 incorrect cycle errors, the code more
  than 2.
* `recv_failures` never reaches its limit, since after one failed reauthentication
  every further one is reported as a success and resets it (the place `recvWait` is
  unreachable), and the counter of the reconnect loop (soj.c:1763) only moves when
  `opt_retries` is set, which nothing does.
* A scan leaves `pdata[19]` at the first nonce it has not hashed and
  `std_get_new_work` increments it (soj_work.c:86): one nonce per scan is skipped.
* `std_get_new_work` does not compare `reauth_epoch` (soj_work.c:78): if a pool
  repeats a session's extranonce1 and job, the miner keeps its first copy's epoch
  and its shares are dropped as stale.
* After a notification refused at a bad branch the branches before it are already
  replaced and the count is zero (`ShareRebuilds` excludes the case); growing
  the branch buffer then frees only `merkle_count` entries and leaks the others.
* `send_line` may leave a request half written on a connection that goes on being
  used (`RequestsWhole` excludes it): the next request continues that line.

Encodings: `hex_swar_invalid_mask` judges bytes by sums that overflow for 0xba and
above, which then pass for digits in the eight-character loop and are refused by
the tail, although the comment says "digit valid iff byte in ['0','9']"
(util.c:937). JSON strings are UTF-8, so such bytes can occur; `HexDecodes` claims
refusal for ASCII only. `nbits_to_diff` starts its slow branch from 0 and
always returns 0 there.

Hash kernels (all modelled as coded; none is on the path of the default build):

* `intrlv.h`: the NEON `dintrlv_4x32` stores block 7 over block 6 at 1024 bits
  (446-507); `v128_bswap32_intrlv80_4x32` takes rows 16 to 19 from `s2` instead of
  `s4` (1037-1075); `intrlv_2x256` loses `s1[2]` at 640 bits (3422-3442);
  `rintrlv_8x64_2x256` yields turns of 128 bits of lanes j and j+4 (4088-4177);
  `rintrlv_4x64_4x32` and `rintrlv_8x64_8x32` have no cut at 640 bits. These sizes
  are the ones the properties leave out.
* `yespower-opt.c`: `civic_blockmix_4way` never xors `Bin[i]`, and
  `civic_smix1_1_0_4way` passes `r` for 1 (neither has a caller);
  `civic_pwxform_2way_reg` rotates copies of the S pointers; the comments at
  1117-1121 and 1205 disagree with the code; `smix2` counts down by two and
  ends only because its count was rounded to an even number.
* SHA-256: the prehash and final-rounds functions have no caller, and the final
  rounds suppose that words 5 to 14 are zero. `sha256-hash.h` declares
  `sha256_neon_sha_prehash_3rounds` and `sha256_neon_x2sha_final_rounds`, the C
  file defines neither.

### Bounds

* Queue: with three poppers and three entries every combination of sleeping,
  woken and timed-out threads with an empty, short and full list occurs. The
  safety properties are proved without bounds.
* Session: the only bound is two jobs, the same job again or another one.
* Dispatch: nine nonces give two slices of four with a reserve of one. A slice
  takes one scan or several, is interrupted, resumed and used up. Two headers
  suffice, since only equality counts. Also proved without bounds.
* Composition: one miner, as miners interact only through the queue and the
  shared work. Two faults are enough for a failure during the recovery from a
  failure, and for a second reauthentication after a failed one. A backoff takes
  three failures in a row, which `miner_reauth` gives in two sequences: garbage
  and three failures in set-up end in a backoff with submissions suspended; a
  failed read and five of them in two backoffs with submissions allowed. In both
  a share may be waiting in workio (`paused` with `wpc = "wait"` is reached).
  `SubmissionEnds` thus says that a wait survives the end of one backoff and the
  beginning of the next. It does not say that the wait ends if failures start
  backoff after backoff for ever: then workio, which looks at `pause_until_time`
  in slices (util.c:115), need never find one over.

* Line buffer: buffers grow in steps of 4, chunks have up to 2 bytes, 6 bytes are
  sent on each of 2 connections: a line may end inside a chunk, at its end, fill
  the buffer exactly and make it grow. Requests: 3 of 3 bytes from 2 threads.
* Job data: 2 jobs of different lengths, extranonce2 of 2 and 3 binary digits, so
  that it carries and wraps. Share accounts: a ring of 2 for 3 shares of 2 miners.
  Rates: a ring of 4 with an interval of 2, windows of 3 and 6 seconds, 6 looks, so
  that it wraps.
* Hashing: words of 4 bits, r = 2 and N = 8, two inputs and two hashes in a row in
  one region, so that every table wraps, every row is visited and what a hash
  leaves behind meets the next one. A scheduling mistake changes a word with high
  probability whatever the width; what small words cannot show is a wrong
  constant in digits that are not kept. Interleavings have all sizes the code
  distinguishes.
* Streams, keys and headers: one digest and one yespower that mix their bytes, a
  message of 216 bytes in pieces with lengths around 55, 56 and 64, passwords and
  salts around the ends of a block and of its padding, up to 3 iterations and two
  blocks of key, headers on both sides of the activation time that share
  their first block or do not. Proved without these bounds.
* Encodings: characters on both sides of every boundary, alone and next to each
  other in the word loop, in the tail and where they meet. Targets: H = 2, all
  difficulties n/d below 8 and 6 whose target has the width of a hash, all hashes
  whose limbs are 0, 1 or the largest value. Proved for every H.

### Fairness

* Queue: a thread inside `tq_pop` that is not asleep goes on; the mutex is never
  held across a blocking call.
* Session (`MiningResumes`, `SuspensionEnds`): the thread runs, pauses and
  cooldowns end with the clock (weak fairness). Strong fairness of a successful
  connection, subscription, authorization and of a received job says that a pool
  which is asked again and again answers in the end: without it the miner can
  only wait.
* Composition: miners and workio are scheduled, pauses end. Nothing is asked of
  the pool, and nothing of the stratum thread.

## 4. Proofs

Every theorem holds for all values of the constants that satisfy the ASSUMEs.

* **ThreadQueueProofs**: `TypeCorrect`, `FifoOrder`, `WakeupsSuffice`,
  `LineRefinement`. `Fifo` is inductive given the types; `NoLostWakeup` counts
  woken threads, so it needs that there are finitely many poppers.
* **StratumSessionProofs**: `SessionTypes`, `NoOrphanJob`, `QuietSetup`,
  `AuthorizedListening`, `SafeResumption`, from one inductive invariant
  `SessionInv`. The properties are not inductive alone. A failed connection
  must not strand a job, which needs that a connection is only attempted when
  there is none (`ConnectsFromScratch`). Listening only on an authorized session
  needs that every exit from the set-up stages has completed the session or
  dropped it (`Settled`). Resuming submissions safely needs that a
  reauthentication that is given up has disconnected (`GaveUpEmpty`). It is not
  claimed that submissions are suspended only during a reauthentication: after a
  failed one they may stay suspended, which is what run `suspension` finds.
  The bound on cycle errors needs that the error past the limit leads to a reset
  before the next line is read (`CycleCounted`).
* **WorkDispatchProofs**: `TypesAndBounds`, `NoLostRestart`, `ScansStayInSlice`,
  `NoNonceTwice`, from `DispatchInv`. The strengthening `SliceKept` says that a
  nonce never passes its `end_nonce`, and that a miner which has taken a job over
  has the bounds of its own slice (before the first copy `end_nonce` is another
  number). Assumed: at least one thread, a reserve of at least one, and slices
  longer than both the reserve and the number of threads.
* **MinerSystemProofs**: `SessionRefinement`, the whole miner implements
  StratumSession, and `DispatchRefinement`, it implements WorkDispatch. The second
  uses the first (the flags miners read are flags) and that connection, epoch and
  extranonce2 are natural numbers. Through them `MinerKeepsSession` and
  `MinersKeepApart` carry the invariants of both components over to the whole:
  the theorems of WorkDispatchProofs are instantiated with the miner's variables,
  and its environment is the real stratum thread. `OldSharesStayMarked`:
  a share of an older connection carries an older epoch. It needs `MarkedInv`:
  wherever a work is on its way from `stratum_gen_work` to the pool (shared, in a
  miner, in the queue, in the hands of workio), it has an older epoch if it is of
  an older connection, and already when the thread is about to connect, since
  the property alone says nothing about works that a connection yet to come will
  make old. Assumed: no fault that makes the
  thread reauthenticate. With one the property is false, which is what
  run `shares_reauth` finds.

* **LineProofs**: `NoOverrun`: the string and its NUL fit, since the buffer only
  grows and a grown buffer exceeds what it must hold. `LinesAreTheStream`: what the
  pool sent is what was returned, followed by the buffer and the wire; needs
  that a cut moves bytes and drops none, and that a disconnect empties all.
  `WholeRequests`, from `WholeInv`: as long as no request was given up, the stream
  ends at `at` bytes of the holder's request (`EndsWith`).
* **JobDataProofs**: `JobTypesHold`; `SessionDiff`, from `DiffInv` (no difficulty is
  kept over a disconnect); `SharesRebuild`, from `LaidOut`, which says where each
  part of the coinbase lies, and lemmas on splicing sequences.
  `ExtranonceNotRepeated`, from `CarryInv`: with each extranonce2 published for a
  job the one it steps to is published too or is the next, so when a published
  one comes again the published ones are closed under stepping. `StepGoesRound`
  shows that such a set is everything: its greatest member can only be the one
  that wraps to zero, and the least number missing would be the step of a smaller
  one. Greatest and least exist because the order of digit strings, a lexical
  order, is well founded. Assumed (`LongTails`): at least as many bytes follow extranonce2
  in a coinbase as its sizes may differ by. The code does not check this; sizes are 2 to
  16 (`stratum_parse_extranonce`), and the end of a coinbase transaction (sequence,
  one output, lock time) has 18 bytes and more. With a shorter end, a size raised
  after the notification reaches past the allocation.
* **StatisticsProofs**: `NoAnswerUncovered`, counting the shares queued and not yet
  counted, so it needs finitely many miners; `EntriesStayWhole`, from `RingInv` (one
  miner stores at a time, and the half-stored entry is its own). `RatesExact`, from
  `RateInv`: the ring holds the last samples of the history, each at the place its
  age gives, and samples lie at least an interval apart. The scan, which stops
  at the first sample that is too old, therefore ends at the oldest sample inside
  the window, or the ring has wrapped and what it lost is outside every window.
  Assumed: the ring spans the longest window (the code's 92 samples, 10
  seconds apart, span 900).
* **HashProofs**, targets: `SharesMeet`, for every size of a limb. Comparing limbs
  from the top compares the numbers (`ComparesNumbers`), both builds make the
  same target (`SameTargets`: one cuts the quotient into limbs, the other divides limb by limb), and a
  hash is below the target exactly when its difficulty is at least the one asked for
  (`BelowMeansMeets`). Assumed of a difficulty: its target fits the width
  of a hash.
* **HashProofs**, streams: `StreamPadded`, for every message, every way to cut it and
  every leftover. The invariant (`StreamInv`, by `Holds`) says what a context
  has taken in: the whole blocks of the message are compressed, the rest of it is at
  the front of the buffer, the count is its length in the unit of the code. `Holds`
  says nothing of the bytes behind the rest, so that none of them may matter:
  `UpdateHolds` shows that each update keeps it, `FinalIsSha` and `YpFinalIsSha` that
  each final, which overwrites those bytes with mark, zeros and count in one block
  (`OneMore`) or two (`TwoMore`), compresses the padded message.
* **HashProofs**, keys: `KeysDerived`. The inner context of HMAC holds the inner pad and
  what was fed, the outer one the outer pad (`Keyed`). For the generic way,
  `IterateSame` shows that iterating hash and exclusive or side by side gives the
  standard's exclusive or of all iterates. Its recursive functions are CHOOSEn, so
  first they are shown to exist (`ChainExists`: there is no least length without
  one). For the short way, `PadAlmostIs` shows that the padded buffer is the last block of any
  message of the length counted (`LaidPadding`), and `Repatched` that it still is
  after its last bytes before the mark are overwritten: so one buffer serves all
  block numbers, and the outer one, whose count was raised by 32 bytes nobody fed,
  all inner hashes (`OuterBlock`). That the padding must fit one block is where
  the test `at <= 51` is needed.
* **HashProofs**, proof of work: `PathsAlike`. The blocks padded by hand with
  constants are the last blocks of messages of 32 and of 80 bytes (`HashBlock`,
  `HeaderBlock`), and the midstate holds the first block of a header.
* The last two theorems have as a hypothesis that digests are 32 bytes, and
  yespower of 32 bytes too (`DigestBytes`, `YespowerBytes`), the types the
  C functions have. TLA+ gives an operator constant no type, and an ASSUME about all
  sequences of blocks could not be evaluated by TLC.

Only model-checked: everything that needs fairness (`MiningResumes`,
`SubmissionEnds`, `NewWorkIsTaken`, delivery in `ImplementsLine`), which is out of
the prover's reach, and these properties of the hash kernels and of the hexadecimal
conversions. `LanesAgree`, `SimdIsPortable` and `RoundsAgree` are about what folds
and recursive functions over words compute, for which the prover has no induction; `LayoutKept`
and `LanesComeBack` have no parameter a theorem could generalise (all layouts and
sizes of the code are in the run, and the functions move words without looking at
them); `HexDecodes` is about carries between the bytes of one 64-bit word.

## 5. Not modelled

* Vendored JSON, getopt and pthread code; command line, start-up and CPU affinity,
  which run before the threads and fix the constants; the benchmark loops; wording
  and logging; Windows differences. The time limit (`opt_time_limit`) ends the process.
* Code without a reachable caller: `tq_free`, `WC_GET_WORK`, the keepalive, the retry
  limit, `civic_blockmix_4way`, `civic_smix1_1_0_4way`, SHA-1 and SHA-512, bit-granular
  input of `sph_sha2.c`, `b58check`.
* Of the hash kernels: prefetching, allocation of regions, the byte order of loads, the
  one-instruction wrappers of `simd-*.h`, which appear where they are used.
* Of the targets: the rounding of `long double` and `nbits_to_diff`.

## 6. Plan

Done: the queue with its abstract line, the session, the work distribution and
their composition; the line buffer, requests, job data, share accounts and rates;
the hash kernels, encodings and targets; the proofs above. Left:

1. **Backoff arithmetic**: rounding to the four-minute boundary, the cooldown, and
   the slices the waiting thread sleeps.
2. **Composition of the line buffer with the session**: `select` on a socket while a
   line is already in the buffer.
