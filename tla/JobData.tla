------------------------------ MODULE JobData -------------------------------
(***************************************************************************)
(* What the stratum thread keeps of the pool's job and how it becomes      *)
(* work: mining.notify lays the coinbase out as coinb1 | extranonce1 |     *)
(* extranonce2 | coinb2, mining.set_extranonce and mining.set_difficulty   *)
(* change what the next notification uses, and stratum_gen_work publishes  *)
(* the job with the current extranonce2 and then steps it.  Bytes are      *)
(* digits below Radix; the parts of a job are given by constants.          *)
(***************************************************************************)
EXTENDS Naturals, Sequences

CONSTANTS JobIds,       \* job ids the pool uses
          Coinb1,       \* Coinb1[j], Coinb2[j]: the coinbase parts of job j
          Coinb2,
          Branches,     \* Branches[j]: number of merkle branches of job j
          Extranonces,  \* values of extranonce1
          X2Sizes,      \* sizes of extranonce2 (2..16 in the code)
          Diffs,        \* difficulties the pool sets
          UserDiff,     \* difficulty given with -p d=..., 0 without
          Radix         \* values of a byte (256)

NoId == "null"

ASSUME JobAssumption == /\ Radix \in Nat /\ Radix > 1
                        /\ \A s \in X2Sizes : s \in Nat \ {0}
                        /\ \A d \in Diffs : d \in Nat \ {0}
                        /\ UserDiff \in Nat
                        /\ Extranonces \subseteq Seq(0..(Radix - 1))
                        /\ Coinb1 \in [JobIds -> Seq(0..(Radix - 1))]
                        /\ Coinb2 \in [JobIds -> Seq(0..(Radix - 1))]
                        /\ Branches \in [JobIds -> Nat]
                        /\ NoId \notin JobIds

VARIABLES xnonce1, xnonce2_size,    \* of the session
          next_diff,
          job,          \* [id, diff, merkle, buf]: merkle is the branches in use
          coinbase,     \* bytes of the coinbase
          x2at,         \* where job.xnonce2 points in it
          new_job,
          setup,        \* between connecting and the first wait for a message
          g,            \* g_work: the published work
          asked,        \* history: difficulty in force in this session, 0 if none
          given,        \* history: extranonce1 when the job was announced
          suspect,      \* history: the job in use is not one the pool announced
          used          \* history: extranonce2 values published for this job

jvars == <<xnonce1, xnonce2_size, next_diff, job, coinbase, x2at, new_job, setup,
           g, asked, given, suspect, used>>

(* Branch i of job j. *)
BranchesOf(j) == [i \in 1..Branches[j] |-> <<j, i>>]

(* job.xnonce2, xnonce2_size bytes of it; 0 stands for what lies behind    *)
(* the end of the coinbase.                                                *)
Xnonce2 == [i \in 1..xnonce2_size |->
               IF x2at + i <= Len(coinbase) THEN coinbase[x2at + i] ELSE 0]

JInit == /\ xnonce1 = <<>> /\ xnonce2_size = 0 /\ next_diff = 0
         /\ job = [id |-> NoId, diff |-> 0, merkle |-> <<>>, buf |-> 0]
         /\ coinbase = <<>> /\ x2at = 0
         /\ new_job = FALSE /\ setup = TRUE
         /\ g = [id |-> NoId, x2 |-> <<>>, coinbase |-> <<>>, merkle |-> <<>>, diff |-> 0,
                 from |-> <<>>, suspect |-> FALSE, asked |-> 0]
         /\ asked = 0 /\ given = <<>> /\ suspect = FALSE /\ used = {}

(* Messages are read one by one: during the set-up one after the other,    *)
(* later each is followed by stratum_gen_work if it announced a job.       *)
Reads == xnonce1 # <<>> /\ (setup \/ ~new_job)

(* stratum_subscribe's answer, or mining.set_extranonce.                   *)
ParseExtranonce(x1, size) == /\ IF xnonce1 = <<>> THEN setup ELSE Reads
                             /\ xnonce1' = x1 /\ xnonce2_size' = size
                             /\ suspect' = (suspect \/ (job.id # NoId /\ size # xnonce2_size))
                             /\ used' = IF size # xnonce2_size THEN {} ELSE used
                             /\ UNCHANGED <<next_diff, job, coinbase, x2at, new_job, setup, g, asked, given>>

(* mining.set_difficulty; a difficulty of zero is refused.                 *)
SetDifficulty(d) == /\ Reads
                    /\ next_diff' = IF UserDiff > 0 THEN UserDiff ELSE d
                    /\ asked' = IF UserDiff > 0 THEN UserDiff ELSE d
                    /\ UNCHANGED <<xnonce1, xnonce2_size, job, coinbase, x2at, new_job, setup, g, given,
                                   suspect, used>>

(* The buffer of branches only ever grows. *)
BufFor(n) == IF n > job.buf THEN n ELSE job.buf

(* The coinbase of job j: extranonce2 is zeroed for a job other than the   *)
(* last one; otherwise the bytes at its place stay as they were, arbitrary *)
(* (junk) behind the end of the old allocation.                            *)
Layout(j, junk) ==
    LET at == Len(Coinb1[j]) + Len(xnonce1)
        x2 == [i \in 1..xnonce2_size |->
                 IF job.id # j THEN 0
                 ELSE IF at + i <= Len(coinbase) THEN coinbase[at + i] ELSE junk]
    IN  Coinb1[j] \o xnonce1 \o x2 \o Coinb2[j]

PlaceOf_Coinb1(j) == Len(Coinb1[j])

PlaceOf(j) == Len(Coinb1[j]) + Len(xnonce1)

(* mining.notify, accepted. *)
Notify(j) == /\ Reads
             /\ \E junk \in 0..(Radix - 1) : coinbase' = Layout(j, junk)
             /\ x2at' = PlaceOf(j)
             /\ job' = [id |-> j, diff |-> next_diff, merkle |-> BranchesOf(j), buf |-> BufFor(Branches[j])]
             /\ new_job' = TRUE
             /\ given' = xnonce1 /\ suspect' = FALSE
             /\ used' = IF job.id = j /\ x2at = PlaceOf(j) THEN used ELSE {}
             /\ UNCHANGED <<xnonce1, xnonce2_size, next_diff, setup, g, asked>>

(* mining.notify refused for its parameters; it is announced all the same, *)
(* and the job before it is published once more.                           *)
NotifyRefused == /\ Reads /\ job.id # NoId
                 /\ new_job' = TRUE
                 /\ UNCHANGED <<xnonce1, xnonce2_size, next_diff, job, coinbase, x2at, setup, g, asked,
                                given, suspect, used>>

(* mining.notify refused for a merkle branch: the branches before it are   *)
(* overwritten and the count is zero, under the id of the job before.      *)
NotifyTorn(j) == /\ Reads /\ job.id # NoId /\ Branches[j] > 0
                 /\ job' = [job EXCEPT !.merkle = <<>>, !.buf = BufFor(Branches[j])]
                 /\ new_job' = TRUE
                 /\ suspect' = TRUE
                 /\ UNCHANGED <<xnonce1, xnonce2_size, next_diff, coinbase, x2at, setup, g, asked, given, used>>

Next2_NoCarry(x2) == [x2 EXCEPT ![1] = (@ + 1) % Radix]

(* extranonce2 as a little-endian number, plus one. *)
Next2(x2) == [i \in DOMAIN x2 |->
                 IF \A k \in 1..(i - 1) : x2[k] = Radix - 1 THEN (x2[i] + 1) % Radix ELSE x2[i]]

(* stratum_gen_work; the job id must not be NULL (see StratumSession).     *)
GenWork == /\ new_job /\ job.id # NoId
           /\ new_job' = FALSE /\ setup' = FALSE
           /\ g' = [id |-> job.id, x2 |-> Xnonce2, coinbase |-> coinbase, merkle |-> job.merkle,
                    diff |-> job.diff, from |-> given, suspect |-> suspect, asked |-> asked]
           /\ used' = used \cup {Xnonce2}
           /\ coinbase' = [p \in DOMAIN coinbase |->
                             IF p \in (x2at + 1)..(x2at + xnonce2_size)
                             THEN Next2(Xnonce2)[p - x2at] ELSE coinbase[p]]
           /\ UNCHANGED <<xnonce1, xnonce2_size, next_diff, job, x2at, asked, given, suspect>>

(* The set-up ends without a job. *)
SetupDone == /\ setup /\ xnonce1 # <<>> /\ ~new_job
             /\ setup' = FALSE
             /\ UNCHANGED <<xnonce1, xnonce2_size, next_diff, job, coinbase, x2at, new_job, g, asked,
                            given, suspect, used>>

Hangup_KeepsDiff == /\ xnonce1 # <<>>
          /\ xnonce1' = <<>> /\ xnonce2_size' = 0
          /\ next_diff' = next_diff
          /\ new_job' = FALSE /\ setup' = TRUE
          /\ job' = [job EXCEPT !.id = NoId]
          /\ asked' = 0 /\ suspect' = FALSE /\ used' = {}
          /\ UNCHANGED <<coinbase, x2at, g, given>>

(* stratum_disconnect clears the session's part; the coinbase stays        *)
(* allocated, with its bytes.                                              *)
Hangup == /\ xnonce1 # <<>>
          /\ xnonce1' = <<>> /\ xnonce2_size' = 0
          /\ next_diff' = 0
          /\ new_job' = FALSE /\ setup' = TRUE
          /\ job' = [job EXCEPT !.id = NoId]
          /\ asked' = 0 /\ suspect' = FALSE /\ used' = {}
          /\ UNCHANGED <<coinbase, x2at, g, given>>

JNext == \/ \E x1 \in Extranonces, size \in X2Sizes : ParseExtranonce(x1, size)
         \/ \E d \in Diffs : SetDifficulty(d)
         \/ \E j \in JobIds : Notify(j) \/ NotifyTorn(j)
         \/ NotifyRefused \/ GenWork \/ SetupDone \/ Hangup

JobSpec == JInit /\ [][JNext]_jvars

-----------------------------------------------------------------------------
(* The pool, given a share's job id and extranonce2, builds the coinbase   *)
(* and the merkle root the miners hashed: with the extranonce1 it had      *)
(* announced before that job, also when it changed it meanwhile, repeated  *)
(* the job or a notification in between was refused.  Excluded (suspect)   *)
(* are a notification torn at a bad branch and an extranonce2 size changed *)
(* since the job was announced (it is published again with the new size    *)
(* when the next notification is refused).                                 *)
ShareRebuilds ==
    g.id # NoId /\ ~g.suspect =>
        /\ g.coinbase = Coinb1[g.id] \o g.from \o g.x2 \o Coinb2[g.id]
        /\ g.merkle = BranchesOf(g.id)

(* Work is never given a difficulty the pool set in an earlier session:    *)
(* its difficulty is the one in force now, an earlier one of this session, *)
(* or none.                                                                *)
DiffOfSession == g.diff # 0 => g.asked # 0

(* A job published again and again gets an extranonce2 it has not had,     *)
(* until it has had them all, so that miners do not hash the same headers  *)
(* twice; only a different job in between, or a new extranonce, starts it  *)
(* over.                                                                   *)
ExtranonceAdvances ==
    [][new_job /\ ~new_job' /\ xnonce1' # <<>> /\ used' = used
         => used = [1..xnonce2_size -> 0..(Radix - 1)]]_jvars
=============================================================================
