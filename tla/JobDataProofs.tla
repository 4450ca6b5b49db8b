--------------------------- MODULE JobDataProofs ----------------------------
(***************************************************************************)
(* Proofs about jobs, extranonces and difficulties for every set of jobs,  *)
(* every coinbase and every size of the extranonces.                       *)
(***************************************************************************)
EXTENDS JobData, SequenceTheorems, WellFoundedInduction, TLAPS

Digit == 0..(Radix - 1)
Merkles == {<< >>} \cup {BranchesOf(j) : j \in JobIds}

JobTypes == /\ xnonce1 \in Seq(Digit) /\ given \in Seq(Digit) /\ coinbase \in Seq(Digit)
            /\ xnonce2_size \in Nat /\ x2at \in Nat
            /\ job \in [id : JobIds \cup {NoId}, diff : Nat, merkle : Merkles, buf : Nat]
            /\ next_diff \in Nat /\ suspect \in BOOLEAN

(* The coinbase of job j with extranonce1 x1 and extranonce2 x2. *)
Coinbase(j, x1, x2) == Coinb1[j] \o x1 \o x2 \o Coinb2[j]

(* The job in use, unless suspect, is laid out as the pool announced it,   *)
(* and job.xnonce2 points at its extranonce2.                              *)
LaidOut == /\ job.merkle = BranchesOf(job.id)
           /\ x2at = Len(Coinb1[job.id]) + Len(given)
           /\ \E x2 \in [1..xnonce2_size -> Digit] : coinbase = Coinbase(job.id, given, x2)

(* A difficulty kept is one of this session. *)
DiffInv == /\ next_diff # 0 => asked # 0
           /\ job.id # NoId /\ job.diff # 0 => asked # 0
           /\ DiffOfSession

(* Functions on 1..n are sequences of length n. *)
LEMMA FunctionIsSeq ==
  ASSUME NEW n \in Nat, NEW f \in [1..n -> Digit]
  PROVE  f \in Seq(Digit) /\ Len(f) = n
OBVIOUS

(* The sequence s is h, then the n bytes of x, then c. *)
Spliced(s, h, x, c, n) ==
    /\ s \in Seq(Digit) /\ Len(h) \in Nat /\ Len(c) \in Nat
    /\ Len(s) = Len(h) + n + Len(c)
    /\ \A p \in 1..(Len(h) + n + Len(c)) :
          s[p] = IF p <= Len(h) THEN h[p]
                 ELSE IF p <= Len(h) + n THEN x[p - Len(h)]
                 ELSE c[p - Len(h) - n]

(* The middle part of a concatenation is found at its place. *)
LEMMA MiddlePart ==
  ASSUME NEW h \in Seq(Digit), NEW n \in Nat, NEW x \in [1..n -> Digit], NEW c \in Seq(Digit)
  PROVE  Spliced(h \o x \o c, h, x, c, n)
<1>0. Len(h) \in Nat /\ Len(c) \in Nat /\ x \in Seq(Digit) /\ Len(x) = n
  BY LenProperties, FunctionIsSeq
<1>1. /\ h \o x \in Seq(Digit) /\ Len(h \o x) = Len(h) + n
      /\ \A i \in 1..(Len(h) + n) : (h \o x)[i] = IF i <= Len(h) THEN h[i] ELSE x[i - Len(h)]
  BY <1>0, ConcatProperties
<1>2. /\ (h \o x) \o c \in Seq(Digit) /\ Len((h \o x) \o c) = Len(h \o x) + Len(c)
      /\ \A i \in 1..(Len(h \o x) + Len(c)) :
            ((h \o x) \o c)[i] = IF i <= Len(h \o x) THEN (h \o x)[i] ELSE c[i - Len(h \o x)]
  BY <1>1, ConcatProperties
<1>3. ASSUME NEW p \in 1..(Len(h) + n + Len(c))
      PROVE  (h \o x \o c)[p] = IF p <= Len(h) THEN h[p]
                                ELSE IF p <= Len(h) + n THEN x[p - Len(h)]
                                ELSE c[p - Len(h) - n]
  <2>1. CASE p <= Len(h) + n
    <3>1. p \in 1..(Len(h) + n) /\ p \in 1..(Len(h \o x) + Len(c))
      BY <1>0, <1>1, <2>1
    <3>2. (h \o x \o c)[p] = (h \o x)[p]
      BY <1>1, <1>2, <2>1, <3>1
    <3> QED
      BY <1>1, <2>1, <3>1, <3>2
  <2>2. CASE ~(p <= Len(h) + n)
    <3>1. /\ p \in 1..(Len(h \o x) + Len(c)) /\ ~(p <= Len(h)) /\ ~(p <= Len(h \o x))
          /\ p - Len(h \o x) = p - Len(h) - n
      BY <1>0, <1>1, <2>2
    <3> QED
      BY <1>2, <2>2, <3>1
  <2> QED
    BY <2>1, <2>2
<1> QED
  BY <1>0, <1>1, <1>2, <1>3 DEF Spliced

(* The coinbase of a job is coinb1 and extranonce1, extranonce2, coinb2.   *)
LEMMA CoinbaseParts ==
  ASSUME NEW j \in JobIds, NEW x1 \in Seq(Digit), NEW n \in Nat, NEW x2 \in [1..n -> Digit]
  PROVE  /\ Spliced(Coinbase(j, x1, x2), Coinb1[j] \o x1, x2, Coinb2[j], n)
         /\ Len(Coinb1[j] \o x1) = Len(Coinb1[j]) + Len(x1)
<1>1. Coinb1[j] \in Seq(Digit) /\ Coinb2[j] \in Seq(Digit)
  BY JobAssumption DEF Digit
<1>2. /\ Coinb1[j] \o x1 \in Seq(Digit)
      /\ Len(Coinb1[j] \o x1) = Len(Coinb1[j]) + Len(x1)
  BY <1>1, ConcatProperties
<1> QED
  BY <1>1, <1>2, MiddlePart DEF Coinbase

(* The n bytes behind the first at of s replaced by y, and read. *)
Replaced(s, at, n, y) ==
    [p \in DOMAIN s |-> IF p \in (at + 1)..(at + n) THEN y[p - at] ELSE s[p]]
ReadAt(s, at, n) == [i \in 1..n |-> IF at + i <= Len(s) THEN s[at + i] ELSE 0]

(* Replacing the middle part, and reading it. *)
LEMMA MiddleReplaced ==
  ASSUME NEW s, NEW t, NEW h, NEW c, NEW n \in Nat,
         NEW x \in [1..n -> Digit], NEW y \in [1..n -> Digit],
         Spliced(s, h, x, c, n), Spliced(t, h, y, c, n)
  PROVE  Replaced(s, Len(h), n, y) = t /\ ReadAt(s, Len(h), n) = x
<1> DEFINE at == Len(h)
<1>1. at \in Nat /\ Len(c) \in Nat /\ s \in Seq(Digit) /\ t \in Seq(Digit)
  BY DEF Spliced
<1> DEFINE size == at + n + Len(c)
<1>2. Len(s) = size /\ Len(t) = size /\ size \in Nat
  BY <1>1 DEF Spliced
<1>3. DOMAIN s = 1..size /\ DOMAIN t = 1..size /\ t = [p \in 1..size |-> t[p]]
  BY <1>1, <1>2, LenProperties
<1>4. ASSUME NEW p \in 1..size
      PROVE  t[p] = IF p \in (at + 1)..(at + n) THEN y[p - at] ELSE s[p]
  <2>1. /\ s[p] = IF p <= at THEN h[p] ELSE IF p <= at + n THEN x[p - at] ELSE c[p - at - n]
        /\ t[p] = IF p <= at THEN h[p] ELSE IF p <= at + n THEN y[p - at] ELSE c[p - at - n]
    BY DEF Spliced
  <2>2. p \in (at + 1)..(at + n) <=> ~(p <= at) /\ p <= at + n
    BY <1>1, <1>2
  <2> QED
    BY <2>1, <2>2
<1>5. ASSUME NEW i \in 1..n PROVE at + i <= Len(s) /\ s[at + i] = x[i]
  <2>1. /\ at + i \in 1..size /\ ~(at + i <= at) /\ at + i <= at + n /\ (at + i) - at = i
    BY <1>1, <1>2
  <2>2. s[at + i] = x[(at + i) - at]
    BY <2>1 DEF Spliced
  <2> QED
    BY <1>2, <2>1, <2>2
<1>6. ReadAt(s, at, n) = x
  BY <1>5 DEF ReadAt
<1> HIDE DEF size
<1> QED
  BY <1>3, <1>4, <1>6 DEF Replaced

(* extranonce2 stepped is as long as before and made of bytes. *)
LEMMA StepKeepsSize ==
  ASSUME NEW n \in Nat, NEW x2 \in [1..n -> Digit]
  PROVE  Next2(x2) \in [1..n -> Digit]
<1>1. \A i \in 1..n : (x2[i] + 1) % Radix \in Digit
  BY JobAssumption DEF Digit
<1> QED
  BY <1>1 DEF Next2

(* What stratum_gen_work reads as extranonce2 is made of bytes. *)
LEMMA ReadExtranonce ==
  ASSUME JobTypes
  PROVE  Xnonce2 \in [1..xnonce2_size -> Digit]
<1>1. 0 \in Digit
  BY JobAssumption DEF Digit
<1>2. ASSUME NEW i \in 1..xnonce2_size, x2at + i <= Len(coinbase)
      PROVE  coinbase[x2at + i] \in Digit
  <2>1. x2at + i \in 1..Len(coinbase) /\ coinbase \in Seq(Digit)
    BY <1>2, LenProperties DEF JobTypes
  <2> QED
    BY <2>1, ElementOfSeq
<1> QED
  BY <1>1, <1>2 DEF Xnonce2

(* The coinbase keeps its layout when stratum_gen_work steps extranonce2,  *)
(* and what it publishes is the extranonce2 in the coinbase.               *)
LEMMA ExtranonceReplaced ==
  ASSUME NEW j \in JobIds, NEW x1 \in Seq(Digit), NEW n \in Nat, NEW x2 \in [1..n -> Digit],
         NEW y2 \in [1..n -> Digit]
  PROVE  LET at == Len(Coinb1[j]) + Len(x1)
         IN  /\ Replaced(Coinbase(j, x1, x2), at, n, y2) = Coinbase(j, x1, y2)
             /\ ReadAt(Coinbase(j, x1, x2), at, n) = x2
<1>1. /\ Spliced(Coinbase(j, x1, x2), Coinb1[j] \o x1, x2, Coinb2[j], n)
      /\ Spliced(Coinbase(j, x1, y2), Coinb1[j] \o x1, y2, Coinb2[j], n)
      /\ Len(Coinb1[j] \o x1) = Len(Coinb1[j]) + Len(x1)
  BY CoinbaseParts
<1>2. ASSUME NEW s, NEW t, NEW h, Spliced(s, h, x2, Coinb2[j], n), Spliced(t, h, y2, Coinb2[j], n)
      PROVE  Replaced(s, Len(h), n, y2) = t /\ ReadAt(s, Len(h), n) = x2
  BY <1>2, MiddleReplaced
<1>3. /\ Replaced(Coinbase(j, x1, x2), Len(Coinb1[j] \o x1), n, y2) = Coinbase(j, x1, y2)
      /\ ReadAt(Coinbase(j, x1, x2), Len(Coinb1[j] \o x1), n) = x2
  BY <1>1, <1>2
<1> QED
  BY <1>1, <1>3

(* Whatever the job, the coinbase stays a sequence of bytes. *)
LEMMA ReplacedIsBytes ==
  ASSUME NEW s \in Seq(Digit), NEW at \in Nat, NEW n \in Nat, NEW y \in [1..n -> Digit]
  PROVE  Replaced(s, at, n, y) \in Seq(Digit)
<1>1. Len(s) \in Nat /\ DOMAIN s = 1..Len(s) /\ \A p \in 1..Len(s) : s[p] \in Digit
  BY LenProperties
<1>2. \A p \in 1..Len(s) : p \in (at + 1)..(at + n) => p - at \in 1..n
  BY <1>1
<1>3. Replaced(s, at, n, y) \in [1..Len(s) -> Digit]
  BY <1>1, <1>2 DEF Replaced
<1> QED
  BY <1>1, <1>3, FunctionIsSeq

(* What mining.notify lays out as extranonce2, whether it is zeroed or     *)
(* left as it was, is made of bytes.                                       *)
LEMMA LayoutIsCoinbase ==
  ASSUME JobTypes, NEW j \in JobIds, NEW junk \in Digit
  PROVE  \E x2 \in [1..xnonce2_size -> Digit] : Layout(j, junk) = Coinbase(j, xnonce1, x2)
<1> DEFINE at == Len(Coinb1[j]) + Len(xnonce1)
           x2 == [i \in 1..xnonce2_size |->
                    IF job.id # j THEN 0
                    ELSE IF at + i <= Len(coinbase) THEN coinbase[at + i] ELSE junk]
<1>1. 0 \in Digit /\ at \in Nat /\ Len(coinbase) \in Nat /\ xnonce2_size \in Nat
  BY JobAssumption, LenProperties DEF Digit, JobTypes
<1>2. ASSUME NEW i \in 1..xnonce2_size, at + i <= Len(coinbase)
      PROVE  coinbase[at + i] \in Digit
  <2>1. at + i \in 1..Len(coinbase) /\ coinbase \in Seq(Digit)
    BY <1>1, <1>2 DEF JobTypes
  <2> QED
    BY <2>1, ElementOfSeq
<1>3. x2 \in [1..xnonce2_size -> Digit]
  BY <1>1, <1>2
<1>4. Layout(j, junk) = Coinbase(j, xnonce1, x2)
  BY DEF Layout, Coinbase
<1> HIDE DEF x2
<1> QED
  BY <1>3, <1>4

(* A coinbase is a sequence of bytes. *)
LEMMA CoinbaseIsBytes ==
  ASSUME NEW j \in JobIds, NEW x1 \in Seq(Digit), NEW n \in Nat, NEW x2 \in [1..n -> Digit]
  PROVE  Coinbase(j, x1, x2) \in Seq(Digit)
BY CoinbaseParts DEF Spliced

(* The types of the job and of the session. *)
LEMMA TypesInit == JInit => JobTypes
<1> SUFFICES ASSUME JInit PROVE JobTypes
  OBVIOUS
<1>1. << >> \in Seq(Digit)
  BY EmptySeq
<1>2. << >> \in Merkles
  BY DEF Merkles
<1>3. job \in [id : JobIds \cup {NoId}, diff : Nat, merkle : Merkles, buf : Nat]
  BY <1>2 DEF JInit
<1> QED
  BY <1>1, <1>3 DEF JInit, JobTypes

(* Every message and every publication keeps the types. *)
LEMMA TypesStep == JobTypes /\ [JNext]_jvars => JobTypes'
<1> SUFFICES ASSUME JobTypes, [JNext]_jvars PROVE JobTypes'
  OBVIOUS
<1>1. ASSUME NEW x1 \in Extranonces, NEW size \in X2Sizes, ParseExtranonce(x1, size)
      PROVE  JobTypes'
  BY <1>1, JobAssumption DEF ParseExtranonce, JobTypes, Digit
<1>2. ASSUME NEW d \in Diffs, SetDifficulty(d) PROVE JobTypes'
  BY <1>2, JobAssumption DEF SetDifficulty, JobTypes
<1>3. ASSUME NEW j \in JobIds, Notify(j) PROVE JobTypes'
  <2>1. PICK junk \in Digit : coinbase' = Layout(j, junk)
    BY <1>3 DEF Notify, Digit
  <2>2. PICK x2 \in [1..xnonce2_size -> Digit] : coinbase' = Coinbase(j, xnonce1, x2)
    BY <2>1, LayoutIsCoinbase
  <2>3. coinbase' \in Seq(Digit)
    BY <2>2, CoinbaseIsBytes DEF JobTypes
  <2>4. x2at' \in Nat
    BY <1>3, JobAssumption, LenProperties DEF Notify, PlaceOf, JobTypes
  <2>5. Branches[j] \in Nat /\ BufFor(Branches[j]) \in Nat /\ BranchesOf(j) \in Merkles
    BY JobAssumption DEF BufFor, Merkles, JobTypes
  <2> QED
    BY <1>3, <2>3, <2>4, <2>5 DEF Notify, JobTypes
<1>4. ASSUME NEW j \in JobIds, NotifyTorn(j) PROVE JobTypes'
  <2>1. BufFor(Branches[j]) \in Nat /\ << >> \in Merkles
    BY JobAssumption DEF BufFor, Merkles, JobTypes
  <2> QED
    BY <1>4, <2>1 DEF NotifyTorn, JobTypes
<1>5. CASE NotifyRefused \/ SetupDone
  BY <1>5 DEF NotifyRefused, SetupDone, JobTypes
<1>6. CASE GenWork
  <2>1. Next2(Xnonce2) \in [1..xnonce2_size -> Digit]
    BY ReadExtranonce, StepKeepsSize DEF JobTypes
  <2>2. coinbase' = Replaced(coinbase, x2at, xnonce2_size, Next2(Xnonce2))
    BY <1>6 DEF GenWork, Replaced
  <2>3. coinbase' \in Seq(Digit)
    BY <2>1, <2>2, ReplacedIsBytes DEF JobTypes
  <2> QED
    BY <1>6, <2>3 DEF GenWork, JobTypes
<1>7. CASE Hangup
  BY <1>7, EmptySeq DEF Hangup, JobTypes
<1>8. CASE UNCHANGED jvars
  BY <1>8 DEF jvars, JobTypes
<1> QED
  BY <1>1, <1>2, <1>3, <1>4, <1>5, <1>6, <1>7, <1>8 DEF JNext

(* The types hold throughout. *)
LEMMA JobTypesHold == JobSpec => []JobTypes
BY TypesInit, TypesStep, PTL DEF JobSpec

(* No work carries a difficulty of an earlier session: stratum_disconnect  *)
(* clears the difficulty together with the job.                            *)
THEOREM SessionDiff == JobSpec => []DiffOfSession
<1>1. JInit => DiffInv
  BY DEF JInit, DiffInv, DiffOfSession
<1>2. JobTypes /\ DiffInv /\ [JNext]_jvars => DiffInv'
  <2> SUFFICES ASSUME JobTypes, DiffInv, [JNext]_jvars PROVE DiffInv'
    OBVIOUS
  <2>1. ASSUME NEW x1 \in Extranonces, NEW size \in X2Sizes, ParseExtranonce(x1, size)
        PROVE  DiffInv'
    BY <2>1 DEF ParseExtranonce, DiffInv, DiffOfSession
  <2>2. ASSUME NEW d \in Diffs, SetDifficulty(d) PROVE DiffInv'
    BY <2>2, JobAssumption DEF SetDifficulty, DiffInv, DiffOfSession
  <2>3. ASSUME NEW j \in JobIds, Notify(j) PROVE DiffInv'
    BY <2>3 DEF Notify, DiffInv, DiffOfSession
  <2>4. ASSUME NEW j \in JobIds, NotifyTorn(j) PROVE DiffInv'
    <3>1. job'.id = job.id /\ job'.diff = job.diff
      BY <2>4 DEF NotifyTorn, JobTypes
    <3> QED
      BY <2>4, <3>1 DEF NotifyTorn, DiffInv, DiffOfSession
  <2>5. CASE NotifyRefused
    BY <2>5 DEF NotifyRefused, DiffInv, DiffOfSession
  <2>6. CASE GenWork
    BY <2>6 DEF GenWork, DiffInv, DiffOfSession
  <2>7. CASE SetupDone
    BY <2>7 DEF SetupDone, DiffInv, DiffOfSession
  <2>8. CASE Hangup
    <3>1. job'.id = NoId
      BY <2>8 DEF Hangup, JobTypes
    <3> QED
      BY <2>8, <3>1 DEF Hangup, DiffInv, DiffOfSession
  <2>9. CASE UNCHANGED jvars
    BY <2>9 DEF jvars, DiffInv, DiffOfSession
  <2> QED
    BY <2>1, <2>2, <2>3, <2>4, <2>5, <2>6, <2>7, <2>8, <2>9 DEF JNext
<1>3. DiffInv => DiffOfSession
  BY DEF DiffInv
<1> QED
  BY <1>1, <1>2, <1>3, JobTypesHold, PTL DEF JobSpec

(* From the job id and the extranonce2 of a share the pool builds exactly  *)
(* the coinbase and the branches that were hashed, through repeated and    *)
(* refused notifications and changes of extranonce1.                       *)
THEOREM SharesRebuild == JobSpec => []ShareRebuilds
<1> DEFINE Laid == (job.id # NoId /\ ~suspect => LaidOut) /\ ShareRebuilds
<1>1. JInit => Laid
  BY DEF JInit, ShareRebuilds
<1>2. JobTypes /\ Laid /\ [JNext]_jvars => Laid'
  <2> SUFFICES ASSUME JobTypes, Laid, [JNext]_jvars PROVE Laid'
    OBVIOUS
  <2>1. ASSUME UNCHANGED <<job, coinbase, x2at, given, g, xnonce2_size, suspect>> PROVE Laid'
    BY <2>1 DEF LaidOut, ShareRebuilds
  <2>2. ASSUME NEW x1 \in Extranonces, NEW size \in X2Sizes, ParseExtranonce(x1, size)
        PROVE  Laid'
    <3>1. UNCHANGED <<job, coinbase, x2at, given, g>> /\ xnonce2_size' = size
      BY <2>2 DEF ParseExtranonce
    <3>2. suspect' <=> suspect \/ (job.id # NoId /\ size # xnonce2_size)
      BY <2>2 DEF ParseExtranonce
    <3>3. ASSUME job'.id # NoId, ~suspect' PROVE LaidOut'
      <4>1. LaidOut /\ xnonce2_size' = xnonce2_size
        BY <3>1, <3>2, <3>3
      <4> QED
        BY <3>1, <4>1 DEF LaidOut
    <3> QED
      BY <3>1, <3>3 DEF ShareRebuilds
  <2>3. ASSUME NEW d \in Diffs, SetDifficulty(d) PROVE Laid'
    BY <2>1, <2>3 DEF SetDifficulty
  <2>4. ASSUME NEW j \in JobIds, Notify(j) PROVE Laid'
    <3>1. PICK junk \in Digit : coinbase' = Layout(j, junk)
      BY <2>4 DEF Notify, Digit
    <3>2. PICK x2 \in [1..xnonce2_size -> Digit] : coinbase' = Coinbase(j, xnonce1, x2)
      BY <3>1, LayoutIsCoinbase
    <3>3. /\ job'.id = j /\ job'.merkle = BranchesOf(j) /\ given' = xnonce1
          /\ xnonce2_size' = xnonce2_size /\ g' = g /\ x2at' = Len(Coinb1[j]) + Len(xnonce1)
      BY <2>4 DEF Notify, PlaceOf
    <3>4. LaidOut'
      BY <3>2, <3>3 DEF LaidOut
    <3> QED
      BY <3>3, <3>4 DEF ShareRebuilds
  <2>5. ASSUME NEW j \in JobIds, NotifyTorn(j) PROVE Laid'
    BY <2>5 DEF NotifyTorn, ShareRebuilds
  <2>6. CASE NotifyRefused \/ SetupDone
    BY <2>1, <2>6 DEF NotifyRefused, SetupDone
  <2>7. CASE GenWork
    <3>0. /\ UNCHANGED <<job, x2at, given, suspect, xnonce2_size>>
          /\ job.id \in JobIds /\ given \in Seq(Digit) /\ xnonce2_size \in Nat
          /\ g'.id = job.id /\ g'.x2 = Xnonce2 /\ g'.coinbase = coinbase
          /\ g'.merkle = job.merkle /\ g'.from = given
      BY <2>7 DEF GenWork, JobTypes
    <3>1. g'.suspect = suspect
      BY <2>7 DEF GenWork
    <3>2. CASE suspect
      BY <3>0, <3>1, <3>2 DEF ShareRebuilds
    <3>3. CASE ~suspect
      <4>0. LaidOut
        BY <3>0, <3>3, JobAssumption
      <4>1. PICK x2 \in [1..xnonce2_size -> Digit] : coinbase = Coinbase(job.id, given, x2)
        BY <4>0 DEF LaidOut
      <4> DEFINE y2 == Next2(Xnonce2)
      <4>2. y2 \in [1..xnonce2_size -> Digit]
        BY ReadExtranonce, StepKeepsSize DEF JobTypes
      <4>3. /\ coinbase' = Replaced(coinbase, x2at, xnonce2_size, y2)
            /\ Xnonce2 = ReadAt(coinbase, x2at, xnonce2_size)
        BY <2>7 DEF GenWork, Replaced, ReadAt, Xnonce2
      <4> HIDE DEF y2
      <4>4. x2at = Len(Coinb1[job.id]) + Len(given) /\ job.merkle = BranchesOf(job.id)
        BY <4>0 DEF LaidOut
      <4>5. coinbase' = Coinbase(job.id, given, y2) /\ Xnonce2 = x2
        <5>1. LET at == Len(Coinb1[job.id]) + Len(given)
              IN  /\ Replaced(Coinbase(job.id, given, x2), at, xnonce2_size, y2)
                        = Coinbase(job.id, given, y2)
                  /\ ReadAt(Coinbase(job.id, given, x2), at, xnonce2_size) = x2
          BY <3>0, <4>2, ExtranonceReplaced
        <5> QED
          BY <4>1, <4>3, <4>4, <5>1
      <4>6. LaidOut'
        BY <3>0, <4>2, <4>4, <4>5 DEF LaidOut
      <4>7. ShareRebuilds'
        BY <3>0, <4>1, <4>4, <4>5 DEF ShareRebuilds, Coinbase, BranchesOf
      <4> QED
        BY <4>6, <4>7
    <3> QED
      BY <3>2, <3>3
  <2>8. CASE Hangup
    <3>1. job'.id = NoId /\ g' = g
      BY <2>8 DEF Hangup, JobTypes
    <3> QED
      BY <3>1 DEF ShareRebuilds
  <2>9. CASE UNCHANGED jvars
    BY <2>1, <2>9 DEF jvars
  <2> QED
    BY <2>2, <2>3, <2>4, <2>5, <2>6, <2>7, <2>8, <2>9 DEF JNext
<1>3. Laid => ShareRebuilds
  OBVIOUS
<1> QED
  BY <1>1, <1>2, <1>3, JobTypesHold, PTL DEF JobSpec

-----------------------------------------------------------------------------
(* Of two little-endian numbers of n digits, y is the smaller one. *)
Below(y, x, n) == \E j \in 1..n : y[j] < x[j] /\ \A i \in (j + 1)..n : y[i] = x[i]

(* The order of the natural numbers as a relation; a number read from the *)
(* other end, and with each digit taken from the greatest.                 *)
LessRel == {ss \in Nat \X Nat : ss[1] < ss[2]}
Flip(x, n) == [i \in 1..n |-> x[n + 1 - i]]
Mirror(x, n) == [i \in 1..n |-> (Radix - 1) - x[i]]

(* That order has no infinite descent. *)
LEMMA LessWellFounded == IsWellFoundedOn(LessRel, Nat)
BY NatLessThanWellFounded DEF OpToRel, LessRel

(* Among numbers of n digits there is a least one. *)
LEMMA LeastNumber ==
  ASSUME NEW n \in Nat, NEW T, T \subseteq [1..n -> Nat], T # {}
  PROVE  \E x \in T : \A y \in T : ~Below(y, x, n)
<1> DEFINE Lex == LexProductOrdering(LessRel, Nat, n)
           Flipped == {Flip(x, n) : x \in T}
<1>1. IsWellFoundedOn(Lex, [1..n -> Nat])
  BY LessWellFounded, WFLexProductOrdering
<1>2. ASSUME NEW x \in [1..n -> Nat] PROVE Flip(x, n) \in [1..n -> Nat]
  BY DEF Flip
<1>3. Flipped \subseteq [1..n -> Nat] /\ Flipped # {}
  BY <1>2
<1>4. PICK f \in Flipped : \A h \in Flipped : <<h, f>> \notin Lex
  <2> HIDE DEF Lex, Flipped
  <2> QED
    BY <1>1, <1>3, WFMin
<1>5. PICK x \in T : f = Flip(x, n)
  OBVIOUS
<1>6. ASSUME NEW y \in T, Below(y, x, n) PROVE FALSE
  <2>1. PICK j \in 1..n : y[j] < x[j] /\ \A i \in (j + 1)..n : y[i] = x[i]
    BY <1>6 DEF Below
  <2> DEFINE k == n + 1 - j
             h == Flip(y, n)
  <2>2. k \in 1..n /\ n + 1 - k = j /\ y \in [1..n -> Nat] /\ x \in [1..n -> Nat]
    OBVIOUS
  <2>3. f \in [1..n -> Nat] /\ h \in [1..n -> Nat]
    BY <1>2, <1>5, <2>2
  <2>4. \A i \in 1..n : f[i] = x[n + 1 - i] /\ h[i] = y[n + 1 - i]
    BY <1>5 DEF Flip
  <2>5. h[k] < f[k]
    BY <2>1, <2>2, <2>4
  <2>6. ASSUME NEW i \in 1..(k - 1) PROVE h[i] = f[i]
    <3>1. i \in 1..n /\ n + 1 - i \in (j + 1)..n
      BY <2>2
    <3> QED
      BY <2>1, <2>4, <3>1
  <2> HIDE DEF h, k
  <2>7. <<h[k], f[k]>> \in LessRel
    BY <2>2, <2>3, <2>5 DEF LessRel
  <2>8. <<h, f>> \in Lex
    BY <2>2, <2>3, <2>6, <2>7 DEF LexProductOrdering
  <2> QED
    BY <1>4, <2>8 DEF h
<1> QED
  BY <1>6

(* And a greatest one. *)
LEMMA GreatestNumber ==
  ASSUME NEW n \in Nat, NEW T, T \subseteq [1..n -> Digit], T # {}
  PROVE  \E x \in T : \A y \in T : ~Below(x, y, n)
<1> DEFINE Mirrored == {Mirror(x, n) : x \in T}
<1>1. ASSUME NEW x \in [1..n -> Digit] PROVE Mirror(x, n) \in [1..n -> Nat]
  BY JobAssumption DEF Mirror, Digit
<1>2. Mirrored \subseteq [1..n -> Nat] /\ Mirrored # {}
  BY <1>1
<1>3. PICK m \in Mirrored : \A y \in Mirrored : ~Below(y, m, n)
  <2> HIDE DEF Mirrored
  <2> QED
    BY <1>2, LeastNumber
<1>4. PICK x \in T : m = Mirror(x, n)
  OBVIOUS
<1>5. ASSUME NEW y \in T, Below(x, y, n) PROVE FALSE
  <2>1. PICK j \in 1..n : x[j] < y[j] /\ \A i \in (j + 1)..n : x[i] = y[i]
    BY <1>5 DEF Below
  <2>2. \A i \in 1..n : /\ m[i] = (Radix - 1) - x[i] /\ Mirror(y, n)[i] = (Radix - 1) - y[i]
                        /\ x[i] \in Nat /\ y[i] \in Nat
    BY <1>4 DEF Mirror, Digit
  <2>3. Mirror(y, n)[j] < m[j]
    BY <2>1, <2>2, JobAssumption
  <2>4. \A i \in (j + 1)..n : Mirror(y, n)[i] = m[i]
    <3>1. \A i \in (j + 1)..n : i \in 1..n
      OBVIOUS
    <3> QED
      BY <2>1, <2>2, <3>1
  <2>5. Below(Mirror(y, n), m, n)
    BY <2>3, <2>4 DEF Below
  <2> QED
    BY <1>3, <2>5
<1> QED
  BY <1>5

(* Digit k of x is the first that is not d. *)
FirstNot(x, d, k) == x[k] # d /\ \A i \in 1..(k - 1) : x[i] = d
Constantly(x, d, n) == \A k \in 1..n : x[k] = d

(* A number has a first digit that is not d, unless all are d. *)
LEMMA FirstOther ==
  ASSUME NEW n \in Nat, NEW x \in [1..n -> Digit], NEW d \in Nat, ~Constantly(x, d, n)
  PROVE  \E k \in 1..n : FirstNot(x, d, k)
<1> DEFINE Others == {k \in 1..n : x[k] # d}
<1>1. Others \subseteq Nat /\ Others # {}
  BY DEF Constantly
<1>2. PICK k \in Others : \A i \in Others : <<i, k>> \notin LessRel
  <2> HIDE DEF Others
  <2> QED
    BY <1>1, LessWellFounded, WFMin
<1>3. ASSUME NEW i \in 1..(k - 1) PROVE x[i] = d
  <2>1. i \in Nat /\ k \in Nat /\ i < k /\ i \in 1..n
    OBVIOUS
  <2>2. <<i, k>> \in LessRel
    BY <2>1 DEF LessRel
  <2> QED
    BY <1>2, <2>1, <2>2
<1> QED
  BY <1>3 DEF FirstNot

(* Stepping one digit, the greatest and any other. *)
LEMMA DigitStep ==
  /\ ((Radix - 1) + 1) % Radix = 0
  /\ \A d \in Digit : d # Radix - 1 => (d + 1) % Radix = d + 1
<1>1. Radix \in Nat /\ Radix > 1
  BY JobAssumption
<1>2. Radix % Radix = 0
  BY <1>1
<1>3. (Radix - 1) + 1 = Radix
  BY <1>1
<1>4. ASSUME NEW d \in Digit, d # Radix - 1 PROVE (d + 1) % Radix = d + 1
  BY <1>1, <1>4 DEF Digit
<1> QED
  BY <1>2, <1>3, <1>4

(* Stepping a number carries through its leading greatest digits. *)
LEMMA StepCarries ==
  ASSUME NEW n \in Nat, NEW x \in [1..n -> Digit], NEW k \in 1..n,
         FirstNot(x, Radix - 1, k)
  PROVE  Next2(x) = [i \in 1..n |-> IF i < k THEN 0 ELSE IF i = k THEN x[k] + 1 ELSE x[i]]
<1> DEFINE Carry(i) == \A m \in 1..(i - 1) : x[m] = Radix - 1
<1>1. DOMAIN x = 1..n /\ x[k] # Radix - 1 /\ \A i \in 1..(k - 1) : x[i] = Radix - 1
  BY DEF FirstNot
<1>2. ASSUME NEW i \in 1..n
      PROVE  (IF Carry(i) THEN (x[i] + 1) % Radix ELSE x[i])
               = (IF i < k THEN 0 ELSE IF i = k THEN x[k] + 1 ELSE x[i])
  <2>1. CASE i < k
    <3>1. Carry(i)
      BY <1>1, <2>1
    <3>2. x[i] = Radix - 1
      BY <1>1, <2>1
    <3> QED
      BY <2>1, <3>1, <3>2, DigitStep
  <2>2. CASE i = k
    <3>1. Carry(i)
      BY <1>1, <2>2
    <3>2. x[i] \in Digit
      OBVIOUS
    <3> QED
      BY <1>1, <2>2, <3>1, <3>2, DigitStep
  <2>3. CASE i > k
    <3>1. k \in 1..(i - 1)
      BY <2>3
    <3>2. ~Carry(i)
      BY <1>1, <3>1
    <3> QED
      BY <2>3, <3>2
  <2> QED
    BY <2>1, <2>2, <2>3
<1> QED
  BY <1>1, <1>2 DEF Next2

(* Stepping the greatest number gives zero. *)
LEMMA StepWraps ==
  ASSUME NEW n \in Nat, NEW x \in [1..n -> Digit], Constantly(x, Radix - 1, n)
  PROVE  Next2(x) = [i \in 1..n |-> 0]
<1>1. DOMAIN x = 1..n
  OBVIOUS
<1>2. \A i \in 1..n : /\ \A m \in 1..(i - 1) : x[m] = Radix - 1
                      /\ (x[i] + 1) % Radix = 0
  BY DigitStep DEF Constantly
<1> QED
  BY <1>1, <1>2 DEF Next2

(* Every number but the greatest is below the one it steps to. *)
LEMMA StepRises ==
  ASSUME NEW n \in Nat, NEW x \in [1..n -> Digit], ~Constantly(x, Radix - 1, n)
  PROVE  Below(x, Next2(x), n)
<1>1. PICK k \in 1..n : FirstNot(x, Radix - 1, k)
  <2>1. Radix - 1 \in Nat
    BY JobAssumption
  <2> QED
    BY <2>1, FirstOther
<1>2. Next2(x) = [i \in 1..n |-> IF i < k THEN 0 ELSE IF i = k THEN x[k] + 1 ELSE x[i]]
  BY <1>1, StepCarries
<1>3. x[k] \in Nat
  BY DEF Digit
<1>4. Next2(x)[k] = x[k] + 1 /\ \A i \in (k + 1)..n : Next2(x)[i] = x[i]
  BY <1>2
<1> QED
  BY <1>3, <1>4 DEF Below

(* Every number but zero is what a smaller one steps to. *)
LEMMA StepReaches ==
  ASSUME NEW n \in Nat, NEW z \in [1..n -> Digit], ~Constantly(z, 0, n)
  PROVE  \E p \in [1..n -> Digit] : Below(p, z, n) /\ Next2(p) = z
<1>0. PICK k \in 1..n : FirstNot(z, 0, k)
  BY FirstOther
<1>1. z[k] # 0 /\ \A i \in 1..(k - 1) : z[i] = 0
  BY <1>0 DEF FirstNot
<1> DEFINE p == [i \in 1..n |-> IF i < k THEN Radix - 1 ELSE IF i = k THEN z[k] - 1 ELSE z[i]]
<1>2. \A i \in 1..n : z[i] \in Nat /\ z[i] <= Radix - 1
  BY JobAssumption DEF Digit
<1>3. p \in [1..n -> Digit]
  BY <1>1, <1>2, JobAssumption DEF Digit
<1>4. /\ p[k] = z[k] - 1 /\ \A i \in 1..(k - 1) : p[i] = Radix - 1
      /\ \A i \in (k + 1)..n : p[i] = z[i]
  OBVIOUS
<1>5. Below(p, z, n)
  <2>1. p[k] < z[k]
    BY <1>2, <1>4
  <2> HIDE DEF p
  <2> QED
    BY <1>4, <2>1 DEF Below
<1>6. p[k] # Radix - 1 /\ p[k] + 1 = z[k] /\ FirstNot(p, Radix - 1, k)
  BY <1>2, <1>4, JobAssumption DEF FirstNot
<1> HIDE DEF p
<1>7. Next2(p) = [i \in 1..n |-> IF i < k THEN 0 ELSE IF i = k THEN p[k] + 1 ELSE p[i]]
  BY <1>3, <1>4, <1>6, StepCarries
<1>8. Next2(p) = z
  <2>1. ASSUME NEW i \in 1..n
        PROVE  z[i] = IF i < k THEN 0 ELSE IF i = k THEN p[k] + 1 ELSE p[i]
    BY <1>1, <1>4, <1>6
  <2> QED
    BY <1>7, <2>1
<1> QED
  BY <1>3, <1>5, <1>8

(* Stepping goes through all numbers: a set of numbers that holds with     *)
(* each one the number it steps to is empty or holds all of them.          *)
LEMMA StepGoesRound ==
  ASSUME NEW n \in Nat, NEW C, C \subseteq [1..n -> Digit], C # {},
         \A x \in C : Next2(x) \in C
  PROVE  C = [1..n -> Digit]
<1>1. PICK m \in C : \A y \in C : ~Below(m, y, n)
  BY GreatestNumber
<1>2. Constantly(m, Radix - 1, n)
  BY <1>1, StepRises
<1>3. [i \in 1..n |-> 0] \in C
  <2>1. Next2(m) = [i \in 1..n |-> 0]
    BY <1>2, StepWraps
  <2> QED
    BY <2>1
<1>4. ASSUME C # [1..n -> Digit] PROVE FALSE
  <2> DEFINE Missing == [1..n -> Digit] \ C
  <2>1. Missing # {}
    BY <1>4
  <2>2. Missing \subseteq [1..n -> Nat]
    <3>1. Digit \subseteq Nat
      BY DEF Digit
    <3> QED
      BY <3>1
  <2>3. PICK z \in Missing : \A y \in Missing : ~Below(y, z, n)
    <3> HIDE DEF Missing
    <3> QED
      BY <2>1, <2>2, LeastNumber
  <2>4. ~Constantly(z, 0, n)
    <3>1. ASSUME Constantly(z, 0, n) PROVE FALSE
      <4>1. z = [i \in 1..n |-> 0]
        BY <3>1 DEF Constantly
      <4> QED
        BY <1>3, <4>1
    <3> QED
      BY <3>1
  <2>5. PICK p \in [1..n -> Digit] : Below(p, z, n) /\ Next2(p) = z
    BY <2>4, StepReaches
  <2>6. p \in C
    BY <2>3, <2>5
  <2> QED
    BY <2>5, <2>6
<1> QED
  BY <1>4

(* What is published for a job is stepped through: the extranonce2 behind  *)
(* each one used is used too or is the one to use next, and all its bytes  *)
(* lie within the coinbase, whatever size the pool sets.                   *)
CarryInv == /\ used \subseteq [1..xnonce2_size -> Digit]
            /\ \A x \in used : Next2(x) \in used \cup {Xnonce2}
            /\ xnonce1 # << >> => xnonce2_size \in X2Sizes
            /\ job.id = NoId => used = {}
            /\ job.id # NoId => /\ xnonce2_size \in X2Sizes
                               /\ \A s \in X2Sizes : x2at + s <= Len(coinbase)

(* As many bytes as the sizes of extranonce2 may differ by follow it. *)
LongTails == \A j \in JobIds : \A s, t \in X2Sizes : t <= s + Len(Coinb2[j])

(* Stepping extranonce2 in the coinbase, and reading it there. *)
LEMMA ReadReplaced ==
  ASSUME NEW s \in Seq(Digit), NEW at \in Nat, NEW n \in Nat, NEW y \in [1..n -> Digit],
         at + n <= Len(s)
  PROVE  Len(Replaced(s, at, n, y)) = Len(s) /\ ReadAt(Replaced(s, at, n, y), at, n) = y
<1>1. Len(s) \in Nat /\ DOMAIN s = 1..Len(s)
  BY LenProperties
<1> DEFINE r == Replaced(s, at, n, y)
<1>2. r \in Seq(Digit)
  BY ReplacedIsBytes
<1>3. DOMAIN r = 1..Len(s)
  BY <1>1 DEF Replaced
<1>4. Len(r) = Len(s)
  BY <1>1, <1>2, <1>3, LenProperties
<1>5. ASSUME NEW i \in 1..n PROVE at + i <= Len(r) /\ r[at + i] = y[i]
  <2>1. at + i \in 1..Len(s) /\ at + i \in (at + 1)..(at + n) /\ (at + i) - at = i
    BY <1>1
  <2> QED
    BY <1>1, <1>4, <2>1 DEF Replaced
<1> HIDE DEF r
<1>6. ReadAt(r, at, n) = y
  BY <1>5 DEF ReadAt
<1> QED
  BY <1>4, <1>6 DEF r

(* A notification leaves room for every size, and leaves extranonce2 as it *)
(* was where the same job is laid out at the same place.                   *)
LEMMA NotifyKeeps ==
  ASSUME LongTails, JobTypes, NEW j \in JobIds, Notify(j), xnonce2_size \in X2Sizes
  PROVE  /\ \A s \in X2Sizes : x2at' + s <= Len(coinbase')
         /\ job.id = j /\ x2at = PlaceOf(j) /\ x2at + xnonce2_size <= Len(coinbase)
               => Xnonce2' = Xnonce2
<1>1. PICK junk \in Digit : coinbase' = Layout(j, junk)
  BY DEF Notify, Digit
<1> DEFINE at == Len(Coinb1[j]) + Len(xnonce1)
           x2 == [i \in 1..xnonce2_size |->
                    IF job.id # j THEN 0
                    ELSE IF at + i <= Len(coinbase) THEN coinbase[at + i] ELSE junk]
<1>2. /\ at \in Nat /\ Len(coinbase) \in Nat /\ xnonce2_size \in Nat /\ 0 \in Digit
      /\ xnonce1 \in Seq(Digit) /\ Coinb2[j] \in Seq(Digit) /\ Len(Coinb2[j]) \in Nat
  BY JobAssumption, LenProperties DEF Digit, JobTypes
<1>3. x2 \in [1..xnonce2_size -> Digit]
  <2>1. ASSUME NEW i \in 1..xnonce2_size, at + i <= Len(coinbase)
        PROVE  coinbase[at + i] \in Digit
    <3>1. at + i \in 1..Len(coinbase) /\ coinbase \in Seq(Digit)
      BY <1>2, <2>1 DEF JobTypes
    <3> QED
      BY <3>1, ElementOfSeq
  <2> QED
    BY <1>2, <2>1
<1>4. coinbase' = Coinbase(j, xnonce1, x2)
  BY <1>1 DEF Layout, Coinbase
<1>5. x2at' = at /\ xnonce2_size' = xnonce2_size /\ PlaceOf(j) = at
  BY DEF Notify, PlaceOf
<1>6. /\ Spliced(coinbase', Coinb1[j] \o xnonce1, x2, Coinb2[j], xnonce2_size)
      /\ Len(Coinb1[j] \o xnonce1) = at
  <2> HIDE DEF x2
  <2> QED
    BY <1>2, <1>3, <1>4, CoinbaseParts
<1>7. Len(coinbase') = at + xnonce2_size + Len(Coinb2[j])
  BY <1>6 DEF Spliced
<1>8. \A s \in X2Sizes : at + s <= Len(coinbase')
  <2> SUFFICES ASSUME NEW s \in X2Sizes PROVE at + s <= Len(coinbase')
    OBVIOUS
  <2>1. s <= xnonce2_size + Len(Coinb2[j]) /\ s \in Nat
    BY JobAssumption DEF LongTails
  <2>2. ASSUME NEW a \in Nat, NEW b \in Nat, NEW c \in Nat, NEW d \in Nat, d <= b + c
        PROVE  a + d <= a + b + c
    BY <2>2
  <2>3. at + s <= at + xnonce2_size + Len(Coinb2[j])
    <3> HIDE DEF at
    <3> QED
      BY <1>2, <2>1, <2>2
  <2> QED
    BY <1>7, <2>3
<1>9. Xnonce2' = x2
  <2>1. ReadAt(coinbase', at, xnonce2_size) = x2
    <3> HIDE DEF x2
    <3> QED
      BY <1>2, <1>3, <1>6, MiddleReplaced
  <2>2. Xnonce2' = ReadAt(coinbase', x2at', xnonce2_size')
    BY DEF Xnonce2, ReadAt
  <2> QED
    BY <1>5, <2>1, <2>2
<1>10. ASSUME job.id = j, x2at = PlaceOf(j), x2at + xnonce2_size <= Len(coinbase)
       PROVE  x2 = Xnonce2
  <2>1. x2at = at
    BY <1>5, <1>10
  <2>2. \A i \in 1..xnonce2_size : at + i <= Len(coinbase)
    BY <1>2, <1>10, <2>1
  <2> QED
    BY <1>10, <2>1, <2>2 DEF Xnonce2
<1> QED
  BY <1>5, <1>8, <1>9, <1>10

(* Publishing a job steps its extranonce2. *)
LEMMA GenWorkSteps ==
  ASSUME JobTypes, GenWork, x2at + xnonce2_size <= Len(coinbase)
  PROVE  Xnonce2' = Next2(Xnonce2) /\ Len(coinbase') = Len(coinbase)
<1>1. Next2(Xnonce2) \in [1..xnonce2_size -> Digit]
  BY ReadExtranonce, StepKeepsSize DEF JobTypes
<1>2. coinbase' = Replaced(coinbase, x2at, xnonce2_size, Next2(Xnonce2))
  BY DEF GenWork, Replaced
<1>3. Xnonce2' = ReadAt(coinbase', x2at, xnonce2_size)
  BY DEF GenWork, Xnonce2, ReadAt
<1> QED
  BY <1>1, <1>2, <1>3, ReadReplaced DEF JobTypes

(* Every message and every publication keeps CarryInv. *)
LEMMA CarryStep ==
  ASSUME LongTails, JobTypes, CarryInv, [JNext]_jvars
  PROVE  CarryInv'
<1>1. ASSUME UNCHANGED <<xnonce1, xnonce2_size, job, coinbase, x2at, used>> PROVE CarryInv'
  <2>1. Xnonce2' = Xnonce2
    BY <1>1 DEF Xnonce2
  <2> QED
    BY <1>1, <2>1 DEF CarryInv
<1>2. ASSUME NEW x1 \in Extranonces, NEW size \in X2Sizes, ParseExtranonce(x1, size)
      PROVE  CarryInv'
  <2>1. UNCHANGED <<job, coinbase, x2at>> /\ xnonce2_size' = size /\ xnonce1' = x1
    BY <1>2 DEF ParseExtranonce
  <2>2. CASE size = xnonce2_size
    <3>1. used' = used /\ Xnonce2' = Xnonce2
      BY <1>2, <2>1, <2>2 DEF ParseExtranonce, Xnonce2
    <3> QED
      BY <2>1, <2>2, <3>1 DEF CarryInv
  <2>3. CASE size # xnonce2_size
    <3>1. used' = {}
      BY <1>2, <2>3 DEF ParseExtranonce
    <3> QED
      BY <2>1, <3>1 DEF CarryInv
  <2> QED
    BY <2>2, <2>3
<1>3. ASSUME NEW j \in JobIds, Notify(j) PROVE CarryInv'
  <2>1. /\ xnonce2_size \in X2Sizes /\ job'.id = j /\ j # NoId
        /\ UNCHANGED <<xnonce1, xnonce2_size>>
    BY <1>3, JobAssumption DEF Notify, Reads, CarryInv
  <2>2. \A s \in X2Sizes : x2at' + s <= Len(coinbase')
    BY <1>3, <2>1, NotifyKeeps
  <2>3. CASE job.id = j /\ x2at = PlaceOf(j)
    <3>1. used' = used /\ x2at + xnonce2_size <= Len(coinbase)
      BY <1>3, <2>1, <2>3 DEF Notify, CarryInv
    <3>2. Xnonce2' = Xnonce2
      BY <1>3, <2>1, <2>3, <3>1, NotifyKeeps
    <3> QED
      BY <2>1, <2>2, <3>1, <3>2 DEF CarryInv
  <2>4. CASE ~(job.id = j /\ x2at = PlaceOf(j))
    <3>1. used' = {}
      BY <1>3, <2>4 DEF Notify
    <3> QED
      BY <2>1, <2>2, <3>1 DEF CarryInv
  <2> QED
    BY <2>3, <2>4
<1>4. ASSUME NEW j \in JobIds, NotifyTorn(j) PROVE CarryInv'
  <2>1. job'.id = job.id /\ UNCHANGED <<xnonce1, xnonce2_size, coinbase, x2at, used>>
    BY <1>4 DEF NotifyTorn, JobTypes
  <2>2. Xnonce2' = Xnonce2
    BY <2>1 DEF Xnonce2
  <2> QED
    BY <2>1, <2>2 DEF CarryInv
<1>5. CASE GenWork
  <2>1. /\ job.id # NoId /\ UNCHANGED <<xnonce1, xnonce2_size, job, x2at>>
        /\ used' = used \cup {Xnonce2}
    BY <1>5 DEF GenWork
  <2>2. xnonce2_size \in X2Sizes /\ x2at + xnonce2_size <= Len(coinbase)
    BY <2>1 DEF CarryInv
  <2>3. Xnonce2' = Next2(Xnonce2) /\ Len(coinbase') = Len(coinbase)
    BY <1>5, <2>2, GenWorkSteps
  <2>4. Xnonce2 \in [1..xnonce2_size -> Digit]
    BY ReadExtranonce
  <2>5. used' \subseteq [1..xnonce2_size' -> Digit]
    BY <2>1, <2>4 DEF CarryInv
  <2>6. ASSUME NEW x \in used' PROVE Next2(x) \in used' \cup {Xnonce2'}
    BY <2>1, <2>3 DEF CarryInv
  <2> QED
    BY <2>1, <2>3, <2>5, <2>6 DEF CarryInv
<1>6. CASE Hangup
  <2>1. job'.id = NoId /\ used' = {} /\ xnonce1' = << >>
    BY <1>6 DEF Hangup, JobTypes
  <2> QED
    BY <2>1 DEF CarryInv
<1>7. CASE NotifyRefused \/ SetupDone \/ UNCHANGED jvars
  BY <1>1, <1>7 DEF NotifyRefused, SetupDone, jvars
<1>8. ASSUME NEW d \in Diffs, SetDifficulty(d) PROVE CarryInv'
  BY <1>1, <1>8 DEF SetDifficulty
<1> QED
  BY <1>2, <1>3, <1>4, <1>5, <1>6, <1>7, <1>8 DEF JNext

(* A job published again gets an extranonce2 it has not had until it has   *)
(* had them all, through repeated, refused and torn notifications, for     *)
(* every size of extranonce2.  The coinbase must not end so soon behind    *)
(* extranonce2 that a size set later reaches past it: sizes are 2 to 16,   *)
(* and the end of a coinbase transaction has 18 bytes and more.            *)
THEOREM ExtranonceNotRepeated ==
  ASSUME LongTails
  PROVE  JobSpec => ExtranonceAdvances
<1>1. JInit => CarryInv
  BY JobAssumption DEF JInit, CarryInv
<1>2. JobTypes /\ CarryInv /\ [JNext]_jvars => CarryInv'
  BY CarryStep
<1>3. JobTypes /\ CarryInv /\ [JNext]_jvars
        => [new_job /\ ~new_job' /\ xnonce1' # << >> /\ used' = used
              => used = [1..xnonce2_size -> 0..(Radix - 1)]]_jvars
  <2> SUFFICES ASSUME JobTypes, CarryInv, JNext, new_job, ~new_job', xnonce1' # << >>, used' = used
               PROVE  used = [1..xnonce2_size -> Digit]
    BY DEF Digit
  <2>1. GenWork
    BY DEF JNext, ParseExtranonce, SetDifficulty, Notify, NotifyTorn, NotifyRefused, SetupDone,
           Hangup
  <2>2. Xnonce2 \in used
    BY <2>1 DEF GenWork
  <2>3. /\ used \subseteq [1..xnonce2_size -> Digit]
        /\ \A x \in used : Next2(x) \in used
    BY <2>2 DEF CarryInv
  <2> QED
    BY <2>2, <2>3, StepGoesRound DEF JobTypes
<1> QED
  BY <1>1, <1>2, <1>3, JobTypesHold, PTL DEF JobSpec, ExtranonceAdvances
=============================================================================
