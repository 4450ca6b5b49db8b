--------------------------- MODULE YespowerLanes ----------------------------
(***************************************************************************)
(* The drivers of yespower 1.0 (yespower-opt.c) in the builds the code     *)
(* offers: two lanes with pipelined kernels (the default), two lanes with  *)
(* register kernels, one lane whose S tables are filled by the two-lane    *)
(* routine on one buffer, and the four-lane and benchmark walks.  Next to  *)
(* every build the reference driver (smix of pass 2) hashes the same input *)
(* in memory of its own.  A thread hashes several times in one region that *)
(* is never cleared.  SHA-256, PBKDF2 and HMAC before and after the mixing *)
(* are external: an input is the pair of cells they leave in B.            *)
(***************************************************************************)
EXTENDS YespowerMix

CONSTANTS R,             \* block size, in pairs of cells
          N,             \* rows of V, a power of two
          Builds,        \* the builds that hash
          Benches,       \* the walks started on a given V
          Seeds,         \* inputs
          MaxHashes      \* hashes of one thread in one region

VARIABLES build, stage, k, ref, hashes
yvars == << build, stage, k, ref, hashes >>

s == 2 * R
NS == (3 * W) \div 8        \* rows of the S fill: Sbytes / 128
LanesOf(b) == IF b = "1way" THEN {0} ELSE IF b = "4way" THEN 0..3 ELSE {0, 1}

Zero == [c \in 1..16 |-> 0]
CellOf(seed, i) == [c \in 1..16 |-> (seed * c * (c + i) + 5 * i + c) % W]
Region(L) == ({"V"} \X L \X (0..(N * s - 1))) \cup ({"XY"} \X L \X (0..s))
                \cup ({"B"} \X L \X (0..(s - 1))) \cup ({"S"} \X L \X (0..(2 * NS - 1)))
Tables(mem, l) ==
    [t \in 1..3 |-> [e \in SIndex |->
        LET c == W * (t - 1) + e IN Col(mem[<<"S", l, c \div 4>>], (c % 4) + 1)]]
Blank(L) == [mem |-> [p \in Region(L) |-> Zero], v |-> [l \in L |-> Zero], res |-> [l \in L |-> 0],
             st |-> [l \in L |-> [x |-> Zero, S |-> [t \in 1..3 |-> [e \in SIndex |-> <<0, 0, 0, 0>>]], w |-> 0]]]

\* Pointers of all lanes into one buffer, rows of it, and both lanes of the
\* S fill on the buffer of lane 0
Ptr(a, buf, off) == [l \in Lanes(a) |-> <<buf, l, off>>]
Shared(buf, off) == [l \in {0, 1} |-> <<buf, 0, off>>]
Row(p, row, size) == [l \in DOMAIN p |-> At(p[l], row[l] * size)]
Const(p, row, size) == Row(p, [l \in DOMAIN p |-> row], size)

\* tmp->w[k] = le32dec(..); salsa20_simd_shuffle(tmp, dst), and back
Convert(a, C(_), src, tmp, dst, count) ==
    FoldLeft(LAMBDA b, i : LET t == Store(b.mem, tmp, 0, Fetch(b, src, i), Lanes(b))
                           IN  [b EXCEPT !.mem = Store(t, dst, i, [l \in Lanes(b) |-> C(t[tmp[l]])], Lanes(b))],
             a, [c \in 1..count |-> c - 1])

---------------------------------------------------------------------------
\* smix1: the rows of V in pairs, and the row each mix reads
PowersBelow(n) == SelectSeq([e \in 1..n |-> 2 ^ e], LAMBDA p : p < n)
Pair(n, total) == LET m == IF n < total \div 2 THEN n ELSE total - 1 - n
                  IN  [c \in 1..(m \div 2) |-> << n, 2 * c - 1 >>]
Schedule(total) ==
    LET ps == PowersBelow(total) IN FlattenSeq([e \in DOMAIN ps |-> Pair(ps[e], total)])
Wrap(j, n, from) == [l \in DOMAIN j |-> (j[l] % n) + from]

smix1(a, V, XY, B, r, total, Mixes(_, _, _, _), MixesXor(_, _, _, _, _)) ==
    LET size == 2 * r
        row(i) == Const(V, i, size)
        first == FoldLeft(LAMBDA b, i : Mixes(b, Const(V, i - 1, 2), Const(V, i, 2), 1),
                          Convert(a, Simd, B, row(1), V, 2), [c \in 1..(r - 1) |-> c])
        head == Mixes(Mixes(first, V, row(1), r), row(1), row(2), r)
        two(b, p) == LET n == p[1]  i == p[2]  x == n + i - 1
                         c == MixesXor(b, row(x), Row(V, Wrap(b.res, n, i - 1), size), row(x + 1), r)
                     IN  MixesXor(c, row(x + 1), Row(V, Wrap(c.res, n, i), size), row(x + 2), r)
        rows == FoldLeft(two, head, Schedule(total))
        n == Last(PowersBelow(total))
        late == MixesXor(rows, row(total - 2), Row(V, Wrap(rows.res, n, total - 2 - n), size),
                         row(total - 1), r)
        end == MixesXor(late, row(total - 1), Row(V, Wrap(late.res, n, total - 1 - n), size), XY, r)
    IN  Convert(end, UnSimd, XY, Const(XY, 1, size), B, size)

\* smix2: the walk over V, Nloop steps, two at a time; given indices in the
\* sequential mode of the benchmarks
Nloop == LET up == (N + 2) \div 3 + 1 IN up - (up % 2)
Sequential(a, q) == [l \in Lanes(a) |-> (q * (l + 1) + l) % N]
walk(a, V, XY, B, sequential, Saves(_, _, _, _)) ==
    LET at(b, q) == IF sequential THEN Sequential(b, q) ELSE [l \in Lanes(b) |-> b.res[l] % N]
        load == Convert(a, Simd, B, Const(XY, 1, s), XY, s)
        start == [load EXCEPT !.res = [l \in Lanes(a) |-> load.mem[At(XY[l], s - 1)][1]]]
    IN  FoldLeft(LAMBDA b, q : Saves(b, XY, Row(V, at(b, q), s), R), start,
                 [c \in 1..Nloop |-> c - 1])
smix2(a, V, XY, B, Saves(_, _, _, _)) ==
    Convert(walk(a, V, XY, B, FALSE, Saves), UnSimd, XY, Const(XY, 1, s), B, s)

Smix1(a, Mixes(_, _, _, _), MixesXor(_, _, _, _, _)) ==
    smix1(a, Ptr(a, "V", 0), Ptr(a, "XY", 0), Ptr(a, "B", 0), R, N, Mixes, MixesXor)
Smix2(a, Saves(_, _, _, _)) == smix2(a, Ptr(a, "V", 0), Ptr(a, "XY", 0), Ptr(a, "B", 0), Saves)

\* The S fill, and the tables it leaves to the context
WithTables(a, L) == [a EXCEPT !.st = [l \in L |-> [a.st[l] EXCEPT !.S = Tables(a.mem, l)]]]
SalsaFill(a, S, XY, B, SMix(_, _, _), SXor(_, _, _, _)) ==
    smix1(a, S, XY, B, 1, NS, LAMBDA b, in, out, r : SMix(b, in, out),
          LAMBDA b, in1, in2, out, r : SXor(b, in1, in2, out))
smix1_salsa(a) ==
    WithTables(SalsaFill(a, Ptr(a, "S", 0), Ptr(a, "XY", 0), Ptr(a, "B", 0),
                         blockmix_salsa, blockmix_salsa_xor), Lanes(a))
civic_smix1_salsa_2way(a) ==
    WithTables(SalsaFill(a, Ptr(a, "S", 0), Ptr(a, "XY", 0), Ptr(a, "B", 0),
                         civic_blockmix_salsa_2way, civic_blockmix_salsa_xor_2way), Lanes(a))
\* called with B, S0 and XY of its only lane twice
SalsaFillShared(a) ==
    LET two == [a EXCEPT !.st = [l \in {0, 1} |-> a.st[0]], !.v = [l \in {0, 1} |-> a.v[0]]]
        end == SalsaFill(two, Shared("S", 0), Shared("XY", 0), Shared("B", 0),
                         civic_blockmix_salsa_2way, civic_blockmix_salsa_xor_2way)
    IN  WithTables([end EXCEPT !.st = a.st, !.v = a.v, !.res = a.res], {0})

---------------------------------------------------------------------------
\* The drivers of the builds
civic_smix1_1_0_2way(a) ==
    IF build = "regstate" THEN Smix1(a, civic_blockmix_2way, civic_blockmix_xor_2way_reg)
    ELSE Smix1(a, civic_blockmix_2way, civic_blockmix_xor_2way_pipe)
civic_smix2_1_0_2way(a) ==
    IF build = "regstate" THEN Smix2(a, civic_blockmix_xor_save_2way_reg)
    ELSE Smix2(a, civic_blockmix_xor_save_2way_pipe)
civic_smix1_1_0_1way(a) == Smix1(a, civic_blockmix_1way, civic_blockmix_xor_1way_pipe)
civic_smix2_1_0_1way(a) == Smix2(a, civic_blockmix_xor_save_1way_pipe)
civic_smix2_1_0_4way(a) == Smix2(a, civic_blockmix_xor_save_4way)
\* the functions as blockmix and its forms give them, one lane at a time
ReferenceRows(a) == Smix1(a, blockmix, blockmix_xor)
ReferenceWalk(a) == Smix2(a, blockmix_xor_save)

Bench(a, sequential, Saves(_, _, _, _)) ==
    walk(a, Ptr(a, "V", 0), Ptr(a, "XY", 0), Ptr(a, "B", 0), sequential, Saves)
civic_yespower_smix2_bench(a, seq) == Bench(a, seq, civic_blockmix_xor_save_2way)
civic_yespower_smix2_bench_pipe(a, seq) == Bench(a, seq, civic_blockmix_xor_save_2way_pipe)
civic_yespower_smix2_bench_wide(a, seq) == Bench(a, seq, civic_blockmix_xor_save_2way_wide)
civic_yespower_smix2_bench_pipewide(a, seq) == Bench(a, seq, civic_blockmix_xor_save_2way_pipewide)

---------------------------------------------------------------------------
YInit == /\ build \in Builds \cup Benches
         /\ stage = "free"
         /\ k = Blank(LanesOf(build))
         /\ ref = Blank(LanesOf(build))
         /\ hashes = 0

\* civic_yespower2_fixed: the region is used again as it is, w is cleared and
\* PBKDF2 (external) writes the first two cells of B
Input(a, seed) ==
    [a EXCEPT !.mem = [p \in DOMAIN @ |-> IF p[1] = "B" /\ p[3] < 2 THEN CellOf(seed[p[2]], p[3]) ELSE @[p]],
              !.st = [l \in Lanes(a) |-> [@[l] EXCEPT !.w = 0]]]
Hash_KeepsW ==
    /\ stage = "free" /\ build \in Builds /\ hashes < MaxHashes
    /\ \E seed \in [LanesOf(build) -> Seeds] :
          /\ k' = LET a == Input(k, seed)
                  IN  [a EXCEPT !.st = [l \in Lanes(a) |-> [@[l] EXCEPT !.w = k.st[l].w]]]
          /\ ref' = Input(Blank(LanesOf(build)), seed)
    /\ stage' = "keyed" /\ hashes' = hashes + 1 /\ UNCHANGED build
Hash ==
    /\ stage = "free" /\ build \in Builds /\ hashes < MaxHashes
    /\ \E seed \in [LanesOf(build) -> Seeds] :
          /\ k' = Input(k, seed)
          /\ ref' = Input(Blank(LanesOf(build)), seed)
    /\ stage' = "keyed" /\ hashes' = hashes + 1 /\ UNCHANGED build

FillTables ==
    /\ stage = "keyed" /\ stage' = "tables"
    /\ k' = IF build = "1way" THEN SalsaFillShared(k) ELSE civic_smix1_salsa_2way(k)
    /\ ref' = smix1_salsa(ref)
    /\ UNCHANGED << build, hashes >>
FillRows ==
    /\ stage = "tables" /\ stage' = "rows"
    /\ k' = IF build = "1way" THEN civic_smix1_1_0_1way(k) ELSE civic_smix1_1_0_2way(k)
    /\ ref' = ReferenceRows(ref)
    /\ UNCHANGED << build, hashes >>
Walk ==
    /\ stage = "rows" /\ stage' = "free"
    /\ k' = IF build = "1way" THEN civic_smix2_1_0_1way(k) ELSE civic_smix2_1_0_2way(k)
    /\ ref' = ReferenceWalk(ref)
    /\ UNCHANGED << build, hashes >>

\* A walk over a V and S tables that are given
Given(a, seed) ==
    LET mem == [p \in DOMAIN a.mem |-> CellOf(seed[p[2]], p[3])]
    IN  WithTables([a EXCEPT !.mem = mem], Lanes(a))
BenchWalk ==
    /\ stage = "free" /\ build \in Benches /\ hashes = 0
    /\ \E seed \in [LanesOf(build) -> Seeds], seq \in BOOLEAN :
        LET a == Given(k, seed)
        IN  /\ k' = CASE build = "4way" -> civic_smix2_1_0_4way(a)
                      [] build = "save" -> civic_yespower_smix2_bench(a, seq)
                      [] build = "pipe" -> civic_yespower_smix2_bench_pipe(a, seq)
                      [] build = "wide" -> civic_yespower_smix2_bench_wide(a, seq)
                      [] OTHER -> civic_yespower_smix2_bench_pipewide(a, seq)
            /\ ref' = IF build = "4way" THEN ReferenceWalk(a)
                      ELSE Bench(a, seq, blockmix_xor_save)
    /\ hashes' = 1 /\ UNCHANGED << build, stage >>

YNext == Hash \/ FillTables \/ FillRows \/ Walk \/ BenchWalk
YespowerSpec == YInit /\ [][YNext]_yvars

---------------------------------------------------------------------------
\* Every build computes, in every lane, what the reference computes on clean
\* memory: rows, tables, result and write position, whatever an earlier hash
\* left in the region, and also when both lanes of the S fill share a buffer
LanesAgree ==
    (stage = "free" /\ hashes > 0) =>
        /\ k.mem = ref.mem
        /\ \A l \in Lanes(k) : k.st[l].S = ref.st[l].S /\ k.st[l].w = ref.st[l].w

\* The SIMD Salsa20 core, on the cells in its order, is the portable core, and
\* the order is undone exactly, in both directions: for every cell of every
\* region (B, V, XY and S) that a finished hash leaves behind
SimdIsPortable ==
    (stage = "free" /\ hashes > 0) =>
        \A p \in DOMAIN k.mem :
            LET c == k.mem[p]
            IN  /\ UnSimd(Simd(c)) = c /\ Simd(UnSimd(c)) = c
                /\ Salsa20_2(c) = salsa20(c)
=============================================================================
