---------------------------- MODULE YespowerCell ----------------------------
(***************************************************************************)
(* The 64-byte cells of yespower (yespower-opt.c): their SIMD order, the   *)
(* Salsa20 core in its SIMD and its portable form, and the pwxform step    *)
(* with the table writes of version 1.0.  A cell keeps its sixteen words,  *)
(* four columns of two 64-bit halves; only the width of a word is small    *)
(* (Bits instead of 32), and with it the size of the S tables.             *)
(***************************************************************************)
EXTENDS Integers, Sequences, SequencesExt

CONSTANT Bits          \* width of a word; 2^Bits entries per S table

W == 2 ^ Bits
XorOf[a \in 0..(W - 1), b \in 0..(W - 1)] ==
    IF a + b = 0 THEN 0 ELSE 2 * XorOf[a \div 2, b \div 2] + ((a + b) % 2)
Xor(a, b) == [k \in DOMAIN a |-> XorOf[a[k], b[k]]]
Col(c, q) == SubSeq(c, 4 * q - 3, 4 * q)

\* The order the SIMD code keeps a cell in, and back (COMBINE, UNCOMBINE)
Combine == << <<0, 2>>, <<5, 7>>, <<2, 4>>, <<7, 1>>,
              <<4, 6>>, <<1, 3>>, <<6, 0>>, <<3, 5>> >>
UnCombine == << <<0, 6>>, <<5, 3>>, <<2, 0>>, <<7, 5>>,
                <<4, 2>>, <<1, 7>>, <<6, 4>>, <<3, 1>> >>
Reorder(c, table) ==
    [k \in 1..16 |-> LET p == table[(k + 1) \div 2]
                     IN  IF k % 2 = 1 THEN c[2 * p[1] + 1] ELSE c[2 * p[2] + 2]]
Simd(c) == Reorder(c, Combine)
UnSimd_Shifted(c) == Reorder(c, Combine)
UnSimd(c) == Reorder(c, UnCombine)

---------------------------------------------------------------------------
\* Salsa20: add, rotate, xor.  SIMD works on four columns at a time and turns
\* them between the two halves of a double round.
Rol(x, s) == LET t == s % Bits
             IN  ((x * (2 ^ t)) % W) + (x \div (2 ^ (Bits - t)))
Arx(out, a, b, s) == [k \in DOMAIN out |-> XorOf[out[k], Rol((a[k] + b[k]) % W, s)]]
Turn(x, by) == [k \in DOMAIN x |-> x[4 * ((k - 1) \div 4) + ((k - 1 + by) % 4) + 1]]

\* <<row changed, rows added, rotation>>
ColumnSteps == << <<2, 1, 4, 7>>, <<3, 2, 1, 9>>, <<4, 3, 2, 13>>, <<1, 4, 3, 18>> >>
RowSteps == << <<4, 1, 2, 7>>, <<3, 4, 1, 9>>, <<2, 3, 4, 13>>, <<1, 2, 3, 18>> >>
ArxStep(x, q) == [x EXCEPT ![q[1]] = Arx(@, x[q[2]], x[q[3]], q[4])]
TurnAll(x, by) == [q \in 1..4 |-> Turn(x[q], by[q])]
DoubleRound(x) ==
    TurnAll(FoldLeft(ArxStep, TurnAll(FoldLeft(ArxStep, x, ColumnSteps), <<0, 3, 2, 1>>), RowSteps),
            <<0, 1, 2, 3>>)

Plus(a, b) == [k \in DOMAIN a |-> (a[k] + b[k]) % W]
Salsa20_2(c) ==
    Plus(c, FlattenSeq(DoubleRound(<<Col(c, 1), Col(c, 2), Col(c, 3), Col(c, 4)>>)))

\* Two lanes in the halves of the same registers
civic_salsa2_2way(a, b) ==
    LET pack(q) == Col(a, q) \o Col(b, q)
        x == DoubleRound(<<pack(1), pack(2), pack(3), pack(4)>>)
        half(at) == FlattenSeq([q \in 1..4 |-> SubSeq(x[q], at, at + 3)])
    IN  << Plus(a, half(1)), Plus(b, half(5)) >>

\* The portable core: eight quarter rounds on the words in their own order
Quarters == << <<1, 5, 9, 13>>, <<6, 10, 14, 2>>, <<11, 15, 3, 7>>, <<16, 4, 8, 12>>,
               <<1, 2, 3, 4>>, <<6, 7, 8, 5>>, <<11, 12, 9, 10>>, <<16, 13, 14, 15>> >>
QuarterStep(x, q) == [x EXCEPT ![q[1]] = XorOf[@, Rol((x[q[2]] + x[q[3]]) % W, q[4])]]
Quarter(x, q) ==
    FoldLeft(QuarterStep, x, << <<q[2], q[1], q[4], 7>>, <<q[3], q[2], q[1], 9>>,
                                <<q[4], q[3], q[2], 13>>, <<q[1], q[4], q[3], 18>> >>)
salsa20(c) == Plus(c, Simd(FoldLeft(Quarter, UnSimd(c), Quarters)))

---------------------------------------------------------------------------
\* pwxform: a lane is [x: cell, S: three tables, w: where the next write goes]
SIndex == 0..(W - 1)
Add64(a, b) == LET s == (a[1] + W * a[2] + b[1] + W * b[2]) % (W * W)
               IN  << s % W, s \div W >>
Mul64(a) == << (a[1] * a[2]) % W, (a[1] * a[2]) \div W >>

\* One column: both halves multiply their words; the first half's words are
\* the indices into the tables
Pwx(c, add, xor) ==
    Xor(Add64(Mul64(<<c[1], c[2]>>), <<add[1], add[2]>>)
            \o Add64(Mul64(<<c[3], c[4]>>), <<add[3], add[4]>>), xor)

SetCol(st, q, v) ==
    [st EXCEPT !.x = [k \in 1..16 |-> IF (k + 3) \div 4 = q THEN v[((k - 1) % 4) + 1]
                                      ELSE @[k]]]
PWXFORM_SIMD(st, q) ==
    LET c == Col(st.x, q)
    IN  SetCol(st, q, Pwx(c, st.S[1][c[1]], st.S[2][c[2]]))

\* ... and the result written into table t
Put(st, q, t) == [st EXCEPT !.S[t][st.w] = Col(st.x, q)]
PWXFORM_SIMD_WRITE(st, q, t) == Put(PWXFORM_SIMD(st, q), q, t)
Bump(st) == [st EXCEPT !.w = @ + 1]

PWXFORM_ROUND_WRITE4(st) ==
    LET half == Bump(PWXFORM_SIMD_WRITE(PWXFORM_SIMD_WRITE(st, 1, 1), 2, 2))
    IN  Bump(PWXFORM_SIMD_WRITE(PWXFORM_SIMD_WRITE(half, 3, 1), 4, 2))
PWXFORM_ROUND_WRITE2(st) ==
    PWXFORM_SIMD(PWXFORM_SIMD(
        Bump(PWXFORM_SIMD_WRITE(PWXFORM_SIMD_WRITE(st, 1, 1), 2, 2)), 3), 4)
\* w &= Smask2, and S2 <- S1 <- S0 <- S2
Rotate(st) == [st EXCEPT !.w = @ % W, !.S = <<@[3], @[1], @[2]>>]

PWXFORM(st) == Rotate(PWXFORM_ROUND_WRITE2(PWXFORM_ROUND_WRITE2(PWXFORM_ROUND_WRITE4(st))))
=============================================================================
