---------------------------- MODULE YespowerMix -----------------------------
(***************************************************************************)
(* The blockmix kernels of yespower-opt.c on one memory of cells.  A       *)
(* kernel works on a record [mem, st, v, res]: the cells by address, the   *)
(* pwxform state of each lane, the cells of V a pipelined kernel holds in  *)
(* registers, and the integerify of each lane's result.  An address is     *)
(* <<buffer, lane, offset>>; a kernel takes a function from its lanes to   *)
(* addresses for each of its pointers, so that lanes may share memory.     *)
(***************************************************************************)
EXTENDS YespowerCell

At(p, i) == << p[1], p[2], p[3] + i >>
Lanes(k) == DOMAIN k.st

---------------------------------------------------------------------------
\* The unrolled pwxforms: <<column, table>>, table 0 where nothing is written,
\* and Advance where w moves on
Advance == << 0, 0 >>
Unrolled == << <<1, 1>>, <<2, 2>>, Advance, <<3, 1>>, <<4, 2>>, Advance,
               <<1, 1>>, <<2, 2>>, Advance, <<3, 0>>, <<4, 0>>,
               <<1, 1>>, <<2, 2>>, Advance, <<3, 0>>, <<4, 0>> >>
Each(Op(_), st) == [l \in DOMAIN st |-> Op(st[l])]

\* All lanes step, then all lanes write
LaneStep(st, s) ==
    LET mixed == Each(LAMBDA a : PWXFORM_SIMD(a, s[1]), st)
    IN  IF s = Advance THEN Each(Bump, st)
        ELSE IF s[2] = 0 THEN mixed
        ELSE Each(LAMBDA a : Put(a, s[1], s[2]), mixed)

\* The table entries of all lanes are loaded before any lane computes
IlvStep(st, s) ==
    LET col(l) == Col(st[l].x, s[1])
        add == [l \in DOMAIN st |-> st[l].S[1][col(l)[1]]]
        xor == [l \in DOMAIN st |-> st[l].S[2][col(l)[2]]]
    IN  IF s = Advance \/ s[2] = 0 THEN LaneStep(st, s)
        ELSE [l \in DOMAIN st |->
                Put(SetCol(st[l], s[1], Pwx(col(l), add[l], xor[l])), s[1], s[2])]

civic_pwxform_2way(st) == Each(Rotate, FoldLeft(LaneStep, st, Unrolled))
civic_pwxform_2way_ilv(st) == Each(Rotate, FoldLeft(IlvStep, st, Unrolled))
civic_pwxform_4way(st) == Each(Rotate, FoldLeft(LaneStep, st, Unrolled))
civic_pwxform_1way(st) == Each(Rotate, FoldLeft(LaneStep, st, Unrolled))
CIVIC_RFORM(st) == Each(Rotate, FoldLeft(LaneStep, st, Unrolled))
ReferenceForm(st) == Each(PWXFORM, st)

---------------------------------------------------------------------------
\* civic_yp2_read, civic_yp2_xor, civic_yp2_write, civic_yp2_finish_salsa
Read(k, p, i) ==
    [k EXCEPT !.st = [l \in Lanes(k) |-> [@[l] EXCEPT !.x = k.mem[At(p[l], i)]]]]
XorIn(k, p, i) ==
    [k EXCEPT !.st = [l \in Lanes(k) |-> [@[l] EXCEPT !.x = Xor(@, k.mem[At(p[l], i)])]]]
Store(mem, p, i, val, lanes) ==
    FoldSet(LAMBDA l, m : [m EXCEPT ![At(p[l], i)] = val[l]], mem, lanes)
Write(k, p, i) == [k EXCEPT !.mem = Store(@, p, i, [l \in Lanes(k) |-> k.st[l].x], Lanes(k))]
Finish(k, p, i) ==
    LET out == [l \in Lanes(k) |-> Salsa20_2(k.st[l].x)]
    IN  [k EXCEPT !.mem = Store(@, p, i, out, Lanes(k)), !.res = [l \in Lanes(k) |-> out[l][1]]]
Form(k, F(_)) == [k EXCEPT !.st = F(@)]
\* The cells i of the V row, for the registers of a pipelined kernel
Fetch(k, p, i) == [l \in Lanes(k) |-> k.mem[At(p[l], i)]]
\* x ^= y, and y written back over the cell of V it came from
SaveXor(k, in1, in2, i, v) ==
    LET y == [l \in Lanes(k) |-> Xor(v[l], k.mem[At(in1[l], i)])]
    IN  [k EXCEPT !.mem = Store(@, in2, i, y, Lanes(k)),
                  !.st = [l \in Lanes(k) |-> [@[l] EXCEPT !.x = Xor(@, y[l])]]]
\* for (i = 0; i <= last; i++), the last cell left to salsa
Loop(Turns(_, _), k, out, r, F(_)) ==
    LET last == 2 * r - 1
        turn(a, i) == LET b == Form(Turns(a, i), F)
                      IN  IF i = last THEN b ELSE Write(b, out, i)
    IN  Finish(FoldLeft(turn, k, [c \in 1..(last + 1) |-> c - 1]), out, last)
\* the reference kernels with two inputs: two cells to a turn
Pairs(Turns(_, _), k, out, r, F(_)) ==
    LET pair(a, i) ==
            LET b == Form(Turns(Write(Form(Turns(a, i), F), out, i), i + 1), F)
            IN  IF i = 2 * r - 2 THEN b ELSE Write(b, out, i + 1)
    IN  Finish(FoldLeft(pair, k, [c \in 1..r |-> 2 * c - 2]), out, 2 * r - 1)
Start2(k, in1, in2, r) == XorIn(Read(k, in1, 2 * r - 1), in2, 2 * r - 1)

\* The three kinds of kernel
Mix(k, in, out, r, F(_)) ==
    Loop(LAMBDA a, i : XorIn(a, in, i), Read(k, in, 2 * r - 1), out, r, F)
MixXor(k, in1, in2, out, r, F(_)) ==
    Loop(LAMBDA a, i : XorIn(XorIn(a, in1, i), in2, i), Start2(k, in1, in2, r), out, r, F)
MixSave(k, inout, in2, r, F(_)) ==
    Loop(LAMBDA a, i : SaveXor(a, inout, in2, i, Fetch(a, in2, i)),
         Start2(k, inout, in2, r), inout, r, F)

\* The pipelined ones load cell i + 1 of the V row before cell i is mixed
Ahead(a, in2, i, r) == IF i = 2 * r - 1 THEN a.v ELSE Fetch(a, in2, i + 1)
PipeXor(k, in1, in2, out, r, F(_)) ==
    Loop(LAMBDA a, i : [XorIn([a EXCEPT !.st = [l \in Lanes(a) |-> [@[l] EXCEPT !.x = Xor(@, a.v[l])]]],
                              in1, i) EXCEPT !.v = Ahead(a, in2, i, r)],
         [Start2(k, in1, in2, r) EXCEPT !.v = Fetch(k, in2, 0)], out, r, F)
PipeSave(k, inout, in2, r, F(_)) ==
    Loop(LAMBDA a, i : LET next == Ahead(a, in2, i, r)
                       IN  [SaveXor(a, inout, in2, i, a.v) EXCEPT !.v = next],
         [Start2(k, inout, in2, r) EXCEPT !.v = Fetch(k, in2, 0)], inout, r, F)

---------------------------------------------------------------------------
\* The kernels by the names of the code
blockmix(k, in, out, r) == Mix(k, in, out, r, ReferenceForm)
blockmix_xor(k, in1, in2, out, r) ==
    Pairs(LAMBDA a, i : XorIn(XorIn(a, in1, i), in2, i), Start2(k, in1, in2, r), out, r, ReferenceForm)
blockmix_xor_save(k, inout, in2, r) ==
    Pairs(LAMBDA a, i : SaveXor(a, inout, in2, i, Fetch(a, in2, i)),
          Start2(k, inout, in2, r), inout, r, ReferenceForm)

civic_blockmix_2way(k, in, out, r) == Mix(k, in, out, r, civic_pwxform_2way_ilv)
civic_blockmix_xor_2way(k, in1, in2, out, r) == MixXor(k, in1, in2, out, r, civic_pwxform_2way_ilv)
civic_blockmix_xor_2way_pipe(k, in1, in2, out, r) ==
    PipeXor(k, in1, in2, out, r, civic_pwxform_2way_ilv)
civic_blockmix_xor_2way_reg(k, in1, in2, out, r) == MixXor(k, in1, in2, out, r, CIVIC_RFORM)
civic_blockmix_xor_save_2way(k, inout, in2, r) == MixSave(k, inout, in2, r, civic_pwxform_2way_ilv)
civic_blockmix_xor_save_2way_pipe(k, inout, in2, r) ==
    PipeSave(k, inout, in2, r, civic_pwxform_2way_ilv)
civic_blockmix_xor_save_2way_reg(k, inout, in2, r) == MixSave(k, inout, in2, r, CIVIC_RFORM)
civic_blockmix_xor_save_2way_pipewide(k, inout, in2, r) ==
    PipeSave(k, inout, in2, r, civic_pwxform_2way_ilv)
civic_blockmix_xor_save_2way_wide(k, inout, in2, r) ==
    MixSave(k, inout, in2, r, civic_pwxform_2way_ilv)
civic_blockmix_xor_4way(k, in1, in2, out, r) == MixXor(k, in1, in2, out, r, civic_pwxform_4way)
civic_blockmix_xor_save_4way(k, inout, in2, r) == MixSave(k, inout, in2, r, civic_pwxform_4way)
civic_blockmix_1way(k, in, out, r) == Mix(k, in, out, r, civic_pwxform_1way)
civic_blockmix_xor_1way_pipe(k, in1, in2, out, r) ==
    PipeXor(k, in1, in2, out, r, civic_pwxform_1way)
civic_blockmix_xor_save_1way_pipe(k, inout, in2, r) ==
    PipeSave(k, inout, in2, r, civic_pwxform_1way)

\* Without a context: Salsa20/2 instead of pwxform, two cells
SalsaOut(k, x, out, i) ==
    [k EXCEPT !.mem = Store(@, out, i, x, Lanes(k)),
              !.st = [l \in Lanes(k) |-> [@[l] EXCEPT !.x = x[l]]],
              !.res = [l \in Lanes(k) |-> x[l][1]]]
OwnSalsa(k, out, i) == SalsaOut(k, [l \in Lanes(k) |-> Salsa20_2(k.st[l].x)], out, i)
\* the lanes packed into the same registers
PackedSalsa(k, out, i) ==
    LET both == civic_salsa2_2way(k.st[0].x, k.st[1].x)
    IN  SalsaOut(k, [l \in {0, 1} |-> both[l + 1]], out, i)
SalsaMix(Turns(_, _, _), k, in, out) ==
    Turns(XorIn(Turns(XorIn(Read(k, in, 1), in, 0), out, 0), in, 1), out, 1)
SalsaMixXor(Turns(_, _, _), k, in1, in2, out) ==
    LET first == Turns(XorIn(XorIn(Start2(k, in1, in2, 1), in1, 0), in2, 0), out, 0)
    IN  Turns(XorIn(XorIn(first, in1, 1), in2, 1), out, 1)
blockmix_salsa(k, in, out) == SalsaMix(OwnSalsa, k, in, out)
blockmix_salsa_xor(k, in1, in2, out) == SalsaMixXor(OwnSalsa, k, in1, in2, out)
civic_blockmix_salsa_2way(k, in, out) == SalsaMix(PackedSalsa, k, in, out)
civic_blockmix_salsa_xor_2way(k, in1, in2, out) == SalsaMixXor(PackedSalsa, k, in1, in2, out)
=============================================================================
