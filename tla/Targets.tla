------------------------------- MODULE Targets -------------------------------
(***************************************************************************)
(* Targets and difficulties (util.c): the two builds of diff_to_hash,      *)
(* hash_to_diff and valid_hash, with and without 128-bit integers.  A hash *)
(* has four limbs of H * H values where the code has 2^32 * 2^32, lowest   *)
(* first.  A difficulty is a fraction; the rounding of long double is left *)
(* out.                                                                    *)
(***************************************************************************)
EXTENDS Integers

CONSTANTS H,             \* 2^32: exp32 is H, exp64 H^2, exp96 H^3
          HashLimbs,     \* values of a limb
          Difficulties   \* pairs of numerator and denominator

Limb == H * H

\* A difficulty is positive, and not so small that its target has more than 256 bits.
ASSUME TargetsAssumption ==
  /\ H \in Nat \ {0}
  /\ HashLimbs \subseteq 0..(Limb - 1)
  /\ \A q \in Difficulties : /\ q \in (Nat \ {0}) \X (Nat \ {0})
                             /\ q[2] < H * q[1]

VARIABLES trgIn,       \* what is compared
          trgOut       \* what came out, empty before

trgvars == <<trgIn, trgOut>>

Upper(hash) == hash[4] * Limb + hash[3]
Lower(hash) == hash[2] * Limb + hash[1]

\* diff = n / d: 1. / diff times exp96 cut off, over a lower half of ones
diff_to_hash_128(n, d) ==
    LET m == (Limb * (H * d)) \div n
    IN  <<Limb - 1, Limb - 1, m % Limb, m \div Limb>>
diff_to_hash_64(n, d) ==
    LET whole == (H * d) \div n
    IN  <<Limb - 1, Limb - 1, (Limb * (H * d - whole * n)) \div n, whole>>

\* A fraction as the pair of numerator and denominator; 1 / 0 is infinity
hash_to_diff(hash) == <<Limb * H, Upper(hash)>>

valid_hash_128(h, t) == IF Upper(h) # Upper(t) THEN Upper(h) < Upper(t) ELSE Lower(h) <= Lower(t)
valid_hash_64_NoSecond(h, t) ==
    CASE h[4] # t[4] -> h[4] < t[4]
      [] OTHER       -> h[1] <= t[1]
valid_hash_64(h, t) ==
    CASE h[4] # t[4] -> h[4] < t[4]
      [] h[4] = t[4] /\ h[3] # t[3] -> h[3] < t[3]
      [] h[4] = t[4] /\ h[3] = t[3] /\ h[2] # t[2] -> h[2] < t[2]
      [] OTHER -> h[1] <= t[1]
-----------------------------------------------------------------------------
Hashes == [1..4 -> HashLimbs]

TrgInit == /\ trgOut = <<>>
           /\ \/ trgIn \in [kind : {"target"}, hash : Hashes, target : Hashes]
              \/ trgIn \in [kind : {"diff"}, hash : Hashes, diff : Difficulties]

Compare == /\ trgIn.kind = "target"
           /\ trgOut' = [wide   |-> valid_hash_128(trgIn.hash, trgIn.target),
                         narrow |-> valid_hash_64(trgIn.hash, trgIn.target)]

\* a share is tested against the target of its difficulty, its own difficulty is computed
Judge == /\ trgIn.kind = "diff"
         /\ LET n == trgIn.diff[1]    d == trgIn.diff[2]
            IN  trgOut' = [wide   |-> valid_hash_128(trgIn.hash, diff_to_hash_128(n, d)),
                           narrow |-> valid_hash_64(trgIn.hash, diff_to_hash_64(n, d)),
                           sharediff |-> hash_to_diff(trgIn.hash)]

TrgNext == trgOut = <<>> /\ (Compare \/ Judge) /\ UNCHANGED trgIn

TargetSpec == TrgInit /\ [][TrgNext]_trgvars
-----------------------------------------------------------------------------
\* A hash as one number
Number(h) == Upper(h) * (Limb * Limb) + Lower(h)

(* Both builds hand in the same shares: a hash is valid for a target if it *)
(* is no larger as one number, and valid for the target made of a          *)
(* difficulty exactly if the share difficulty computed from the hash is at *)
(* least that difficulty.                                                  *)
SharesMeetDiff ==
    trgOut # <<>> =>
        /\ trgIn.kind = "target" =>
              LET below == Number(trgIn.hash) <= Number(trgIn.target)
              IN  trgOut.wide = below /\ trgOut.narrow = below
        /\ trgIn.kind = "diff" =>
              LET meets == trgOut.sharediff[1] * trgIn.diff[2] >= trgOut.sharediff[2] * trgIn.diff[1]
              IN  trgOut.wide = meets /\ trgOut.narrow = meets
=============================================================================
