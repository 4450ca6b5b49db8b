---------------------------- MODULE HashProofs ----------------------------
(***************************************************************************)
(* Proofs about hashing.  Targets and difficulties, for every size of a    *)
(* limb, every hash and every difficulty whose target has no more than 256 *)
(* bits.  The SHA-256 streams, for every message, every way to cut it,     *)
(* every content of a fresh buffer and every digest function.  Key         *)
(* derivation and the proof-of-work hash by each of their paths, for every *)
(* call and every pair of headers, every digest of 32 bytes and every      *)
(* yespower that makes 32 bytes of 32.                                     *)
(***************************************************************************)
EXTENDS Targets, PowHash, SequenceTheorems, WellFoundedInduction, TLAPS

(* Multiplication keeps the order. *)
LEMMA Scales ==
  ASSUME NEW k \in Nat, NEW a \in Int, NEW b \in Int, a <= b
  PROVE  a * k <= b * k
<1>1. b - a \in Nat /\ (b - a) * k \in Nat /\ b * k = a * k + (b - a) * k
  OBVIOUS
<1> QED
  BY <1>1

(* What a quotient is between. *)
LEMMA Division ==
  ASSUME NEW a \in Nat, NEW n \in Nat \ {0}
  PROVE  /\ a \div n \in Nat /\ a % n \in 0..(n - 1)
         /\ a = (a \div n) * n + (a % n)
OBVIOUS

(* A quotient and a rest that fit are the quotient and the rest. *)
LEMMA Quotient ==
  ASSUME NEW a \in Nat, NEW n \in Nat \ {0}, NEW q \in Nat, NEW r \in 0..(n - 1), a = q * n + r
  PROVE  a \div n = q /\ a % n = r
<1> DEFINE p == a \div n
           s == a % n
<1>1. p \in Nat /\ s \in 0..(n - 1) /\ a = p * n + s
  BY Division
<1> HIDE DEF p, s
<1>2. ~(p < q)
  <2> SUFFICES ASSUME p < q PROVE FALSE
    OBVIOUS
  <2>1. (p + 1) * n <= q * n
    BY <1>1, Scales
  <2>2. (p + 1) * n = p * n + n /\ p * n \in Nat /\ q * n \in Nat
    BY <1>1
  <2> QED
    BY <1>1, <2>1, <2>2
<1>3. ~(q < p)
  <2> SUFFICES ASSUME q < p PROVE FALSE
    OBVIOUS
  <2>1. (q + 1) * n <= p * n
    BY <1>1, Scales
  <2>2. (q + 1) * n = q * n + n /\ p * n \in Nat /\ q * n \in Nat
    BY <1>1
  <2> QED
    BY <1>1, <2>1, <2>2
<1>4. p = q
  BY <1>1, <1>2, <1>3
<1>5. p * n \in Nat /\ p * n = q * n
  BY <1>1, <1>4
<1> QED
  BY <1>1, <1>4, <1>5 DEF p, s

(* Two numbers of two digits compare like their digits. *)
TwoDigit(m, a, c) == a * m + c

(* Numbers of two digits in the base m are ordered as their digits. *)
LEMMA TwoDigits ==
  ASSUME NEW m \in Nat, NEW a \in Nat, NEW b \in Nat, NEW c \in 0..(m - 1), NEW d \in 0..(m - 1)
  PROVE  /\ TwoDigit(m, a, c) <= TwoDigit(m, b, d) <=> (a < b \/ (a = b /\ c <= d))
         /\ TwoDigit(m, a, c) = TwoDigit(m, b, d) <=> (a = b /\ c = d)
<1>1. \A x, y \in Nat : x < y => x * m + m <= y * m
  <2> SUFFICES ASSUME NEW x \in Nat, NEW y \in Nat, x < y PROVE x * m + m <= y * m
    OBVIOUS
  <2>1. (x + 1) * m <= y * m
    BY Scales
  <2> QED
    BY <2>1
<1>2. a * m \in Nat /\ b * m \in Nat
  OBVIOUS
<1>3. a < b => a * m + m <= b * m
  BY <1>1
<1>4. b < a => b * m + m <= a * m
  BY <1>1
<1>5. a = b => a * m = b * m
  OBVIOUS
<1> QED
  BY <1>2, <1>3, <1>4, <1>5 DEF TwoDigit

-----------------------------------------------------------------------------
(* Four limbs. *)
Quad(h) == \A i \in 1..4 : h[i] \in 0..(Limb - 1)

(* A limb has a size. *)
LEMMA LimbSize == Limb \in Nat /\ Limb > 0
BY TargetsAssumption DEF Limb

(* The halves of a hash are below the square of a limb. *)
LEMMA Halves ==
  ASSUME NEW h, Quad(h)
  PROVE  Upper(h) \in 0..(Limb * Limb - 1) /\ Lower(h) \in 0..(Limb * Limb - 1)
<1>1. ASSUME NEW a \in 0..(Limb - 1), NEW b \in 0..(Limb - 1)
      PROVE  a * Limb + b \in 0..(Limb * Limb - 1)
  <2>1. (a + 1) * Limb <= Limb * Limb
    BY LimbSize, Scales
  <2>2. (a + 1) * Limb = a * Limb + Limb /\ a * Limb \in Nat /\ Limb * Limb \in Nat
    BY LimbSize
  <2> QED
    BY <2>1, <2>2, LimbSize
<1> QED
  BY <1>1 DEF Quad, Upper, Lower

(* Both comparisons are the comparison of the hashes as numbers. *)
LEMMA ComparesNumbers ==
  ASSUME NEW h, NEW t, Quad(h), Quad(t)
  PROVE  /\ valid_hash_128(h, t) = (Number(h) <= Number(t))
         /\ valid_hash_64(h, t) = (Number(h) <= Number(t))
<1>1. \A i \in 1..4 : h[i] \in 0..(Limb - 1) /\ t[i] \in 0..(Limb - 1) /\ h[i] \in Nat /\ t[i] \in Nat
  BY LimbSize DEF Quad
<1>2. Number(h) <= Number(t)
        <=> (Upper(h) < Upper(t) \/ (Upper(h) = Upper(t) /\ Lower(h) <= Lower(t)))
  <2>1. /\ Upper(h) \in 0..(Limb * Limb - 1) /\ Lower(h) \in 0..(Limb * Limb - 1)
        /\ Upper(t) \in 0..(Limb * Limb - 1) /\ Lower(t) \in 0..(Limb * Limb - 1)
    BY Halves
  <2>2. Limb * Limb \in Nat
    BY LimbSize
  <2>3. /\ Number(h) = TwoDigit(Limb * Limb, Upper(h), Lower(h))
        /\ Number(t) = TwoDigit(Limb * Limb, Upper(t), Lower(t))
    BY DEF Number, TwoDigit
  <2> DEFINE m == Limb * Limb
  <2> HIDE DEF m
  <2>4. m \in Nat /\ Upper(h) \in Nat /\ Upper(t) \in Nat
    BY <2>1, <2>2 DEF m
  <2>5. Lower(h) \in 0..(m - 1) /\ Lower(t) \in 0..(m - 1)
    BY <2>1 DEF m
  <2>6. TwoDigit(m, Upper(h), Lower(h)) <= TwoDigit(m, Upper(t), Lower(t))
          <=> (Upper(h) < Upper(t) \/ (Upper(h) = Upper(t) /\ Lower(h) <= Lower(t)))
    BY <2>4, <2>5, TwoDigits
  <2> QED
    BY <2>3, <2>6 DEF m
<1>3. /\ Upper(h) <= Upper(t) <=> (h[4] < t[4] \/ (h[4] = t[4] /\ h[3] <= t[3]))
      /\ Upper(h) = Upper(t) <=> (h[4] = t[4] /\ h[3] = t[3])
  <2>1. Upper(h) = TwoDigit(Limb, h[4], h[3]) /\ Upper(t) = TwoDigit(Limb, t[4], t[3])
    BY DEF Upper, TwoDigit
  <2>2. /\ h[4] \in Nat /\ t[4] \in Nat
        /\ h[3] \in 0..(Limb - 1) /\ t[3] \in 0..(Limb - 1)
    BY <1>1
  <2> QED
    BY <2>1, <2>2, LimbSize, TwoDigits, SMTT(60)
<1>4. /\ Lower(h) <= Lower(t) <=> (h[2] < t[2] \/ (h[2] = t[2] /\ h[1] <= t[1]))
      /\ Lower(h) = Lower(t) <=> (h[2] = t[2] /\ h[1] = t[1])
  <2>1. Lower(h) = TwoDigit(Limb, h[2], h[1]) /\ Lower(t) = TwoDigit(Limb, t[2], t[1])
    BY DEF Lower, TwoDigit
  <2>2. /\ h[2] \in Nat /\ t[2] \in Nat
        /\ h[1] \in 0..(Limb - 1) /\ t[1] \in 0..(Limb - 1)
    BY <1>1
  <2> QED
    BY <2>1, <2>2, LimbSize, TwoDigits
<1>5. Upper(h) \in Int /\ Upper(t) \in Int
  BY Halves
<1>6. (Number(h) <= Number(t)) \in BOOLEAN
  OBVIOUS
<1>7. valid_hash_128(h, t) <=> (Number(h) <= Number(t))
  BY <1>2, <1>5 DEF valid_hash_128
<1>8. valid_hash_64(h, t) <=> (Number(h) <= Number(t))
  BY <1>1, <1>2, <1>3, <1>4, <1>5 DEF valid_hash_64
<1>9. valid_hash_128(h, t) \in BOOLEAN /\ valid_hash_64(h, t) \in BOOLEAN
  <2>1. \A x, y : (x <= y) \in BOOLEAN /\ (x < y) \in BOOLEAN
    OBVIOUS
  <2>2. valid_hash_128(h, t) \in BOOLEAN
    BY <2>1, Zenon DEF valid_hash_128
  <2>3. valid_hash_64(h, t) \in BOOLEAN
    BY <2>1, Zenon DEF valid_hash_64
  <2> QED
    BY <2>2, <2>3
<1> QED
  BY <1>6, <1>7, <1>8, <1>9

(* The two builds make the same target of a difficulty, although one cuts  *)
(* the whole quotient into limbs and the other divides limb by limb; its   *)
(* upper half is the quotient.                                             *)
LEMMA SameTargets ==
  ASSUME NEW q \in Difficulties
  PROVE  /\ diff_to_hash_64(q[1], q[2]) = diff_to_hash_128(q[1], q[2])
         /\ Quad(diff_to_hash_128(q[1], q[2]))
         /\ Upper(diff_to_hash_128(q[1], q[2])) = (Limb * (H * q[2])) \div q[1]
<1> DEFINE n == q[1]
           x == H * q[2]
           whole == x \div n
           rest == x % n
           low == (Limb * rest) \div n
           m == (Limb * x) \div n
<1>1. n \in Nat \ {0} /\ x \in Nat /\ x < Limb * n
  <2>1. q[1] \in Nat \ {0} /\ q[2] \in Nat \ {0} /\ q[2] < H * q[1] /\ H \in Nat \ {0}
    BY TargetsAssumption
  <2>2. H * q[2] \in Nat /\ H * q[1] \in Nat
    BY <2>1
  <2>3. (q[2] + 1) * H <= (H * q[1]) * H
    BY <2>1, <2>2, Scales
  <2>4. (q[2] + 1) * H = H * q[2] + H /\ (H * q[1]) * H = Limb * q[1]
    BY <2>1 DEF Limb
  <2> QED
    BY <2>1, <2>2, <2>3, <2>4
<1>2. diff_to_hash_64(q[1], q[2]) = <<Limb - 1, Limb - 1, (Limb * (x - whole * n)) \div n, whole>>
  BY DEF diff_to_hash_64
<1>3. diff_to_hash_128(q[1], q[2]) = <<Limb - 1, Limb - 1, m % Limb, m \div Limb>>
  BY DEF diff_to_hash_128
<1> HIDE DEF n, x
<1>4. whole \in Nat /\ rest \in 0..(n - 1) /\ x = whole * n + rest /\ x - whole * n = rest
  <2>1. whole \in Nat /\ rest \in 0..(n - 1) /\ x = whole * n + rest
    BY <1>1, Division
  <2>2. whole * n \in Nat
    BY <1>1, <2>1
  <2> QED
    BY <1>1, <2>1, <2>2
<1> HIDE DEF whole, rest
<1>5. whole \in 0..(Limb - 1)
  <2> SUFFICES ASSUME ~(whole < Limb) PROVE FALSE
    BY <1>4, LimbSize
  <2>1. Limb * n <= whole * n
    BY <1>1, <1>4, LimbSize, Scales
  <2> QED
    BY <1>1, <1>4, <2>1, LimbSize
<1>6. Limb * rest \in Nat
  BY <1>4, LimbSize
<1>7. low \in Nat /\ (Limb * rest) % n \in 0..(n - 1) /\ Limb * rest = low * n + ((Limb * rest) % n)
  BY <1>1, <1>6, Division
<1> HIDE DEF low
<1>8. low \in 0..(Limb - 1)
  <2> SUFFICES ASSUME ~(low < Limb) PROVE FALSE
    BY <1>7, LimbSize
  <2>1. Limb * n <= low * n
    BY <1>1, <1>7, LimbSize, Scales
  <2>2. (rest + 1) * Limb <= n * Limb
    BY <1>1, <1>4, LimbSize, Scales
  <2>3. (rest + 1) * Limb = Limb * rest + Limb /\ n * Limb = Limb * n /\ low * n \in Nat /\ Limb * n \in Nat
    BY <1>1, <1>4, <1>7, LimbSize
  <2> QED
    BY <1>6, <1>7, <2>1, <2>2, <2>3, LimbSize
<1>9. m = whole * Limb + low
  <2> DEFINE r == (Limb * rest) % n
             k == whole * Limb + low
  <2>1. r \in 0..(n - 1) /\ Limb * rest = low * n + r
    BY <1>7
  <2> HIDE DEF r
  <2>2. Limb * x = Limb * (whole * n) + Limb * rest
    BY <1>1, <1>4, LimbSize
  <2>3. Limb * (whole * n) = (whole * Limb) * n
    BY <1>1, <1>4, LimbSize
  <2>4. k * n = (whole * Limb) * n + low * n
    BY <1>1, <1>4, <1>7, LimbSize
  <2>5. k \in Nat /\ Limb * x \in Nat
    BY <1>1, <1>4, <1>7, LimbSize
  <2>6. (whole * Limb) * n \in Nat /\ low * n \in Nat
    BY <1>1, <1>4, <1>7, LimbSize
  <2>7. Limb * x = k * n + r
    BY <2>1, <2>2, <2>3, <2>4, <2>6
  <2> HIDE DEF k
  <2>8. (Limb * x) \div n = k
    BY <1>1, <2>1, <2>5, <2>7, Quotient
  <2> QED
    BY <2>8 DEF m, k
<1>10. m \in Nat /\ m \div Limb = whole /\ m % Limb = low
  <2>1. m \in Nat
    BY <1>4, <1>7, <1>9, LimbSize
  <2> HIDE DEF m
  <2> QED
    BY <1>4, <1>8, <1>9, <2>1, LimbSize, Quotient
<1> HIDE DEF m
<1>11. (Limb * (x - whole * n)) \div n = low
  BY <1>4 DEF low
<1>12. diff_to_hash_64(q[1], q[2]) = diff_to_hash_128(q[1], q[2])
  BY <1>2, <1>3, <1>10, <1>11
<1>13. Quad(diff_to_hash_128(q[1], q[2]))
  BY <1>3, <1>5, <1>8, <1>10, LimbSize DEF Quad
<1>14. Upper(diff_to_hash_128(q[1], q[2])) = m
  BY <1>3, <1>9, <1>10 DEF Upper
<1> QED
  BY <1>12, <1>13, <1>14 DEF m, x, n

(* A hash is below the target of a difficulty exactly if its own           *)
(* difficulty is at least that one.                                        *)
LEMMA BelowMeansMeets ==
  ASSUME NEW h, Quad(h), NEW q \in Difficulties
  PROVE  valid_hash_128(h, diff_to_hash_128(q[1], q[2]))
           = (Limb * H * q[2] >= Upper(h) * q[1])
<1> DEFINE n == q[1]
           u == Upper(h)
           big == Limb * (H * q[2])
           m == big \div n
           t == diff_to_hash_128(q[1], q[2])
<1>1. n \in Nat \ {0} /\ q[2] \in Nat /\ H \in Nat
  BY TargetsAssumption
<1>2. big \in Nat /\ big = Limb * H * q[2]
  BY <1>1, LimbSize
<1>3. u \in Nat /\ Lower(h) \in 0..(Limb * Limb - 1)
  BY Halves
<1>4. Upper(t) = m /\ t[1] = Limb - 1 /\ t[2] = Limb - 1
  BY SameTargets DEF diff_to_hash_128
<1>5. Lower(t) = Limb * Limb - 1
  <2>1. (Limb - 1) * Limb = Limb * Limb - Limb /\ Limb * Limb \in Nat
    BY LimbSize
  <2> QED
    BY <1>4, <2>1, LimbSize DEF Lower
<1> HIDE DEF n, u, big, t
<1>6. m \in Nat /\ big % n \in 0..(n - 1) /\ big = m * n + (big % n)
  BY <1>1, <1>2, Division
<1>7. Lower(h) <= Lower(t)
  BY <1>3, <1>5, LimbSize
<1>8. valid_hash_128(h, t) <=> u <= m
  BY <1>3, <1>4, <1>6, <1>7 DEF valid_hash_128, u
<1> HIDE DEF m
<1>9. u <= m => big >= u * n
  <2> SUFFICES ASSUME u <= m PROVE big >= u * n
    OBVIOUS
  <2>1. u * n <= m * n /\ u * n \in Nat /\ m * n \in Nat
    BY <1>1, <1>3, <1>6, Scales
  <2> QED
    BY <1>1, <1>2, <1>6, <2>1
<1>10. ~(u <= m) => ~(big >= u * n)
  <2> SUFFICES ASSUME m + 1 <= u PROVE ~(big >= u * n)
    BY <1>3, <1>6
  <2>1. (m + 1) * n <= u * n
    BY <1>1, <1>3, <1>6, Scales
  <2>2. (m + 1) * n = m * n + n /\ u * n \in Nat /\ m * n \in Nat
    BY <1>1, <1>3, <1>6
  <2> QED
    BY <1>1, <1>2, <1>6, <2>1, <2>2
<1>11. valid_hash_128(h, t) <=> big >= u * n
  BY <1>8, <1>9, <1>10
<1>12. valid_hash_128(h, t) \in BOOLEAN /\ (big >= u * n) \in BOOLEAN
  <2>1. \A x, y : (x <= y) \in BOOLEAN /\ (x < y) \in BOOLEAN
    OBVIOUS
  <2>2. valid_hash_128(h, t) \in BOOLEAN
    BY <2>1, Zenon DEF valid_hash_128
  <2> QED
    BY <2>2
<1>13. valid_hash_128(h, t) = (big >= u * n)
  BY <1>11, <1>12
<1> QED
  BY <1>2, <1>13 DEF t, u, n

(* What is compared is a hash and a target, or a hash and a difficulty. *)
Inputs == \/ trgIn \in [kind : {"target"}, hash : Hashes, target : Hashes]
          \/ trgIn \in [kind : {"diff"}, hash : Hashes, diff : Difficulties]

(* A hash is four limbs. *)
LEMMA HashIsQuad == \A h \in Hashes : Quad(h)
BY TargetsAssumption DEF Hashes, Quad

(* Both builds hand in the same shares, and exactly those that meet the    *)
(* difficulty, for every size of a limb, every hash and every difficulty   *)
(* whose target has 256 bits.                                              *)
THEOREM SharesMeet == TargetSpec => []SharesMeetDiff
<1>1. TrgInit => Inputs /\ SharesMeetDiff
  BY DEF TrgInit, Inputs, SharesMeetDiff
<1>2. Inputs /\ SharesMeetDiff /\ [TrgNext]_trgvars => (Inputs /\ SharesMeetDiff)'
  <2> SUFFICES ASSUME Inputs, SharesMeetDiff, [TrgNext]_trgvars PROVE (Inputs /\ SharesMeetDiff)'
    OBVIOUS
  <2>1. trgIn' = trgIn
    BY DEF TrgNext, trgvars
  <2>2. Inputs'
    BY <2>1 DEF Inputs
  <2>3. CASE Compare
    <3>1. trgIn.kind = "target" /\ trgIn.hash \in Hashes /\ trgIn.target \in Hashes
      BY <2>3 DEF Compare, Inputs
    <3> DEFINE below == Number(trgIn.hash) <= Number(trgIn.target)
    <3>2. /\ valid_hash_128(trgIn.hash, trgIn.target) = below
          /\ valid_hash_64(trgIn.hash, trgIn.target) = below
      BY <3>1, HashIsQuad, ComparesNumbers
    <3>3. trgOut'.wide = below /\ trgOut'.narrow = below
      BY <2>3, <3>2 DEF Compare
    <3> QED
      BY <2>1, <2>2, <3>1, <3>3 DEF SharesMeetDiff
  <2>4. CASE Judge
    <3>1. trgIn.kind = "diff" /\ trgIn.hash \in Hashes /\ trgIn.diff \in Difficulties
      BY <2>4 DEF Judge, Inputs
    <3> DEFINE h == trgIn.hash
               n == trgIn.diff[1]
               d == trgIn.diff[2]
               meets == Limb * H * d >= Upper(h) * n
    <3>2. Quad(h) /\ Quad(diff_to_hash_128(n, d)) /\ diff_to_hash_64(n, d) = diff_to_hash_128(n, d)
      BY <3>1, HashIsQuad, SameTargets
    <3>3. valid_hash_128(h, diff_to_hash_128(n, d)) = meets
      BY <3>1, <3>2, BelowMeansMeets
    <3>4. valid_hash_64(h, diff_to_hash_64(n, d)) = meets
      BY <3>2, <3>3, ComparesNumbers
    <3>5. trgOut' = [wide   |-> valid_hash_128(h, diff_to_hash_128(n, d)),
                     narrow |-> valid_hash_64(h, diff_to_hash_64(n, d)),
                     sharediff |-> hash_to_diff(h)]
      BY <2>4 DEF Judge
    <3>6. /\ trgOut'.wide = meets /\ trgOut'.narrow = meets
          /\ trgOut'.sharediff[1] = Limb * H /\ trgOut'.sharediff[2] = Upper(h)
      BY <3>3, <3>4, <3>5 DEF hash_to_diff
    <3> QED
      BY <2>1, <2>2, <3>1, <3>6 DEF SharesMeetDiff
  <2>5. CASE UNCHANGED trgvars
    BY <2>2, <2>5 DEF SharesMeetDiff, trgvars
  <2> QED
    BY <2>3, <2>4, <2>5 DEF TrgNext
<1> QED
  BY <1>1, <1>2, PTL DEF TargetSpec

-----------------------------------------------------------------------------
(* A function on 1..n evaluated to a sequence is that function. *)
LEMMA TupleIs ==
  ASSUME NEW S, NEW n \in Nat, NEW f \in [1..n -> S]
  PROVE  Tuple(f) = f
<1>1. f \in Seq(S)
  BY SeqDef
<1> QED
  BY <1>1, ConcatEmptySeq DEF Tuple

(* Bytes, and the buffer of a context. *)
Octet == 0..255
Buffer == [1..64 -> Octet]

(* A function on 1..n is a sequence. *)
LEMMA FunctionSeq ==
  ASSUME NEW S, NEW n \in Nat, NEW f \in [1..n -> S]
  PROVE  f \in Seq(S) /\ Len(f) = n
<1>1. f \in Seq(S)
  BY SeqDef
<1>2. DOMAIN f = 1..n /\ DOMAIN f = 1..Len(f) /\ Len(f) \in Nat
  BY <1>1, LenProperties
<1> QED
  BY <1>1, <1>2

(* A slice, byte by byte. *)
LEMMA SliceIs ==
  ASSUME NEW s \in Seq(Octet), NEW a \in 1..(Len(s) + 1), NEW b \in (a - 1)..Len(s)
  PROVE  /\ SubSeq(s, a, b) \in Seq(Octet)
         /\ Len(SubSeq(s, a, b)) = b - a + 1
         /\ SubSeq(s, a, b) = [k \in 1..(b - a + 1) |-> s[a + k - 1]]
<1>1. Len(s) \in Nat /\ s \in [1..Len(s) -> Octet]
  BY LenProperties
<1>2. \A i \in a..b : s[i] \in Octet
  BY <1>1
<1>3. /\ SubSeq(s, a, b) \in Seq(Octet)
      /\ Len(SubSeq(s, a, b)) = IF a <= b THEN b - a + 1 ELSE 0
  BY <1>1, <1>2, SubSeqProperties
<1>4. Len(SubSeq(s, a, b)) = b - a + 1
  BY <1>1, <1>3
<1>5. \A k \in 1..(b - a + 1) : SubSeq(s, a, b)[k] = s[a + k - 1]
  BY <1>1, <1>2, SubSeqProperties
<1>6. SubSeq(s, a, b) \in [1..(b - a + 1) -> Octet]
  BY <1>3, <1>4, LenProperties
<1> QED
  BY <1>3, <1>4, <1>5, <1>6

(* The first bytes and the others. *)
LEMMA TakeIs ==
  ASSUME NEW s \in Seq(Octet), NEW n \in 0..Len(s)
  PROVE  /\ SubSeq(s, 1, n) \in Seq(Octet) /\ Len(SubSeq(s, 1, n)) = n
         /\ \A k \in 1..n : SubSeq(s, 1, n)[k] = s[k]
<1>1. Len(s) \in Nat
  BY LenProperties
<1>2. 1 \in 1..(Len(s) + 1) /\ n \in (1 - 1)..Len(s) /\ n - 1 + 1 = n
  BY <1>1
<1>3. /\ SubSeq(s, 1, n) \in Seq(Octet) /\ Len(SubSeq(s, 1, n)) = n - 1 + 1
      /\ SubSeq(s, 1, n) = [k \in 1..(n - 1 + 1) |-> s[1 + k - 1]]
  BY <1>2, SliceIs
<1>4. ASSUME NEW k \in 1..n PROVE SubSeq(s, 1, n)[k] = s[k]
  <2>1. k \in 1..(n - 1 + 1) /\ 1 + k - 1 = k
    BY <1>2, SMTT(60)
  <2> QED
    BY <1>3, <2>1
<1> QED
  BY <1>2, <1>3, <1>4

(* What is left of a sequence behind its first n bytes. *)
LEMMA DropIs ==
  ASSUME NEW s \in Seq(Octet), NEW n \in 0..Len(s)
  PROVE  /\ SubSeq(s, n + 1, Len(s)) \in Seq(Octet) /\ Len(SubSeq(s, n + 1, Len(s))) = Len(s) - n
         /\ \A k \in 1..(Len(s) - n) : SubSeq(s, n + 1, Len(s))[k] = s[n + k]
<1> DEFINE a == n + 1
           b == Len(s)
<1>1. Len(s) \in Nat
  BY LenProperties
<1>2. a \in 1..(Len(s) + 1) /\ b \in (a - 1)..Len(s) /\ b - a + 1 = Len(s) - n
  BY <1>1
<1>3. \A k \in 1..(b - a + 1) : a + k - 1 = n + k
  BY <1>1
<1> HIDE DEF a, b
<1>4. /\ SubSeq(s, a, b) \in Seq(Octet) /\ Len(SubSeq(s, a, b)) = b - a + 1
      /\ SubSeq(s, a, b) = [k \in 1..(b - a + 1) |-> s[a + k - 1]]
  BY <1>2, SliceIs
<1>5. ASSUME NEW k \in 1..(b - a + 1) PROVE SubSeq(s, a, b)[k] = s[n + k]
  <2>1. a + k - 1 = n + k
    BY <1>3
  <2>2. SubSeq(s, a, b)[k] = s[a + k - 1]
    BY <1>4
  <2> QED
    BY <2>1, <2>2
<1>6. a = n + 1 /\ b = Len(s)
  BY DEF a, b
<1> QED
  BY <1>2, <1>4, <1>5, <1>6

(* What a patch changes and what it leaves. *)
LEMMA PatchAt ==
  ASSUME NEW buf \in Buffer, NEW at \in Nat, NEW bytes \in Seq(Octet), at + Len(bytes) <= 64
  PROVE  /\ Patch(buf, at, bytes) \in Buffer
         /\ \A j \in 1..Len(bytes) : Patch(buf, at, bytes)[at + j] = bytes[j]
         /\ \A k \in 1..64 : k <= at \/ k > at + Len(bytes) => Patch(buf, at, bytes)[k] = buf[k]
<1> DEFINE f == [k \in 1..64 |-> IF k - 1 \in at..(at + Len(bytes) - 1) THEN bytes[k - at] ELSE buf[k]]
<1>1. Len(bytes) \in Nat /\ bytes \in [1..Len(bytes) -> Octet]
  BY LenProperties
<1>2. f \in Buffer
  <2>1. \A j \in 1..Len(bytes) : bytes[j] \in Octet
    BY <1>1
  <2>2. \A k \in 1..64 : k - 1 \in at..(at + Len(bytes) - 1) => k - at \in 1..Len(bytes)
    BY <1>1
  <2>3. \A k \in 1..64 : buf[k] \in Octet
    BY DEF Buffer
  <2> QED
    BY <2>1, <2>2, <2>3 DEF Buffer
<1>3. Patch(buf, at, bytes) = f
  BY <1>2, TupleIs DEF Patch, Buffer
<1>4. ASSUME NEW j \in 1..Len(bytes) PROVE f[at + j] = bytes[j]
  <2>1. /\ at + j \in 1..64 /\ (at + j) - 1 \in at..(at + Len(bytes) - 1)
        /\ (at + j) - at = j
    BY <1>1
  <2> QED
    BY <2>1
<1>5. ASSUME NEW k \in 1..64, k <= at \/ k > at + Len(bytes) PROVE f[k] = buf[k]
  <2>1. ~(k - 1 \in at..(at + Len(bytes) - 1))
    BY <1>1, <1>5
  <2> QED
    BY <2>1
<1> HIDE DEF f
<1> QED
  BY <1>2, <1>3, <1>4, <1>5

(* The first q whole blocks of a message. *)
BlocksOf(m, q) == [i \in 1..q |-> [k \in 1..64 |-> m[64 * (i - 1) + k]]]

(* The whole blocks are a sequence of buffers. *)
LEMMA BlocksSeq ==
  ASSUME NEW m \in Seq(Octet), NEW q \in Nat, 64 * q <= Len(m)
  PROVE  /\ BlocksOf(m, q) \in Seq(Buffer)
         /\ Len(BlocksOf(m, q)) = q
<1>1. Len(m) \in Nat /\ m \in [1..Len(m) -> Octet]
  BY LenProperties
<1>2. BlocksOf(m, q) \in [1..q -> Buffer]
  <2> SUFFICES ASSUME NEW i \in 1..q, NEW k \in 1..64 PROVE m[64 * (i - 1) + k] \in Octet
    BY DEF BlocksOf, Buffer
  <2>1. 64 * (i - 1) + k \in 1..Len(m)
    BY <1>1
  <2> QED
    BY <1>1, <2>1
<1>3. BlocksOf(m, q) \in Seq(Buffer)
  BY <1>2, SeqDef
<1>4. DOMAIN BlocksOf(m, q) = 1..q /\ DOMAIN BlocksOf(m, q) = 1..Len(BlocksOf(m, q)) /\ Len(BlocksOf(m, q)) \in Nat
  BY <1>2, <1>3, LenProperties
<1> QED
  BY <1>3, <1>4

(* The blocks of a prefix. *)
LEMMA PrefixBlocks ==
  ASSUME NEW m \in Seq(Octet), NEW t \in Seq(Octet), NEW q \in Nat, 64 * q <= Len(m), 64 * q <= Len(t),
         \A j \in 1..(64 * q) : t[j] = m[j]
  PROVE  BlocksOf(t, q) = BlocksOf(m, q)
<1>1. \A i \in 1..q : \A k \in 1..64 : 64 * (i - 1) + k \in 1..(64 * q)
  OBVIOUS
<1> QED
  BY <1>1 DEF BlocksOf

(* Compressing a further block. *)
LEMMA CompressBlock ==
  ASSUME NEW m \in Seq(Octet), NEW q \in Nat, 64 * q + 64 <= Len(m), NEW block \in Buffer,
         \A k \in 1..64 : block[k] = m[64 * q + k]
  PROVE  Compress(BlocksOf(m, q), block) = BlocksOf(m, q + 1)
<1> Len(m) \in Nat
  BY LenProperties
<1>1. 64 * q <= Len(m) /\ 64 * (q + 1) <= Len(m)
  OBVIOUS
<1>2. /\ BlocksOf(m, q) \in Seq(Buffer) /\ Len(BlocksOf(m, q)) = q
      /\ BlocksOf(m, q + 1) \in Seq(Buffer) /\ Len(BlocksOf(m, q + 1)) = q + 1
  <2>1. q + 1 \in Nat
    OBVIOUS
  <2>2. BlocksOf(m, q) \in Seq(Buffer) /\ Len(BlocksOf(m, q)) = q
    BY <1>1, BlocksSeq
  <2> QED
    BY <1>1, <2>1, <2>2, BlocksSeq
<1>3. /\ Append(BlocksOf(m, q), block) \in Seq(Buffer)
      /\ Len(Append(BlocksOf(m, q), block)) = q + 1
      /\ \A i \in 1..q : Append(BlocksOf(m, q), block)[i] = BlocksOf(m, q)[i]
      /\ Append(BlocksOf(m, q), block)[q + 1] = block
  <2> DEFINE s == BlocksOf(m, q)
  <2>1. s \in Seq(Buffer) /\ Len(s) = q
    BY <1>2
  <2> HIDE DEF s
  <2>2. Append(s, block) \in Seq(Buffer)
    BY <2>1, AppendProperties
  <2>3. Len(Append(s, block)) = q + 1
    BY <2>1, AppendProperties
  <2>4. \A i \in 1..Len(s) : Append(s, block)[i] = s[i]
    BY <2>1, AppendProperties
  <2>5. Append(s, block)[Len(s) + 1] = block
    BY <2>1, AppendProperties, ZenonT(60)
  <2> QED
    BY <2>1, <2>2, <2>3, <2>4, <2>5 DEF s
<1>4. block = BlocksOf(m, q + 1)[q + 1]
  <2>1. BlocksOf(m, q + 1)[q + 1] = [k \in 1..64 |-> m[64 * ((q + 1) - 1) + k]]
    BY DEF BlocksOf
  <2>2. (q + 1) - 1 = q
    OBVIOUS
  <2>3. block = [k \in 1..64 |-> m[64 * q + k]]
    BY DEF Buffer
  <2> QED
    BY <2>1, <2>2, <2>3
<1>5. \A i \in 1..q : BlocksOf(m, q + 1)[i] = BlocksOf(m, q)[i]
  BY DEF BlocksOf
<1>6. \A i \in 1..(q + 1) : Append(BlocksOf(m, q), block)[i] = BlocksOf(m, q + 1)[i]
  <2> TAKE i \in 1..(q + 1)
  <2>1. i \in 1..q \/ i = q + 1
    OBVIOUS
  <2> QED
    BY <1>3, <1>4, <1>5, <2>1
<1> QED
  BY <1>2, <1>3, <1>6, SeqEqual DEF Compress

(* Compressing the whole blocks of some bytes. *)
LEMMA ChainBlocks ==
  ASSUME NEW m \in Seq(Octet), NEW q \in Nat, NEW bytes \in Seq(Octet), NEW p \in Nat,
         p = Len(bytes) \div 64, 64 * (q + p) <= Len(m),
         \A k \in 1..(64 * p) : bytes[k] = m[64 * q + k]
  PROVE  Chain(BlocksOf(m, q), bytes) = BlocksOf(m, q + p)
<1> DEFINE g == [i \in 1..p |-> SubSeq(bytes, 64 * i - 63, 64 * i)]
           b == BlocksOf(m, q)
           c == BlocksOf(m, q + p)
<1>1. Len(m) \in Nat /\ Len(bytes) \in Nat
  BY LenProperties
<1>2. 64 * p <= Len(bytes)
  BY <1>1
<1>3. ASSUME NEW i \in 1..p
      PROVE  g[i] \in Buffer /\ g[i] = [k \in 1..64 |-> m[64 * ((q + i) - 1) + k]]
  <2>1. 64 * i - 63 \in 1..(Len(bytes) + 1) /\ 64 * i \in (64 * i - 63 - 1)..Len(bytes)
    BY <1>1, <1>2
  <2> DEFINE lo == 64 * i - 63
             hi == 64 * i
  <2>2. lo \in 1..(Len(bytes) + 1) /\ hi \in (lo - 1)..Len(bytes) /\ hi - lo + 1 = 64
    BY <2>1
  <2>3. /\ SubSeq(bytes, lo, hi) \in Seq(Octet)
        /\ Len(SubSeq(bytes, lo, hi)) = 64
        /\ SubSeq(bytes, lo, hi) = [k \in 1..64 |-> bytes[lo + k - 1]]
    <3> HIDE DEF lo, hi
    <3>1. /\ SubSeq(bytes, lo, hi) \in Seq(Octet)
          /\ Len(SubSeq(bytes, lo, hi)) = hi - lo + 1
          /\ SubSeq(bytes, lo, hi) = [k \in 1..(hi - lo + 1) |-> bytes[lo + k - 1]]
      BY <2>2, SliceIs
    <3> QED
      BY <2>2, <3>1
  <2>4. g[i] = SubSeq(bytes, 64 * i - 63, 64 * i)
    OBVIOUS
  <2>5. SubSeq(bytes, 64 * i - 63, 64 * i) \in Buffer
    BY <2>3, LenProperties DEF Buffer
  <2>6. \A k \in 1..64 : bytes[(64 * i - 63) + k - 1] = m[64 * ((q + i) - 1) + k]
    <3> TAKE k \in 1..64
    <3>1. (64 * i - 63) + k - 1 \in 1..(64 * p)
      OBVIOUS
    <3>2. 64 * q + ((64 * i - 63) + k - 1) = 64 * ((q + i) - 1) + k
      OBVIOUS
    <3> QED
      BY <3>1, <3>2
  <2> QED
    BY <2>3, <2>4, <2>5, <2>6, ZenonT(60)
<1>4. g \in Seq(Buffer) /\ Len(g) = p
  <2>1. g \in [1..p -> Buffer]
    BY <1>3
  <2> HIDE DEF g
  <2> QED
    BY <2>1, FunctionSeq
<1>5. b \in Seq(Buffer) /\ Len(b) = q
  BY <1>1, BlocksSeq
<1>6. c \in Seq(Buffer) /\ Len(c) = q + p
  <2>1. q + p \in Nat
    OBVIOUS
  <2> QED
    BY <2>1, BlocksSeq
<1>7. \A i \in 1..q : c[i] = b[i]
  BY DEF BlocksOf
<1>8. \A i \in 1..p : c[q + i] = g[i]
  <2> TAKE i \in 1..p
  <2>1. q + i \in 1..(q + p)
    OBVIOUS
  <2>2. c[q + i] = [k \in 1..64 |-> m[64 * ((q + i) - 1) + k]]
    BY <2>1 DEF BlocksOf
  <2> QED
    BY <1>3, <2>2
<1>9. Chain(BlocksOf(m, q), bytes) = b \o g
  BY DEF Chain
<1> HIDE DEF g, b, c
<1>10. b \o g \in Seq(Buffer) /\ Len(b \o g) = q + p
  <2>1. b \o g \in Seq(Buffer)
    BY <1>4, <1>5, ConcatProperties
  <2>2. Len(b \o g) = Len(b) + Len(g)
    BY <1>4, <1>5, ConcatProperties, ZenonT(60)
  <2> QED
    BY <2>1, <2>2, <1>4, <1>5
<1>11. \A i \in 1..(Len(b) + Len(g)) : (b \o g)[i] = IF i <= Len(b) THEN b[i] ELSE g[i - Len(b)]
  BY <1>4, <1>5, ConcatProperties, ZenonT(60)
<1>12. \A i \in 1..(q + p) : (b \o g)[i] = c[i]
  <2> TAKE i \in 1..(q + p)
  <2>1. CASE i <= q
    BY <2>1, <1>4, <1>5, <1>7, <1>11
  <2>2. CASE ~(i <= q)
    <3>1. i - q \in 1..p /\ q + (i - q) = i
      BY <2>2
    <3>2. (b \o g)[i] = g[i - q]
      BY <2>2, <1>4, <1>5, <1>11
    <3>3. c[q + (i - q)] = g[i - q]
      BY <3>1, <1>8
    <3> QED
      BY <3>1, <3>2, <3>3
  <2> QED
    BY <2>1, <2>2
<1>13. b \o g = c
  BY <1>6, <1>10, <1>12, SeqEqual
<1> QED
  BY <1>9, <1>13 DEF c

-----------------------------------------------------------------------------
(* A context that has taken in the message m, its count in units of which a byte has u. *)
Holds(ctx, m, u) ==
  /\ ctx = [state |-> BlocksOf(m, Len(m) \div 64), buf |-> ctx.buf, count |-> u * Len(m)]
  /\ ctx.buf \in Buffer
  /\ \A k \in 1..(Len(m) % 64) : ctx.buf[k] = m[64 * (Len(m) \div 64) + k]

(* The bytes of a concatenation. *)
LEMMA Joined ==
  ASSUME NEW m \in Seq(Octet), NEW d \in Seq(Octet)
  PROVE  /\ m \o d \in Seq(Octet) /\ Len(m \o d) = Len(m) + Len(d)
         /\ \A j \in 1..Len(m) : (m \o d)[j] = m[j]
         /\ \A j \in 1..Len(d) : (m \o d)[Len(m) + j] = d[j]
<1>1. Len(m) \in Nat /\ Len(d) \in Nat
  BY LenProperties
<1>2. m \o d \in Seq(Octet)
  BY ConcatProperties
<1>3. Len(m \o d) = Len(m) + Len(d)
  BY ConcatProperties
<1>4. \A i \in 1..(Len(m) + Len(d)) : (m \o d)[i] = IF i <= Len(m) THEN m[i] ELSE d[i - Len(m)]
  BY ConcatProperties
<1>5. \A j \in 1..Len(m) : (m \o d)[j] = m[j]
  BY <1>1, <1>4
<1>6. ASSUME NEW j \in 1..Len(d) PROVE (m \o d)[Len(m) + j] = d[j]
  <2>1. Len(m) + j \in 1..(Len(m) + Len(d)) /\ ~(Len(m) + j <= Len(m)) /\ (Len(m) + j) - Len(m) = j
    BY <1>1
  <2> QED
    BY <2>1, <1>4
<1> QED
  BY <1>2, <1>3, <1>5, <1>6

(* Whole blocks and the rest. *)
LEMMA WholeBlocks ==
  ASSUME NEW n \in Nat
  PROVE  n \div 64 \in Nat /\ n % 64 \in 0..63 /\ n = 64 * (n \div 64) + (n % 64)
OBVIOUS

(* Blocks and rest of a length. *)
LEMMA BlockCount ==
  ASSUME NEW n \in Nat, NEW q \in Nat, NEW r \in 0..63, n = 64 * q + r
  PROVE  n \div 64 = q /\ n % 64 = r
OBVIOUS

(* Whole blocks straight from the bytes, what is left into the buffer. *)
LEMMA RestHolds ==
  ASSUME NEW t \in Seq(Octet), NEW q \in Nat, NEW rest \in Seq(Octet), NEW filled \in Buffer, NEW u \in Nat,
         Len(t) = 64 * q + Len(rest), \A k \in 1..Len(rest) : rest[k] = t[64 * q + k]
  PROVE  Holds([state |-> Chain(BlocksOf(t, q), rest),
                buf |-> Patch(filled, 0, SubSeq(rest, 64 * (Len(rest) \div 64) + 1, Len(rest))),
                count |-> u * Len(t)], t, u)
<1> DEFINE p == Len(rest) \div 64
           w == Len(rest) % 64
           tail == SubSeq(rest, 64 * p + 1, Len(rest))
           new == Patch(filled, 0, tail)
           out == [state |-> Chain(BlocksOf(t, q), rest), buf |-> new, count |-> u * Len(t)]
<1>1. Len(rest) \in Nat /\ Len(t) \in Nat
  BY LenProperties
<1>2. p \in Nat /\ w \in 0..63 /\ Len(rest) = 64 * p + w
  BY <1>1, WholeBlocks
<1> HIDE DEF p, w, tail, new, out
<1>3. /\ tail \in Seq(Octet) /\ Len(tail) = w
      /\ \A k \in 1..w : tail[k] = rest[64 * p + k]
  <2> DEFINE n == 64 * p
  <2>1. n \in 0..Len(rest) /\ Len(rest) - n = w
    BY <1>1, <1>2
  <2>2. tail = SubSeq(rest, n + 1, Len(rest))
    BY DEF tail
  <2> HIDE DEF n
  <2>3. /\ tail \in Seq(Octet) /\ Len(tail) = Len(rest) - n
        /\ \A k \in 1..(Len(rest) - n) : tail[k] = rest[n + k]
    BY <2>1, <2>2, DropIs
  <2> QED
    BY <2>1, <2>3 DEF n
<1>4. Chain(BlocksOf(t, q), rest) = BlocksOf(t, q + p)
  <2>1. 64 * (q + p) <= Len(t) /\ \A k \in 1..(64 * p) : rest[k] = t[64 * q + k]
    BY <1>1, <1>2
  <2>2. p = Len(rest) \div 64
    BY DEF p
  <2> QED
    BY <2>1, <2>2, <1>2, ChainBlocks, ZenonT(60)
<1>5. Len(t) \div 64 = q + p /\ Len(t) % 64 = w
  <2> DEFINE n == q + p
  <2>1. n \in Nat /\ Len(t) = 64 * n + w
    BY <1>1, <1>2
  <2> HIDE DEF n
  <2>2. Len(t) \div 64 = n /\ Len(t) % 64 = w
    BY <2>1, <1>1, <1>2, BlockCount
  <2> QED
    BY <2>2 DEF n
<1>6. new \in Buffer /\ \A k \in 1..w : new[k] = tail[k]
  <2>1. 0 \in Nat /\ 0 + Len(tail) <= 64
    BY <1>2, <1>3
  <2>2. /\ Patch(filled, 0, tail) \in Buffer
        /\ \A j \in 1..Len(tail) : Patch(filled, 0, tail)[0 + j] = tail[j]
    BY <2>1, <1>3, PatchAt
  <2>3. \A k \in 1..w : 0 + k = k
    BY <1>2
  <2> QED
    BY <2>2, <2>3, <1>3 DEF new
<1>7. \A k \in 1..w : new[k] = t[64 * (q + p) + k]
  <2> TAKE k \in 1..w
  <2>1. 64 * p + k \in 1..Len(rest) /\ 64 * q + (64 * p + k) = 64 * (q + p) + k
    BY <1>1, <1>2
  <2>2. new[k] = rest[64 * p + k]
    BY <1>3, <1>6
  <2> QED
    BY <2>1, <2>2
<1>8. out = [state |-> BlocksOf(t, q + p), buf |-> new, count |-> u * Len(t)]
  BY <1>4 DEF out
<1>9. out.buf = new
  BY <1>8
<1>10. Holds(out, t, u)
  BY <1>5, <1>6, <1>7, <1>8, <1>9 DEF Holds
<1> QED
  BY <1>10 DEF out, new, tail, p

(* Taking in a piece of data: whatever the buffer kept is overwritten. *)
LEMMA AbsorbHolds ==
  ASSUME NEW m \in Seq(Octet), NEW data \in Seq(Octet), NEW u \in Nat, NEW ctx, Holds(ctx, m, u)
  PROVE  Holds(Absorb(ctx, Len(m) % 64, data, u * Len(data)), m \o data, u)
<1> DEFINE L == Len(m)
           D == Len(data)
           q == L \div 64
           r == L % 64
           t == m \o data
           buf == ctx.buf
           out == Absorb(ctx, r, data, u * D)
<1>0. L \in Nat /\ D \in Nat
  BY LenProperties
<1>1. L \in Nat /\ D \in Nat /\ q \in Nat /\ r \in 0..63 /\ L = 64 * q + r
  <2> HIDE DEF L, D
  <2> QED
    BY <1>0, WholeBlocks
<1>2. /\ t \in Seq(Octet) /\ Len(t) = L + D
      /\ \A j \in 1..L : t[j] = m[j]
      /\ \A j \in 1..D : t[L + j] = data[j]
  BY Joined
<1>3. /\ ctx = [state |-> BlocksOf(m, q), buf |-> buf, count |-> u * L]
      /\ buf \in Buffer
      /\ \A k \in 1..r : buf[k] = m[64 * q + k]
  BY DEF Holds
<1> HIDE DEF L, D, q, r, t, buf
<1>4. ctx.state = BlocksOf(m, q) /\ ctx.count = u * L
  BY <1>3
<1>5. u * L + u * D = u * (L + D)
  BY <1>1
<1>6. BlocksOf(t, q) = BlocksOf(m, q)
  <2>1. 64 * q <= L /\ 64 * q <= Len(t) /\ \A j \in 1..(64 * q) : t[j] = m[j]
    BY <1>1, <1>2
  <2> QED
    BY <2>1, <1>1, <1>2, PrefixBlocks DEF L
<1>7. \A k \in 1..r : buf[k] = t[64 * q + k]
  <2> TAKE k \in 1..r
  <2>1. 64 * q + k \in 1..L
    BY <1>1
  <2> QED
    BY <2>1, <1>2, <1>3
<1>8. \A j \in 1..D : data[j] = t[64 * q + (r + j)]
  <2> TAKE j \in 1..D
  <2>1. 64 * q + (r + j) = L + j
    BY <1>1
  <2> QED
    BY <2>1, <1>2
<1>9. CASE D < 64 - r
  <2> DEFINE new == Patch(buf, r, data)
  <2>1. out = [ctx EXCEPT !.buf = new, !.count = @ + u * D]
    BY <1>9 DEF Absorb, D, buf
  <2>2. out = [state |-> BlocksOf(m, q), buf |-> new, count |-> u * (L + D)]
    BY <2>1, <1>3, <1>4, <1>5
  <2>3. r \in Nat /\ r + Len(data) <= 64
    BY <1>1, <1>9 DEF D
  <2>4. /\ new \in Buffer
        /\ \A j \in 1..D : new[r + j] = data[j]
        /\ \A k \in 1..64 : k <= r \/ k > r + D => new[k] = buf[k]
    BY <2>3, <1>3, PatchAt DEF D
  <2> HIDE DEF new
  <2>5. (L + D) \div 64 = q /\ (L + D) % 64 = r + D
    <3>1. L + D \in Nat /\ r + D \in 0..63 /\ L + D = 64 * q + (r + D)
      BY <1>1, <1>9
    <3> QED
      BY <3>1, <1>1, BlockCount
  <2>6. \A k \in 1..(r + D) : new[k] = t[64 * q + k]
    <3> TAKE k \in 1..(r + D)
    <3>1. k \in 1..64
      BY <1>1, <1>9
    <3>2. CASE k <= r
      <4>1. new[k] = buf[k]
        BY <3>1, <3>2, <2>4
      <4>2. k \in 1..r
        BY <3>2, <1>1
      <4> QED
        BY <4>1, <4>2, <1>7
    <3>3. CASE k > r
      <4>1. PICK j \in 1..D : k = r + j
        <5>1. k - r \in 1..D /\ k = r + (k - r)
          BY <3>3, <1>1
        <5> QED
          BY <5>1
      <4> QED
        BY <4>1, <2>4, <1>8
    <3> QED
      BY <3>1, <3>2, <3>3, <1>1
  <2> HIDE DEF out
  <2>7. out.buf = new
    BY <2>2
  <2>8. Holds(out, t, u)
    BY <2>2, <2>4, <2>5, <2>6, <2>7, <1>2, <1>6 DEF Holds
  <2> QED
    BY <2>8 DEF out, t, L, D, r
<1>10. CASE ~(D < 64 - r)
  <2> DEFINE head == SubSeq(data, 1, 64 - r)
             filled == Patch(buf, r, head)
             rest == SubSeq(data, 65 - r, D)
  <2>1. out = [state |-> Chain(Compress(BlocksOf(m, q), filled), rest),
               buf |-> Patch(filled, 0, SubSeq(rest, 64 * (Len(rest) \div 64) + 1, Len(rest))),
               count |-> u * (L + D)]
    BY <1>4, <1>5, <1>10 DEF Absorb, D, buf
  <2> HIDE DEF head, rest, filled, out
  <2>2. /\ head \in Seq(Octet) /\ Len(head) = 64 - r
        /\ \A k \in 1..(64 - r) : head[k] = data[k]
    <3>1. 64 - r \in 0..Len(data)
      BY <1>1, <1>10 DEF D
    <3> QED
      BY <3>1, TakeIs DEF head
  <2>3. /\ rest \in Seq(Octet) /\ Len(rest) = D - (64 - r) /\ Len(rest) \in Nat
        /\ \A k \in 1..Len(rest) : rest[k] = data[(64 - r) + k]
    <3> DEFINE n == 64 - r
    <3>1. n \in 0..Len(data) /\ D = Len(data) /\ D - n \in Nat
      BY <1>1, <1>10 DEF D
    <3>2. rest = SubSeq(data, n + 1, D)
      <4>1. n + 1 = 65 - r
        BY <1>1
      <4> QED
        BY <4>1 DEF rest
    <3> HIDE DEF n
    <3>3. /\ rest \in Seq(Octet) /\ Len(rest) = D - n
          /\ \A k \in 1..(D - n) : rest[k] = data[n + k]
      BY <3>1, <3>2, DropIs
    <3> QED
      BY <3>1, <3>3 DEF n
  <2>6. /\ filled \in Buffer
        /\ \A j \in 1..(64 - r) : filled[r + j] = head[j]
        /\ \A k \in 1..64 : k <= r => filled[k] = buf[k]
    <3>1. r \in Nat /\ r + Len(head) <= 64
      BY <1>1, <2>2
    <3>2. /\ Patch(buf, r, head) \in Buffer
          /\ \A j \in 1..Len(head) : Patch(buf, r, head)[r + j] = head[j]
          /\ \A k \in 1..64 : k <= r \/ k > r + Len(head) => Patch(buf, r, head)[k] = buf[k]
      BY <3>1, <2>2, <1>3, PatchAt
    <3> QED
      BY <3>2, <2>2 DEF filled
  <2>7. \A k \in 1..64 : filled[k] = t[64 * q + k]
    <3> TAKE k \in 1..64
    <3>1. CASE k <= r
      <4>1. k \in 1..r
        BY <3>1, <1>1
      <4> QED
        BY <4>1, <3>1, <2>6, <1>7
    <3>2. CASE ~(k <= r)
      <4>1. PICK j \in 1..(64 - r) : k = r + j
        <5>1. k - r \in 1..(64 - r) /\ k = r + (k - r)
          BY <3>2, <1>1
        <5> QED
          BY <5>1
      <4>2. j \in 1..D
        BY <1>1, <1>10
      <4>3. filled[k] = data[j]
        BY <4>1, <2>2, <2>6
      <4> QED
        BY <4>1, <4>2, <4>3, <1>8
    <3> QED
      BY <3>1, <3>2
  <2>8. L + D = 64 * (q + 1) + Len(rest)
    <3> DEFINE n == Len(rest)
    <3>1. n = D - (64 - r) /\ n \in Nat
      BY <2>3
    <3> HIDE DEF n, L, D, q, r
    <3>2. L + D = 64 * (q + 1) + n
      BY <1>1, <3>1
    <3> QED
      BY <3>2 DEF n
  <2>9. \A k \in 1..Len(rest) : rest[k] = t[64 * (q + 1) + k]
    <3> TAKE k \in 1..Len(rest)
    <3>1. (64 - r) + k \in 1..D /\ 64 * q + (r + ((64 - r) + k)) = 64 * (q + 1) + k
      BY <1>1, <1>10, <2>3
    <3>2. rest[k] = data[(64 - r) + k]
      BY <2>3
    <3> QED
      BY <3>1, <3>2, <1>8
  <2>10. Compress(BlocksOf(m, q), filled) = BlocksOf(t, q + 1)
    <3>1. 64 * q + 64 <= Len(t)
      BY <1>1, <1>2, <2>3, <2>8
    <3> QED
      BY <3>1, <1>1, <1>2, <1>6, <2>6, <2>7, CompressBlock, ZenonT(60)
  <2>11. Holds([state |-> Chain(BlocksOf(t, q + 1), rest),
                buf |-> Patch(filled, 0, SubSeq(rest, 64 * (Len(rest) \div 64) + 1, Len(rest))),
                count |-> u * Len(t)], t, u)
    <3> DEFINE n == q + 1
    <3>1. n \in Nat /\ Len(t) = 64 * n + Len(rest) /\ \A k \in 1..Len(rest) : rest[k] = t[64 * n + k]
      <4>1. n \in Nat
        BY <1>1
      <4>2. Len(t) = 64 * n + Len(rest)
        BY <1>2, <2>8
      <4>3. \A k \in 1..Len(rest) : rest[k] = t[64 * n + k]
        BY <2>9
      <4> QED
        BY <4>1, <4>2, <4>3
    <3> HIDE DEF n
    <3>2. t \in Seq(Octet) /\ rest \in Seq(Octet) /\ filled \in Buffer
      BY <1>2, <2>3, <2>6
    <3>3. Holds([state |-> Chain(BlocksOf(t, n), rest),
                 buf |-> Patch(filled, 0, SubSeq(rest, 64 * (Len(rest) \div 64) + 1, Len(rest))),
                 count |-> u * Len(t)], t, u)
      BY <3>1, <3>2, RestHolds
    <3> QED
      BY <3>3 DEF n
  <2>12. Holds(out, t, u)
    BY <2>1, <2>10, <2>11, <1>2
  <2> QED
    BY <2>12 DEF out, t, L, D, r
<1> QED
  BY <1>9, <1>10

(* The three updates. *)
LEMMA UpdateHolds ==
  ASSUME NEW m \in Seq(Octet), NEW data \in Seq(Octet), NEW ctx, Holds(ctx, m, 1)
  PROVE  Holds(sha256_update(ctx, data), m \o data, 1)
<1>1. Len(m) \in Nat /\ Len(data) \in Nat
  BY LenProperties
<1>2. ctx.count = Len(m)
  BY <1>1 DEF Holds
<1>3. 1 * Len(data) = Len(data) /\ 1 \in Nat
  BY <1>1
<1>4. Holds(Absorb(ctx, Len(m) % 64, data, 1 * Len(data)), m \o data, 1)
  BY <1>3, AbsorbHolds
<1> QED
  BY <1>2, <1>3, <1>4 DEF sha256_update

(* An update of yespower's code, whose count is in bits. *)
LEMMA YpUpdateHolds ==
  ASSUME NEW m \in Seq(Octet), NEW data \in Seq(Octet), NEW ctx, Holds(ctx, m, 8)
  PROVE  Holds(YpUpdate(ctx, data), m \o data, 8)
<1>1. Len(m) \in Nat /\ Len(data) \in Nat
  BY LenProperties
<1>2. (ctx.count \div 8) % 64 = Len(m) % 64
  <2>1. ctx.count = 8 * Len(m)
    BY DEF Holds
  <2>2. (8 * Len(m)) \div 8 = Len(m)
    BY <1>1
  <2> QED
    BY <2>1, <2>2
<1>3. CASE data = <<>>
  <2>1. m \o data = m
    BY <1>3, ConcatEmptySeq
  <2> QED
    BY <1>3, <2>1 DEF YpUpdate
<1>4. CASE data # <<>>
  <2>1. Holds(Absorb(ctx, Len(m) % 64, data, 8 * Len(data)), m \o data, 8)
    BY AbsorbHolds
  <2> QED
    BY <1>2, <1>4, <2>1 DEF YpUpdate
<1> QED
  BY <1>3, <1>4

(* sha224_short is the same update. *)
LEMMA ShortHolds ==
  ASSUME NEW m \in Seq(Octet), NEW data \in Seq(Octet), NEW ctx, Holds(ctx, m, 1)
  PROVE  Holds(sha224_short(ctx, data), m \o data, 1)
<1>1. sha224_short(ctx, data) = sha256_update(ctx, data)
  BY DEF sha224_short, sha256_update
<1> QED
  BY <1>1, UpdateHolds

(* Blocks straight from the data when the buffer is empty. *)
LEMMA SphHolds ==
  ASSUME NEW m \in Seq(Octet), NEW data \in Seq(Octet), NEW ctx, NEW aligned \in BOOLEAN, Holds(ctx, m, 1)
  PROVE  Holds(sph_sha256(ctx, data, aligned), m \o data, 1)
<1> DEFINE L == Len(m)
           D == Len(data)
           q == L \div 64
           r == L % 64
           n == IF r > 0 THEN 64 - r ELSE 0
           head == SubSeq(data, 1, n)
           rest == SubSeq(data, n + 1, D)
           first == IF n > 0 THEN sha224_short(ctx, head) ELSE ctx
           direct == [state |-> Chain(first.state, rest),
                      buf |-> Patch(first.buf, 0, SubSeq(rest, 64 * (Len(rest) \div 64) + 1, Len(rest))),
                      count |-> first.count + Len(rest)]
           h == m \o head
           t == m \o data
<1>1. L \in Nat /\ D \in Nat
  BY LenProperties
<1>2. q \in Nat /\ r \in 0..63 /\ L = 64 * q + r
  <2> HIDE DEF L
  <2> QED
    BY <1>1, WholeBlocks
<1>3. ctx.count = L
  BY <1>1 DEF Holds
<1>4. sph_sha256(ctx, data, aligned) = IF D < 128 THEN sha224_short(ctx, data)
                                        ELSE IF ~aligned THEN sha224_short(first, rest) ELSE direct
  BY <1>3 DEF sph_sha256
<1> HIDE DEF L, q, r
<1>5. CASE D < 128
  BY <1>4, <1>5, ShortHolds
<1>6. CASE ~(D < 128)
  <2>1. n \in 0..D /\ n \in 0..64 /\ (n > 0 => r + n = 64) /\ (~(n > 0) => r = 0 /\ n = 0)
    BY <1>1, <1>2, <1>6
  <2> HIDE DEF n
  <2>2. head \in Seq(Octet) /\ Len(head) = n /\ rest \in Seq(Octet) /\ Len(rest) = D - n
    BY <2>1, TakeIs, DropIs
  <2>3. head \o rest = data
    <3>1. /\ 1 \in 1..(Len(data) + 1) /\ n \in (1 - 1)..Len(data) /\ Len(data) \in n..Len(data)
      BY <2>1, <1>1
    <3>2. SubSeq(data, 1, n) \o SubSeq(data, n + 1, Len(data)) = SubSeq(data, 1, Len(data))
      BY <3>1, ConcatAdjacentSubSeq
    <3> QED
      BY <3>2, SubSeqFull
  <2> HIDE DEF head, rest
  <2>4. h \o rest = t
    <3>0. head \in Seq(Octet) /\ rest \in Seq(Octet)
      BY <2>2
    <3>1. (m \o head) \o rest = m \o (head \o rest)
      BY <3>0, ConcatAssociative, SMTT(60)
    <3> QED
      BY <2>3, <3>1
  <2>5. h \in Seq(Octet) /\ Len(h) = L + n
    BY <2>2, Joined DEF L
  <2>6. Holds(first, h, 1)
    <3>1. CASE n > 0
      BY <3>1, <2>2, ShortHolds
    <3>2. CASE ~(n > 0)
      <4>1. head = <<>>
        BY <3>2, <2>1, <2>2, EmptySeq
      <4>2. h = m
        BY <4>1, ConcatEmptySeq
      <4> QED
        BY <3>2, <4>2
    <3> QED
      BY <3>1, <3>2
  <2> HIDE DEF first
  <2>7. Holds(sha224_short(first, rest), t, 1)
    <3> HIDE DEF h
    <3>1. Holds(sha224_short(first, rest), h \o rest, 1)
      BY <2>2, <2>5, <2>6, ShortHolds
    <3> QED
      BY <3>1, <2>4
  <2>8. PICK a \in Nat : Len(h) = 64 * a
    <3>1. CASE n > 0
      <4>1. L + n = 64 * (q + 1) /\ q + 1 \in Nat
        BY <3>1, <2>1, <1>1, <1>2
      <4> QED
        BY <4>1, <2>5
    <3>2. CASE ~(n > 0)
      BY <3>2, <2>1, <2>5, <1>1, <1>2
    <3> QED
      BY <3>1, <3>2
  <2>9. Holds(direct, t, 1)
    <3> HIDE DEF h, t
    <3>1. Len(h) \div 64 = a /\ Len(h) \in Nat
      BY <2>8
    <3>2. /\ t \in Seq(Octet) /\ Len(t) = Len(h) + Len(rest)
          /\ \A j \in 1..Len(rest) : t[Len(h) + j] = rest[j]
          /\ \A j \in 1..Len(h) : t[j] = h[j]
      <4>1. t = h \o rest
        BY <2>4
      <4> QED
        BY <4>1, <2>2, <2>5, Joined
    <3>3. Len(t) = 64 * a + Len(rest) /\ \A j \in 1..Len(rest) : rest[j] = t[64 * a + j]
      BY <3>2, <2>8
    <3>4. first.buf \in Buffer /\ first.state = BlocksOf(h, a) /\ first.count = Len(h)
      <4>1. /\ first = [state |-> BlocksOf(h, a), buf |-> first.buf, count |-> 1 * Len(h)]
            /\ first.buf \in Buffer
        BY <2>6, <3>1 DEF Holds
      <4>2. 1 * Len(h) = Len(h)
        BY <3>1
      <4> QED
        BY <4>1, <4>2
    <3>5. BlocksOf(t, a) = BlocksOf(h, a)
      <4>1. Len(rest) \in Nat
        BY <2>2, LenProperties
      <4>2. 64 * a <= Len(h) /\ 64 * a <= Len(t) /\ \A j \in 1..(64 * a) : t[j] = h[j]
        BY <4>1, <3>1, <3>2, <2>8
      <4> QED
        BY <4>2, <2>5, <3>2, PrefixBlocks
    <3>6. Holds([state |-> Chain(BlocksOf(t, a), rest),
                 buf |-> Patch(first.buf, 0, SubSeq(rest, 64 * (Len(rest) \div 64) + 1, Len(rest))),
                 count |-> 1 * Len(t)], t, 1)
      BY <2>2, <3>2, <3>3, <3>4, RestHolds, ZenonT(60)
    <3>7. 1 * Len(t) = first.count + Len(rest)
      <4>1. Len(rest) \in Nat
        BY <2>2, LenProperties
      <4> QED
        BY <4>1, <3>1, <3>2, <3>4
    <3> QED
      BY <3>4, <3>5, <3>6, <3>7
  <2> HIDE DEF direct, t
  <2>10. Holds(sph_sha256(ctx, data, aligned), t, 1)
    BY <1>4, <1>6, <2>7, <2>9
  <2> QED
    BY <2>10 DEF t
<1> QED
  BY <1>5, <1>6

-----------------------------------------------------------------------------
(* Padding. *)
LEMMA Width32 ==
  ASSUME NEW n \in Nat
  PROVE  Be32(n) \in Seq(Octet) /\ Len(Be32(n)) = 4
<1>1. /\ (n \div 16777216) % 256 \in Octet /\ (n \div 65536) % 256 \in Octet
      /\ (n \div 256) % 256 \in Octet /\ n % 256 \in Octet
  BY DEF Octet
<1>2. ASSUME NEW a \in Octet, NEW b \in Octet, NEW c \in Octet, NEW d \in Octet
      PROVE  <<a, b, c, d>> \in Seq(Octet) /\ Len(<<a, b, c, d>>) = 4
  OBVIOUS
<1> QED
  BY <1>1, <1>2 DEF Be32

(* A count takes 8 bytes. *)
LEMMA Width64 ==
  ASSUME NEW n \in Nat
  PROVE  Be64(n) \in Seq(Octet) /\ Len(Be64(n)) = 8
<1> DEFINE high == Be32((n \div 65536) \div 65536)
           low == Be32(n)
<1>1. (n \div 65536) \div 65536 \in Nat
  OBVIOUS
<1>2. high \in Seq(Octet) /\ Len(high) = 4 /\ low \in Seq(Octet) /\ Len(low) = 4
  BY <1>1, Width32
<1>3. Be64(n) = high \o low
  BY DEF Be64
<1> HIDE DEF high, low
<1>4. high \o low \in Seq(Octet) /\ Len(high \o low) = Len(high) + Len(low)
  BY <1>2, Joined
<1> QED
  BY <1>2, <1>3, <1>4

(* What a run of zeros is. *)
LEMMA ZerosAre ==
  ASSUME NEW n \in Nat
  PROVE  Zeros(n) \in Seq(Octet) /\ Len(Zeros(n)) = n /\ \A k \in 1..n : Zeros(n)[k] = 0
<1>1. Zeros(n) \in [1..n -> Octet] /\ \A k \in 1..n : Zeros(n)[k] = 0
  BY DEF Zeros, Octet
<1> QED
  BY <1>1, FunctionSeq

(* The mark as a sequence. *)
LEMMA OneByte == <<128>> \in Seq(Octet) /\ Len(<<128>>) = 1 /\ <<128>>[1] = 128
BY DEF Octet

(* The padded message: its length, and its bytes behind the message. *)
LEMMA PaddedIs ==
  ASSUME NEW m \in Seq(Octet), NEW z \in Nat, z = (119 - (Len(m) % 64)) % 64
  PROVE  /\ Padded(m) \in Seq(Octet) /\ Len(Padded(m)) = Len(m) + z + 9
         /\ \A j \in 1..Len(m) : Padded(m)[j] = m[j]
         /\ Padded(m)[Len(m) + 1] = 128
         /\ \A j \in 1..z : Padded(m)[Len(m) + 1 + j] = 0
         /\ \A j \in 1..8 : Padded(m)[Len(m) + 1 + z + j] = Be64(8 * Len(m))[j]
<1> DEFINE L == Len(m)
           a == m \o <<128>>
           b == a \o Zeros(z)
           e == Be64(8 * Len(m))
           c == b \o e
<1>1. L \in Nat
  BY LenProperties
<1>2. Padded(m) = c
  BY DEF Padded
<1>3. /\ a \in Seq(Octet) /\ Len(a) = L + 1
      /\ \A j \in 1..L : a[j] = m[j]
      /\ a[L + 1] = 128
  <2>1. /\ a \in Seq(Octet) /\ Len(a) = Len(m) + Len(<<128>>)
        /\ \A j \in 1..Len(m) : a[j] = m[j]
        /\ \A j \in 1..Len(<<128>>) : a[Len(m) + j] = <<128>>[j]
    BY OneByte, Joined
  <2>2. Len(<<128>>) = 1 /\ <<128>>[1] = 128 /\ 1 \in 1..1
    BY OneByte
  <2> HIDE DEF a
  <2> QED
    BY <2>1, <2>2
<1>4. e \in Seq(Octet) /\ Len(e) = 8
  <2>1. 8 * L \in Nat
    BY <1>1
  <2> QED
    BY <2>1, Width64
<1> HIDE DEF a, e
<1>5. /\ b \in Seq(Octet) /\ Len(b) = Len(a) + z
      /\ \A j \in 1..Len(a) : b[j] = a[j]
      /\ \A j \in 1..z : b[Len(a) + j] = 0
  <2>1. Zeros(z) \in Seq(Octet) /\ Len(Zeros(z)) = z /\ \A k \in 1..z : Zeros(z)[k] = 0
    BY ZerosAre
  <2>2. /\ b \in Seq(Octet) /\ Len(b) = Len(a) + Len(Zeros(z))
        /\ \A j \in 1..Len(a) : b[j] = a[j]
        /\ \A j \in 1..Len(Zeros(z)) : b[Len(a) + j] = Zeros(z)[j]
    <3>1. a \in Seq(Octet) /\ Zeros(z) \in Seq(Octet)
      BY <1>3, <2>1
    <3> QED
      BY <3>1, Joined
  <2> HIDE DEF b
  <2> QED
    BY <2>1, <2>2
<1> HIDE DEF b
<1>6. /\ c \in Seq(Octet) /\ Len(c) = Len(b) + 8
      /\ \A j \in 1..Len(b) : c[j] = b[j]
      /\ \A j \in 1..8 : c[Len(b) + j] = e[j]
  <2>1. /\ c \in Seq(Octet) /\ Len(c) = Len(b) + Len(e)
        /\ \A j \in 1..Len(b) : c[j] = b[j]
        /\ \A j \in 1..Len(e) : c[Len(b) + j] = e[j]
    BY <1>4, <1>5, Joined
  <2> QED
    BY <2>1, <1>4
<1> HIDE DEF c, L
<1>7. Len(a) = L + 1 /\ Len(b) = (L + 1) + z /\ Len(c) = L + z + 9
  BY <1>1, <1>3, <1>5, <1>6
<1>8. ASSUME NEW j \in 1..L PROVE c[j] = m[j]
  <2>1. j \in 1..Len(a) /\ j \in 1..Len(b)
    BY <1>1, <1>7
  <2> QED
    BY <2>1, <1>3, <1>5, <1>6, ZenonT(60)
<1>9. c[L + 1] = 128
  <2>1. L + 1 \in 1..Len(a) /\ L + 1 \in 1..Len(b)
    BY <1>1, <1>7
  <2> QED
    BY <2>1, <1>3, <1>5, <1>6, ZenonT(60)
<1>10. ASSUME NEW j \in 1..z PROVE c[(L + 1) + j] = 0
  <2>1. (L + 1) + j \in 1..Len(b)
    BY <1>1, <1>7
  <2>2. b[(L + 1) + j] = 0
    BY <1>5, <1>7
  <2> QED
    BY <2>1, <2>2, <1>6
<1>11. ASSUME NEW j \in 1..8 PROVE c[((L + 1) + z) + j] = e[j]
  BY <1>6, <1>7
<1> QED
  BY <1>2, <1>6, <1>7, <1>8, <1>9, <1>10, <1>11 DEF L, e

(* A chain of whole blocks from the start. *)
LEMMA WholeChain ==
  ASSUME NEW m \in Seq(Octet), NEW p \in Nat, Len(m) = 64 * p
  PROVE  Chain(Iv, m) = BlocksOf(m, p)
<1>1. Len(m) \div 64 = p
  OBVIOUS
<1>2. Iv = BlocksOf(m, 0)
  <2>1. 0 \in Nat /\ 64 * 0 <= Len(m)
    OBVIOUS
  <2>2. BlocksOf(m, 0) \in Seq(Buffer) /\ Len(BlocksOf(m, 0)) = 0
    BY <2>1, BlocksSeq
  <2> QED
    BY <2>2, EmptySeq DEF Iv
<1>3. Chain(BlocksOf(m, 0), m) = BlocksOf(m, 0 + p)
  <2> DEFINE o == 0
  <2>1. o \in Nat /\ p = Len(m) \div 64 /\ 64 * (o + p) <= Len(m) /\ o + p = p
        /\ \A k \in 1..(64 * p) : m[k] = m[64 * o + k]
    BY <1>1
  <2> HIDE DEF o
  <2>2. Chain(BlocksOf(m, o), m) = BlocksOf(m, o + p)
    BY <2>1, ChainBlocks, ZenonT(60)
  <2> QED
    BY <2>2 DEF o
<1> QED
  BY <1>2, <1>3

(* The bit count put at the end of a buffer. *)
LEMMA CountPut ==
  ASSUME NEW buf \in Buffer, NEW e \in Seq(Octet), Len(e) = 8
  PROVE  /\ Patch(buf, 56, e) \in Buffer
         /\ \A j \in 1..8 : Patch(buf, 56, e)[56 + j] = e[j]
         /\ \A k \in 1..56 : Patch(buf, 56, e)[k] = buf[k]
<1> DEFINE at == 56
<1>1. at \in Nat /\ at + Len(e) <= 64 /\ at = 56
  OBVIOUS
<1>2. \A k \in 1..at : k \in 1..64 /\ k <= at
  OBVIOUS
<1> HIDE DEF at
<1>3. /\ Patch(buf, at, e) \in Buffer
      /\ \A j \in 1..Len(e) : Patch(buf, at, e)[at + j] = e[j]
      /\ \A k \in 1..64 : k <= at \/ k > at + Len(e) => Patch(buf, at, e)[k] = buf[k]
  BY <1>1, PatchAt
<1>4. \A k \in 1..at : Patch(buf, at, e)[k] = buf[k]
  BY <1>2, <1>3
<1>5. \A j \in 1..8 : Patch(buf, at, e)[at + j] = e[j]
  BY <1>3
<1> QED
  BY <1>1, <1>3, <1>4, <1>5

(* A buffer with the end of the message, the mark and zeros up to top. *)
Marked(buf, m, q, r, top) ==
  /\ buf \in Buffer
  /\ \A k \in 1..r : buf[k] = m[64 * q + k]
  /\ buf[r + 1] = 128
  /\ \A k \in (r + 2)..top : buf[k] = 0

(* A message that ends before the count: one more block. *)
LEMMA OneMore ==
  ASSUME NEW m \in Seq(Octet), NEW q \in Nat, NEW r \in 0..55, Len(m) = 64 * q + r,
         NEW buf, Marked(buf, m, q, r, 56)
  PROVE  LastBlock(BlocksOf(m, q), buf, 8 * Len(m)) = Chain(Iv, Padded(m))
<1> DEFINE L == Len(m)
           P == Padded(m)
           z == 55 - r
           e == Be64(8 * L)
           block == Patch(buf, 56, e)
<1>1. L \in Nat /\ L = 64 * q + r /\ z \in Nat /\ z = (119 - (Len(m) % 64)) % 64
  <2>1. L \in Nat
    BY LenProperties
  <2>2. L % 64 = r
    BY <2>1, BlockCount
  <2>3. 55 - r \in Nat /\ 55 - r = (119 - r) % 64
    OBVIOUS
  <2> QED
    BY <2>1, <2>2, <2>3
<1>2. e \in Seq(Octet) /\ Len(e) = 8
  <2>1. 8 * L \in Nat
    BY <1>1
  <2> QED
    BY <2>1, Width64
<1> HIDE DEF z, e
<1>3. /\ P \in Seq(Octet) /\ Len(P) = L + z + 9
      /\ \A j \in 1..L : P[j] = m[j]
      /\ P[L + 1] = 128
      /\ \A j \in 1..z : P[L + 1 + j] = 0
      /\ \A j \in 1..8 : P[L + 1 + z + j] = e[j]
  BY <1>1, PaddedIs, ZenonT(60) DEF e
<1>4. /\ block \in Buffer
      /\ \A j \in 1..8 : block[56 + j] = e[j]
      /\ \A k \in 1..56 : block[k] = buf[k]
  <2>1. buf \in Buffer
    BY DEF Marked
  <2>2. block \in Buffer
    BY <2>1, <1>2, CountPut
  <2>3. \A j \in 1..8 : block[56 + j] = e[j]
    BY <2>1, <1>2, CountPut
  <2>4. \A k \in 1..56 : block[k] = buf[k]
    BY <2>1, <1>2, CountPut
  <2> QED
    BY <2>2, <2>3, <2>4
<1> HIDE DEF L, P, block
<1>5. \A k \in 1..64 : block[k] = P[64 * q + k]
  <2>0. /\ \A k \in 1..r : buf[k] = m[64 * q + k]
        /\ buf[r + 1] = 128
        /\ \A k \in (r + 2)..56 : buf[k] = 0
    BY DEF Marked
  <2> TAKE k \in 1..64
  <2>1. CASE k <= r
    <3>1. k \in 1..r /\ 64 * q + k \in 1..L /\ k \in 1..56
      BY <2>1, <1>1
    <3>2. block[k] = m[64 * q + k]
      BY <3>1, <1>4, <2>0, ZenonT(60)
    <3> QED
      BY <3>1, <3>2, <1>3
  <2>2. CASE k = r + 1
    <3>1. 64 * q + k = L + 1 /\ k \in 1..56
      BY <2>2, <1>1
    <3>2. block[k] = 128
      BY <3>1, <2>2, <1>4, <2>0, ZenonT(60)
    <3> QED
      BY <3>1, <3>2, <1>3
  <2>3. CASE k > r + 1 /\ k <= 56
    <3>1. /\ k \in (r + 2)..56 /\ k \in 1..56 /\ k - (r + 1) \in 1..z
          /\ L + 1 + (k - (r + 1)) = 64 * q + k
      BY <2>3, <1>1 DEF z
    <3>2. P[L + 1 + (k - (r + 1))] = 0
      BY <3>1, <1>3
    <3>3. block[k] = 0
      <4>1. block[k] = buf[k]
        BY <3>1, <1>4
      <4>2. buf[k] = 0
        BY <3>1, <2>0
      <4> QED
        BY <4>1, <4>2
    <3> QED
      BY <3>1, <3>2, <3>3
  <2>4. CASE k > 56
    <3>1. /\ k - 56 \in 1..8 /\ 56 + (k - 56) = k
          /\ L + 1 + z + (k - 56) = 64 * q + k
      BY <2>4, <1>1 DEF z
    <3>2. P[L + 1 + z + (k - 56)] = e[k - 56] /\ block[56 + (k - 56)] = e[k - 56]
      BY <3>1, <1>3, <1>4
    <3> QED
      BY <3>1, <3>2
  <2>5. k <= r \/ k = r + 1 \/ (k > r + 1 /\ k <= 56) \/ k > 56
    OBVIOUS
  <2> QED
    BY <2>1, <2>2, <2>3, <2>4, <2>5
<1>6. Len(P) = 64 * q + 64 /\ Len(P) = 64 * (q + 1) /\ q + 1 \in Nat
  BY <1>1, <1>3 DEF z
<1>7. BlocksOf(P, q) = BlocksOf(m, q)
  <2>1. 64 * q <= Len(m) /\ 64 * q <= Len(P)
    BY <1>1, <1>6 DEF L
  <2>2. \A j \in 1..(64 * q) : P[j] = m[j]
    <3> TAKE j \in 1..(64 * q)
    <3>1. j \in 1..L
      BY <1>1
    <3> QED
      BY <3>1, <1>3
  <2> QED
    BY <2>1, <2>2, <1>3, PrefixBlocks
<1>8. Compress(BlocksOf(P, q), block) = BlocksOf(P, q + 1)
  <2>1. 64 * q + 64 <= Len(P)
    BY <1>6
  <2>2. P \in Seq(Octet) /\ block \in Buffer
    BY <1>3, <1>4
  <2> QED
    BY <2>1, <2>2, <1>5, CompressBlock
<1>9. Chain(Iv, P) = BlocksOf(P, q + 1)
  BY <1>3, <1>6, WholeChain
<1>10. LastBlock(BlocksOf(m, q), buf, 8 * Len(m)) = Compress(BlocksOf(m, q), block)
  BY DEF LastBlock, block, e, L
<1> QED
  BY <1>7, <1>8, <1>9, <1>10 DEF P

(* One that does not: two more blocks, the first filled up with zeros. *)
LEMMA TwoMore ==
  ASSUME NEW m \in Seq(Octet), NEW q \in Nat, NEW r \in 56..63, Len(m) = 64 * q + r,
         NEW buf, Marked(buf, m, q, r, 64)
  PROVE  LastBlock(Compress(BlocksOf(m, q), buf), Zeros(64), 8 * Len(m)) = Chain(Iv, Padded(m))
<1> DEFINE L == Len(m)
           P == Padded(m)
           z == 119 - r
           e == Be64(8 * L)
           block == Patch(Zeros(64), 56, e)
<1>1. L \in Nat /\ L = 64 * q + r /\ z \in Nat /\ z = (119 - (Len(m) % 64)) % 64
  <2>1. L \in Nat
    BY LenProperties
  <2>2. L % 64 = r
    <3>1. r \in 0..63
      OBVIOUS
    <3> QED
      BY <2>1, <3>1, BlockCount
  <2>3. 119 - r \in Nat /\ 119 - r = (119 - r) % 64
    OBVIOUS
  <2> QED
    BY <2>1, <2>2, <2>3
<1>2. e \in Seq(Octet) /\ Len(e) = 8
  <2>1. 8 * L \in Nat
    BY <1>1
  <2> QED
    BY <2>1, Width64
<1> HIDE DEF z, e
<1>3. /\ P \in Seq(Octet) /\ Len(P) = L + z + 9
      /\ \A j \in 1..L : P[j] = m[j]
      /\ P[L + 1] = 128
      /\ \A j \in 1..z : P[L + 1 + j] = 0
      /\ \A j \in 1..8 : P[L + 1 + z + j] = e[j]
  BY <1>1, PaddedIs, ZenonT(60) DEF e
<1>4. /\ block \in Buffer
      /\ \A j \in 1..8 : block[56 + j] = e[j]
      /\ \A k \in 1..56 : block[k] = 0
  <2>1. Zeros(64) \in Buffer /\ \A k \in 1..64 : Zeros(64)[k] = 0
    <3>1. \A k \in 1..64 : 0 \in Octet
      BY DEF Octet
    <3> QED
      BY <3>1 DEF Zeros, Buffer
  <2>2. \A k \in 1..56 : block[k] = Zeros(64)[k]
    BY <2>1, <1>2, CountPut, ZenonT(60)
  <2>3. block \in Buffer /\ \A j \in 1..8 : block[56 + j] = e[j]
    BY <2>1, <1>2, CountPut
  <2> HIDE DEF block
  <2>4. \A k \in 1..56 : block[k] = 0
    <3> TAKE k \in 1..56
    <3>1. k \in 1..64
      OBVIOUS
    <3> QED
      BY <3>1, <2>1, <2>2
  <2> QED
    BY <2>3, <2>4
<1> HIDE DEF L, P, block
<1>5. \A k \in 1..64 : buf[k] = P[64 * q + k]
  <2>0. /\ \A k \in 1..r : buf[k] = m[64 * q + k]
        /\ buf[r + 1] = 128
        /\ \A k \in (r + 2)..64 : buf[k] = 0
    BY DEF Marked
  <2> TAKE k \in 1..64
  <2>1. CASE k <= r
    <3>1. k \in 1..r /\ 64 * q + k \in 1..L
      BY <2>1, <1>1
    <3> QED
      BY <3>1, <1>3, <2>0
  <2>2. CASE k = r + 1
    <3>1. 64 * q + k = L + 1
      BY <2>2, <1>1
    <3> QED
      BY <3>1, <2>2, <1>3, <2>0
  <2>3. CASE k > r + 1
    <3>1. /\ k \in (r + 2)..64 /\ k - (r + 1) \in 1..z
          /\ L + 1 + (k - (r + 1)) = 64 * q + k
      BY <2>3, <1>1 DEF z
    <3>2. P[L + 1 + (k - (r + 1))] = 0
      BY <3>1, <1>3
    <3> QED
      BY <3>1, <3>2, <2>0
  <2>4. k <= r \/ k = r + 1 \/ k > r + 1
    OBVIOUS
  <2> QED
    BY <2>1, <2>2, <2>3, <2>4
<1>6. \A k \in 1..64 : block[k] = P[64 * (q + 1) + k]
  <2> TAKE k \in 1..64
  <2>1. CASE k <= 56
    <3>1. /\ (63 - r) + k \in 1..z
          /\ L + 1 + ((63 - r) + k) = 64 * (q + 1) + k
      BY <2>1, <1>1 DEF z
    <3>2. P[L + 1 + ((63 - r) + k)] = 0
      BY <3>1, <1>3
    <3>3. block[k] = 0
      <4>1. k \in 1..56
        BY <2>1
      <4> QED
        BY <4>1, <1>4
    <3> QED
      BY <3>1, <3>2, <3>3
  <2>2. CASE ~(k <= 56)
    <3>1. /\ k - 56 \in 1..8 /\ 56 + (k - 56) = k
          /\ L + 1 + z + (k - 56) = 64 * (q + 1) + k
      BY <2>2, <1>1 DEF z
    <3>2. P[L + 1 + z + (k - 56)] = e[k - 56] /\ block[56 + (k - 56)] = e[k - 56]
      BY <3>1, <1>3, <1>4
    <3> QED
      BY <3>1, <3>2
  <2> QED
    BY <2>1, <2>2
<1>7. Len(P) = 64 * q + 128 /\ Len(P) = 64 * (q + 2) /\ q + 2 \in Nat /\ q + 1 \in Nat /\ (q + 1) + 1 = q + 2
  BY <1>1, <1>3 DEF z
<1>8. BlocksOf(P, q) = BlocksOf(m, q)
  <2>1. 64 * q <= Len(m) /\ 64 * q <= Len(P) /\ \A j \in 1..(64 * q) : P[j] = m[j]
    BY <1>1, <1>3, <1>7, SMTT(60) DEF L
  <2> QED
    BY <2>1, <1>3, PrefixBlocks
<1>9. Compress(BlocksOf(P, q), buf) = BlocksOf(P, q + 1)
  <2>1. 64 * q + 64 <= Len(P)
    BY <1>7
  <2>2. P \in Seq(Octet) /\ buf \in Buffer
    BY <1>3 DEF Marked
  <2> QED
    BY <2>1, <2>2, <1>5, CompressBlock
<1>10. Compress(BlocksOf(P, q + 1), block) = BlocksOf(P, q + 2)
  <2> DEFINE n == q + 1
  <2>1. n \in Nat /\ 64 * n + 64 <= Len(P) /\ n + 1 = q + 2 /\ \A k \in 1..64 : block[k] = P[64 * n + k]
    BY <1>6, <1>7
  <2> HIDE DEF n
  <2>2. Compress(BlocksOf(P, n), block) = BlocksOf(P, n + 1)
    <3>1. P \in Seq(Octet) /\ block \in Buffer
      BY <1>3, <1>4
    <3> QED
      BY <2>1, <3>1, CompressBlock
  <2> QED
    BY <2>1, <2>2 DEF n
<1>11. Chain(Iv, P) = BlocksOf(P, q + 2)
  BY <1>3, <1>7, WholeChain
<1>12. LastBlock(Compress(BlocksOf(m, q), buf), Zeros(64), 8 * Len(m)) = Compress(Compress(BlocksOf(m, q), buf), block)
  BY DEF LastBlock, block, e, L
<1> QED
  BY <1>8, <1>9, <1>10, <1>11, <1>12 DEF P

(* The mark and the zeros behind it, written in two pieces or in one. *)
LEMMA MarkedInTwo ==
  ASSUME NEW m \in Seq(Octet), NEW q \in Nat, NEW r \in 0..63, NEW top \in (r + 1)..64,
         NEW buf \in Buffer, \A k \in 1..r : buf[k] = m[64 * q + k]
  PROVE  Marked(Patch(Patch(buf, r, <<128>>), r + 1, Zeros(top - (r + 1))), m, q, r, top)
<1> DEFINE n == top - (r + 1)
           a == Patch(buf, r, <<128>>)
           b == Patch(a, r + 1, Zeros(n))
<1>1. n \in Nat /\ (r + 1) + n = top /\ r + 1 \in Nat /\ r \in Nat /\ r + 1 \in 1..64
  OBVIOUS
<1> HIDE DEF n
<1>2. /\ a \in Buffer /\ a[r + 1] = 128
      /\ \A k \in 1..64 : k <= r \/ k > r + 1 => a[k] = buf[k]
  <2>1. /\ Len(<<128>>) = 1 /\ <<128>>[1] = 128 /\ r + Len(<<128>>) <= 64 /\ r + Len(<<128>>) = r + 1
        /\ 1 \in 1..Len(<<128>>)
    BY <1>1, OneByte
  <2> DEFINE o == <<128>>
  <2>2. o \in Seq(Octet) /\ Len(o) = 1 /\ o[1] = 128 /\ r + Len(o) <= 64 /\ a = Patch(buf, r, o)
    BY <2>1, OneByte
  <2> HIDE DEF o, a
  <2>0. o \in Seq(Octet) /\ r + Len(o) <= 64 /\ a = Patch(buf, r, o) /\ r \in Nat
    BY <2>2
  <2>3. a \in Buffer
    BY <2>0, PatchAt
  <2>4. \A j \in 1..Len(o) : a[r + j] = o[j]
    BY <2>0, PatchAt
  <2>5. \A k \in 1..64 : k <= r \/ k > r + Len(o) => a[k] = buf[k]
    BY <2>0, PatchAt
  <2>6. a[r + 1] = 128
    BY <2>2, <2>4
  <2> QED
    BY <2>2, <2>3, <2>5, <2>6
<1>3. Zeros(n) \in Seq(Octet) /\ Len(Zeros(n)) = n /\ \A k \in 1..n : Zeros(n)[k] = 0
  BY <1>1, ZerosAre
<1> HIDE DEF a
<1>4. /\ b \in Buffer
      /\ \A j \in 1..n : b[(r + 1) + j] = 0
      /\ \A k \in 1..64 : k <= r + 1 => b[k] = a[k]
  <2> DEFINE at == r + 1
             y == Zeros(n)
  <2>1. at \in Nat /\ at + Len(y) <= 64 /\ y \in Seq(Octet) /\ Len(y) = n /\ \A j \in 1..n : y[j] = 0
    BY <1>1, <1>3
  <2>2. b = Patch(a, at, y)
    OBVIOUS
  <2> HIDE DEF at, y, b
  <2>3. a \in Buffer
    BY <1>2
  <2>4. b \in Buffer
    BY <2>1, <2>2, <2>3, PatchAt
  <2>5. \A j \in 1..Len(y) : b[at + j] = y[j]
    BY <2>1, <2>2, <2>3, PatchAt, ZenonT(60)
  <2>6. \A k \in 1..64 : k <= at \/ k > at + Len(y) => b[k] = a[k]
    BY <2>1, <2>2, <2>3, PatchAt, ZenonT(60)
  <2>7. \A j \in 1..n : b[at + j] = 0
    BY <2>1, <2>5
  <2> QED
    BY <2>4, <2>6, <2>7 DEF at
<1> HIDE DEF b
<1>5. ASSUME NEW k \in 1..r PROVE b[k] = m[64 * q + k]
  <2>1. k \in 1..64 /\ k <= r /\ k <= r + 1
    OBVIOUS
  <2>2. b[k] = a[k]
    BY <2>1, <1>4
  <2>3. a[k] = buf[k]
    BY <2>1, <1>2
  <2> QED
    BY <2>2, <2>3
<1>6. b[r + 1] = 128
  <2>1. r + 1 <= r + 1
    BY <1>1
  <2>2. b[r + 1] = a[r + 1]
    BY <2>1, <1>1, <1>4
  <2> QED
    BY <2>2, <1>2
<1>7. ASSUME NEW k \in (r + 2)..top PROVE b[k] = 0
  <2>1. k - (r + 1) \in 1..n /\ (r + 1) + (k - (r + 1)) = k
    BY <1>1
  <2> QED
    BY <2>1, <1>4
<1>8. Marked(b, m, q, r, top)
  BY <1>4, <1>5, <1>6, <1>7 DEF Marked
<1> QED
  BY <1>8 DEF b, a, n

(* A place counted from another one. *)
LEMMA Offset ==
  ASSUME NEW r \in Nat, NEW n \in Nat, NEW k \in Nat, k >= r + 2, k <= r + n, n <= 64
  PROVE  k - r \in 1..n /\ k - r \in 2..64 /\ r + (k - r) = k
OBVIOUS

(* Yespower's code patches mark and zeros in one piece. *)
LEMMA MarkedInOne ==
  ASSUME NEW m \in Seq(Octet), NEW q \in Nat, NEW r \in 0..63, NEW top \in (r + 1)..64,
         NEW buf \in Buffer, \A k \in 1..r : buf[k] = m[64 * q + k]
  PROVE  Marked(Patch(buf, r, SubSeq(<<128>> \o Zeros(63), 1, top - r)), m, q, r, top)
<1> DEFINE n == top - r
           pad == <<128>> \o Zeros(63)
           a == SubSeq(pad, 1, n)
           b == Patch(buf, r, a)
<1>1. n \in 1..64 /\ r + n = top /\ r \in Nat /\ r + n <= 64
  OBVIOUS
<1> HIDE DEF n
<1>2. pad \in Seq(Octet) /\ Len(pad) = 64 /\ pad[1] = 128 /\ \A k \in 2..64 : pad[k] = 0
  <2> DEFINE y == Zeros(63)
             o == <<128>>
  <2>1. o \in Seq(Octet) /\ Len(o) = 1 /\ o[1] = 128
    BY OneByte
  <2>2. y \in Seq(Octet) /\ Len(y) = 63 /\ \A k \in 1..63 : y[k] = 0
    <3>1. 63 \in Nat
      OBVIOUS
    <3> QED
      BY <3>1, ZerosAre
  <2>3. pad = o \o y
    OBVIOUS
  <2> HIDE DEF y, o, pad
  <2>0. o \in Seq(Octet) /\ y \in Seq(Octet)
    BY <2>1, <2>2
  <2>4. pad \in Seq(Octet) /\ Len(pad) = Len(o) + Len(y)
    BY <2>0, <2>3, Joined
  <2>5. \A j \in 1..Len(o) : pad[j] = o[j]
    BY <2>0, <2>3, Joined
  <2>6. \A j \in 1..Len(y) : pad[Len(o) + j] = y[j]
    BY <2>0, <2>3, Joined
  <2>7. pad[1] = 128
    BY <2>1, <2>5
  <2>8. \A k \in 2..64 : pad[k] = 0
    <3> TAKE k \in 2..64
    <3>1. k - 1 \in 1..63 /\ 1 + (k - 1) = k
      OBVIOUS
    <3>2. pad[1 + (k - 1)] = y[k - 1]
      <4>1. Len(o) = 1 /\ Len(y) = 63
        BY <2>1, <2>2
      <4> QED
        BY <3>1, <4>1, <2>6, ZenonT(60)
    <3> QED
      BY <3>1, <3>2, <2>2
  <2> QED
    BY <2>1, <2>2, <2>4, <2>7, <2>8
<1> HIDE DEF pad
<1>3. a \in Seq(Octet) /\ Len(a) = n /\ \A k \in 1..n : a[k] = pad[k]
  <2>1. n \in 0..Len(pad)
    BY <1>1, <1>2
  <2> QED
    BY <2>1, <1>2, TakeIs, ZenonT(60)
<1> HIDE DEF a
<1>4. /\ b \in Buffer
      /\ \A j \in 1..n : b[r + j] = a[j]
      /\ \A k \in 1..64 : k <= r => b[k] = buf[k]
  <2>1. r + Len(a) <= 64
    BY <1>1, <1>3
  <2>2. /\ b \in Buffer
        /\ \A j \in 1..Len(a) : b[r + j] = a[j]
        /\ \A k \in 1..64 : k <= r \/ k > r + Len(a) => b[k] = buf[k]
    BY <2>1, <1>1, <1>3, PatchAt
  <2> HIDE DEF b
  <2> QED
    BY <2>2, <1>3
<1> HIDE DEF b
<1>5. ASSUME NEW k \in 1..r PROVE b[k] = m[64 * q + k]
  <2>1. k \in 1..64 /\ k <= r
    OBVIOUS
  <2> QED
    BY <2>1, <1>4
<1>6. b[r + 1] = 128
  <2>1. 1 \in 1..n
    BY <1>1
  <2>2. b[r + 1] = a[1]
    BY <2>1, <1>4
  <2>3. a[1] = pad[1]
    BY <2>1, <1>3
  <2> QED
    BY <2>2, <2>3, <1>2
<1>7. ASSUME NEW k \in (r + 2)..top PROVE b[k] = 0
  <2>1. k - r \in 1..n /\ k - r \in 2..64 /\ r + (k - r) = k
    <3>1. k \in Nat /\ k >= r + 2 /\ k <= r + n /\ n <= 64 /\ n \in Nat /\ r \in Nat
      BY <1>1
    <3> HIDE DEF n
    <3> QED
      BY <3>1, Offset
  <2>2. b[k] = pad[k - r]
    BY <2>1, <1>3, <1>4
  <2> QED
    BY <2>1, <2>2, <1>2, ZenonT(60)
<1>8. Marked(b, m, q, r, top)
  BY <1>4, <1>5, <1>6, <1>7 DEF Marked
<1> QED
  BY <1>8 DEF b, a, pad, n

-----------------------------------------------------------------------------
(* What every final function compresses is the padded message. *)
LEMMA HeldParts ==
  ASSUME NEW m \in Seq(Octet), NEW ctx, NEW u \in Nat, NEW q, NEW r, Holds(ctx, m, u),
         q = Len(m) \div 64, r = Len(m) % 64
  PROVE  /\ q \in Nat /\ r \in 0..63 /\ Len(m) = 64 * q + r /\ Len(m) \in Nat
         /\ ctx.state = BlocksOf(m, q) /\ ctx.count = u * Len(m) /\ ctx.buf \in Buffer
         /\ \A k \in 1..r : ctx.buf[k] = m[64 * q + k]
<1>1. Len(m) \in Nat
  BY LenProperties
<1>2. q \in Nat /\ r \in 0..63 /\ Len(m) = 64 * q + r
  BY <1>1, WholeBlocks
<1>3. /\ ctx = [state |-> BlocksOf(m, q), buf |-> ctx.buf, count |-> u * Len(m)]
      /\ ctx.buf \in Buffer /\ \A k \in 1..r : ctx.buf[k] = m[64 * q + k]
  BY DEF Holds
<1>4. ctx.state = BlocksOf(m, q) /\ ctx.count = u * Len(m)
  BY <1>3
<1> QED
  BY <1>1, <1>2, <1>3, <1>4

(* The two steps of a final, from a buffer marked up to the count or to the end. *)
Ends(state, short, long, r, bits) ==
  IF r < 56 THEN LastBlock(state, short, bits)
  ELSE LastBlock(Compress(state, long), Zeros(64), bits)

(* From a marked buffer, the final makes the state of the padded message. *)
LEMMA EndsPadded ==
  ASSUME NEW m \in Seq(Octet), NEW q \in Nat, NEW r \in 0..63, Len(m) = 64 * q + r,
         NEW short, NEW long,
         r < 56 => Marked(short, m, q, r, 56), ~(r < 56) => Marked(long, m, q, r, 64)
  PROVE  Ends(BlocksOf(m, q), short, long, r, 8 * Len(m)) = Chain(Iv, Padded(m))
<1>1. CASE r < 56
  <2>1. r \in 0..55 /\ Marked(short, m, q, r, 56)
    BY <1>1
  <2> QED
    BY <1>1, <2>1, OneMore DEF Ends
<1>2. CASE ~(r < 56)
  <2>1. r \in 56..63 /\ Marked(long, m, q, r, 64)
    BY <1>2
  <2> QED
    BY <1>2, <2>1, TwoMore DEF Ends
<1> QED
  BY <1>1, <1>2

(* The finals that count bytes: sha256_final and sha224_close. *)
LEMMA FinalIsSha ==
  ASSUME NEW m \in Seq(Octet), NEW ctx, Holds(ctx, m, 1)
  PROVE  sha256_final(ctx) = Sha(m) /\ sha224_close(ctx) = Sha(m)
<1> DEFINE q == Len(m) \div 64
           r == Len(m) % 64
           buf == ctx.buf
           ptr == r + 1
           marked == Patch(buf, ptr - 1, <<128>>)
           short == Patch(marked, ptr, Zeros(56 - ptr))
           long == Patch(marked, ptr, Zeros(64 - ptr))
           bits == 8 * ctx.count
           code == IF ptr > 56
                   THEN LastBlock(Compress(ctx.state, long), Zeros(64), bits)
                   ELSE LastBlock(ctx.state, short, bits)
<1>1. /\ q \in Nat /\ r \in 0..63 /\ Len(m) = 64 * q + r /\ Len(m) \in Nat
      /\ ctx.state = BlocksOf(m, q) /\ ctx.count = 1 * Len(m) /\ buf \in Buffer
      /\ \A k \in 1..r : buf[k] = m[64 * q + k]
  <2>1. 1 \in Nat
    OBVIOUS
  <2> QED
    BY <2>1, HeldParts
<1>2. ctx.count = Len(m)
  BY <1>1
<1>3. sha256_final(ctx) = Digest(code)
  BY <1>2 DEF sha256_final
<1>4. sha224_close(ctx) = Digest(code)
  BY <1>2 DEF sha224_close
<1> HIDE DEF q, r, buf
<1>5. ptr - 1 = r /\ (ptr > 56 <=> ~(r < 56)) /\ bits = 8 * Len(m)
  BY <1>1, <1>2
<1>6. short = Patch(Patch(buf, r, <<128>>), r + 1, Zeros(56 - (r + 1)))
  BY <1>5
<1>7. long = Patch(Patch(buf, r, <<128>>), r + 1, Zeros(64 - (r + 1)))
  BY <1>5
<1>8. code = Ends(BlocksOf(m, q), short, long, r, 8 * Len(m))
  <2> HIDE DEF ptr, short, long, bits
  <2> QED
    BY <1>1, <1>5 DEF Ends
<1> HIDE DEF code, ptr, marked, short, long, bits
<1>9. r < 56 => Marked(short, m, q, r, 56)
  <2> SUFFICES ASSUME r < 56 PROVE Marked(short, m, q, r, 56)
    OBVIOUS
  <2> DEFINE top == 56
  <2>1. top \in (r + 1)..64 /\ short = Patch(Patch(buf, r, <<128>>), r + 1, Zeros(top - (r + 1)))
    BY <1>1, <1>6, SMTT(60)
  <2> HIDE DEF top
  <2>2. Marked(short, m, q, r, top)
    BY <2>1, <1>1, MarkedInTwo, ZenonT(60)
  <2> QED
    BY <2>2 DEF top
<1>10. Marked(long, m, q, r, 64)
  <2> DEFINE top == 64
  <2>1. top \in (r + 1)..64 /\ long = Patch(Patch(buf, r, <<128>>), r + 1, Zeros(top - (r + 1)))
    BY <1>1, <1>7
  <2> HIDE DEF top
  <2>2. Marked(long, m, q, r, top)
    BY <2>1, <1>1, MarkedInTwo
  <2> QED
    BY <2>2 DEF top
<1>11. Ends(BlocksOf(m, q), short, long, r, 8 * Len(m)) = Chain(Iv, Padded(m))
  BY <1>1, <1>9, <1>10, EndsPadded
<1> QED
  BY <1>3, <1>4, <1>8, <1>11 DEF Sha

(* The final of yespower's code, which counts bits. *)
LEMMA YpFinalIsSha ==
  ASSUME NEW m \in Seq(Octet), NEW ctx, Holds(ctx, m, 8)
  PROVE  YpFinal(ctx) = Sha(m)
<1> DEFINE q == Len(m) \div 64
           r == Len(m) % 64
           buf == ctx.buf
           short == Patch(buf, r, SubSeq(<<128>> \o Zeros(63), 1, 56 - r))
           long == Patch(buf, r, SubSeq(<<128>> \o Zeros(63), 1, 64 - r))
<1>1. /\ q \in Nat /\ r \in 0..63 /\ Len(m) = 64 * q + r /\ Len(m) \in Nat
      /\ ctx.state = BlocksOf(m, q) /\ ctx.count = 8 * Len(m) /\ buf \in Buffer
      /\ \A k \in 1..r : buf[k] = m[64 * q + k]
  <2>1. 8 \in Nat
    OBVIOUS
  <2> QED
    BY <2>1, HeldParts
<1>2. (ctx.count \div 8) % 64 = r
  <2>1. (8 * Len(m)) \div 8 = Len(m)
    BY <1>1
  <2> QED
    BY <2>1, <1>1
<1>3. SHA256_Pad(ctx) = Ends(ctx.state, short, long, r, ctx.count)
  BY <1>2 DEF SHA256_Pad, Ends
<1> HIDE DEF q, r, buf
<1>4. r < 56 => Marked(short, m, q, r, 56)
  <2> SUFFICES ASSUME r < 56 PROVE Marked(short, m, q, r, 56)
    OBVIOUS
  <2> DEFINE top == 56
  <2>0. r \in 0..63
    BY <1>1
  <2>1. top \in (r + 1)..64 /\ short = Patch(buf, r, SubSeq(<<128>> \o Zeros(63), 1, top - r))
    BY <2>0, SMTT(60)
  <2> HIDE DEF top, short
  <2>2. Marked(short, m, q, r, top)
    BY <2>1, <1>1, MarkedInOne, ZenonT(60)
  <2> QED
    BY <2>2 DEF top
<1>5. Marked(long, m, q, r, 64)
  <2> DEFINE top == 64
  <2>0. r \in 0..63
    BY <1>1
  <2>1. top \in (r + 1)..64 /\ long = Patch(buf, r, SubSeq(<<128>> \o Zeros(63), 1, top - r))
    BY <2>0
  <2> HIDE DEF top, long
  <2>2. Marked(long, m, q, r, top)
    BY <2>1, <1>1, MarkedInOne
  <2> QED
    BY <2>2 DEF top
<1> HIDE DEF short, long
<1>6. Ends(BlocksOf(m, q), short, long, r, 8 * Len(m)) = Chain(Iv, Padded(m))
  BY <1>1, <1>4, <1>5, EndsPadded, ZenonT(60)
<1> QED
  BY <1>1, <1>3, <1>6 DEF Sha, YpFinal

(* A fresh context holds the empty message, whatever its buffer. *)
LEMMA FreshHolds ==
  ASSUME NEW ctx, NEW u \in Nat, ctx = [state |-> Iv, buf |-> ctx.buf, count |-> 0], ctx.buf \in Buffer
  PROVE  Holds(ctx, <<>>, u)
<1> DEFINE m == <<>>
           b == BlocksOf(m, 0)
<1>1. m \in Seq(Octet) /\ Len(m) = 0 /\ Len(m) \div 64 = 0 /\ Len(m) % 64 = 0
  BY EmptySeq
<1>2. b = Iv
  <2>1. 0 \in Nat /\ 64 * 0 <= Len(m)
    BY <1>1
  <2>2. b \in Seq(Buffer) /\ Len(b) = 0
    BY <2>1, <1>1, BlocksSeq
  <2> QED
    BY <2>2, EmptySeq DEF Iv
<1>3. u * Len(m) = 0
  BY <1>1
<1> HIDE DEF m
<1>4. Holds(ctx, m, u)
  <2>1. /\ ctx = [state |-> BlocksOf(m, Len(m) \div 64), buf |-> ctx.buf, count |-> u * Len(m)]
    BY <1>1, <1>2, <1>3
  <2>2. \A k \in 1..(Len(m) % 64) : ctx.buf[k] = m[64 * (Len(m) \div 64) + k]
    BY <1>1
  <2> QED
    BY <2>1, <2>2 DEF Holds
<1> QED
  BY <1>4 DEF m

(* A new context has taken in nothing, whatever its buffer holds. *)
LEMMA InitHolds == Holds(sha256_ctx_init, <<>>, 1) /\ Holds(sha256_ctx_init, <<>>, 8)
<1> DEFINE c == sha256_ctx_init
<1>1. c.buf \in Buffer
  BY MessageAssumption DEF sha256_ctx_init, Buffer, Octet
<1>2. c = [state |-> Iv, buf |-> c.buf, count |-> 0]
  BY DEF sha256_ctx_init
<1> HIDE DEF c
<1>3. 1 \in Nat /\ 8 \in Nat
  OBVIOUS
<1>4. Holds(c, <<>>, 1) /\ Holds(c, <<>>, 8)
  BY <1>1, <1>2, <1>3, FreshHolds
<1> QED
  BY <1>4, SMTT(60) DEF c

-----------------------------------------------------------------------------
(* The count of a context is in bytes, in yespower's code in bits. *)
Unit(code) == IF code = "yp" THEN 8 ELSE 1

(* The invariant: the context has taken in the bytes fed so far. *)
StreamInv ==
  /\ strCode \in {"sha256", "yp", "sph"}
  /\ strLen \in 0..Len(Message)
  /\ Holds(strCtx, SubSeq(Message, 1, strLen), Unit(strCode))
  /\ StreamIsPadded

(* The message up to a point, and a piece more. *)
LEMMA FedPiece ==
  ASSUME NEW l \in 0..Len(Message), NEW n \in Nat, l + n <= Len(Message)
  PROVE  /\ SubSeq(Message, 1, l) \in Seq(Octet)
         /\ SubSeq(Message, l + 1, l + n) \in Seq(Octet)
         /\ SubSeq(Message, 1, l) \o SubSeq(Message, l + 1, l + n) = SubSeq(Message, 1, l + n)
<1>1. Message \in Seq(Octet) /\ Len(Message) \in Nat
  BY MessageAssumption, LenProperties DEF Octet
<1>2. SubSeq(Message, 1, l) \in Seq(Octet)
  BY <1>1, TakeIs
<1> DEFINE a == l + 1
           b == l + n
<1>3. a \in 1..(Len(Message) + 1) /\ b \in (a - 1)..Len(Message)
  BY <1>1
<1>4. SubSeq(Message, a, b) \in Seq(Octet)
  <2> HIDE DEF a, b
  <2> QED
    BY <1>1, <1>3, SliceIs
<1>5. SubSeq(Message, 1, l) \o SubSeq(Message, l + 1, b) = SubSeq(Message, 1, b)
  <2>1. 1 \in 1..(Len(Message) + 1) /\ l \in (1 - 1)..Len(Message) /\ b \in l..Len(Message)
    BY <1>1
  <2> HIDE DEF b
  <2> QED
    BY <2>1, <1>1, ConcatAdjacentSubSeq
<1> QED
  BY <1>2, <1>4, <1>5

(* The invariant holds at first. *)
LEMMA StreamInitInv == StrInit => StreamInv
<1> SUFFICES ASSUME StrInit PROVE StreamInv
  OBVIOUS
<1>1. SubSeq(Message, 1, 0) = <<>>
  <2>1. 0 \in Int /\ 1 \in Int /\ 0 < 1
    OBVIOUS
  <2> QED
    BY <2>1, SubSeqEmpty
<1>2. Len(Message) \in Nat
  BY MessageAssumption, LenProperties
<1>3. Holds(strCtx, SubSeq(Message, 1, strLen), Unit(strCode))
  BY <1>1, InitHolds DEF StrInit, Unit
<1> QED
  BY <1>2, <1>3 DEF StrInit, StreamInv, StreamIsPadded

(* A piece more keeps the invariant. *)
LEMMA StreamUpdateInv ==
  ASSUME StreamInv, NEW n \in Chunks, StrUpdate(n)
  PROVE  StreamInv'
<1> DEFINE m == SubSeq(Message, 1, strLen)
           data == SubSeq(Message, strLen + 1, strLen + n)
           u == Unit(strCode)
<1>1. n \in Nat /\ strLen \in 0..Len(Message) /\ strLen + n <= Len(Message) /\ Len(Message) \in Nat
  BY MessageAssumption, LenProperties DEF StreamInv, StrUpdate
<1>2. /\ m \in Seq(Octet) /\ data \in Seq(Octet)
      /\ m \o data = SubSeq(Message, 1, strLen + n)
  BY <1>1, FedPiece
<1>3. strLen' = strLen + n /\ strLen' \in 0..Len(Message) /\ strCode' = strCode /\ strOut' = strOut /\ strOut = <<>>
  BY <1>1 DEF StrUpdate
<1>4. PICK aligned \in BOOLEAN :
        strCtx' = CASE strCode = "sha256" -> sha256_update(strCtx, data)
                    [] strCode = "yp" -> YpUpdate(strCtx, data)
                    [] strCode = "sph" -> sph_sha256(strCtx, data, aligned)
  BY DEF StrUpdate
<1>5. Holds(strCtx, m, u) /\ strCode \in {"sha256", "yp", "sph"}
  BY DEF StreamInv
<1> HIDE DEF m, data
<1>6. Holds(strCtx', m \o data, u)
  <2>1. CASE strCode = "sha256"
    BY <2>1, <1>2, <1>4, <1>5, UpdateHolds DEF Unit
  <2>2. CASE strCode = "yp"
    BY <2>2, <1>2, <1>4, <1>5, YpUpdateHolds DEF Unit
  <2>3. CASE strCode = "sph"
    BY <2>3, <1>2, <1>4, <1>5, SphHolds DEF Unit
  <2> QED
    BY <1>5, <2>1, <2>2, <2>3
<1>7. Holds(strCtx', SubSeq(Message, 1, strLen'), Unit(strCode'))
  BY <1>2, <1>3, <1>6
<1> QED
  BY <1>3, <1>5, <1>7 DEF StreamInv, StreamIsPadded

(* The final makes the digest of what was fed. *)
LEMMA StreamFinalInv ==
  ASSUME StreamInv, StrFinal
  PROVE  StreamInv'
<1> DEFINE m == SubSeq(Message, 1, strLen)
<1>1. strLen \in 0..Len(Message) /\ Holds(strCtx, m, Unit(strCode)) /\ strCode \in {"sha256", "yp", "sph"}
  BY DEF StreamInv
<1>2. m \in Seq(Octet)
  <2>1. Message \in Seq(Octet)
    BY MessageAssumption DEF Octet
  <2> QED
    BY <2>1, <1>1, TakeIs
<1>3. strOut' = CASE strCode = "sha256" -> sha256_final(strCtx)
                  [] strCode = "yp" -> YpFinal(strCtx)
                  [] strCode = "sph" -> sha224_close(strCtx)
  BY DEF StrFinal
<1>4. strCode' = strCode /\ strCtx' = strCtx /\ strLen' = strLen
  BY DEF StrFinal
<1> HIDE DEF m
<1>5. strOut' = Sha(m)
  <2>1. CASE strCode = "sha256"
    BY <2>1, <1>1, <1>2, <1>3, FinalIsSha DEF Unit
  <2>2. CASE strCode = "yp"
    BY <2>2, <1>1, <1>2, <1>3, YpFinalIsSha DEF Unit
  <2>3. CASE strCode = "sph"
    BY <2>3, <1>1, <1>2, <1>3, FinalIsSha DEF Unit
  <2> QED
    BY <1>1, <2>1, <2>2, <2>3
<1> QED
  BY <1>1, <1>4, <1>5 DEF m, StreamInv, StreamIsPadded

(* Every digest of the three codes is the standard's digest of the bytes    *)
(* fed, for every message, every cutting of it, every alignment, every      *)
(* content the buffer had before, and whatever the compression computes.    *)
THEOREM StreamPadded == StrSpec => []StreamIsPadded
<1>1. StrInit => StreamInv
  BY StreamInitInv
<1>2. StreamInv /\ [StrNext]_strvars => StreamInv'
  <2> SUFFICES ASSUME StreamInv, [StrNext]_strvars PROVE StreamInv'
    OBVIOUS
  <2>1. ASSUME NEW n \in Chunks, StrUpdate(n) PROVE StreamInv'
    BY <2>1, StreamUpdateInv
  <2>2. CASE StrFinal
    BY <2>2, StreamFinalInv
  <2>3. CASE UNCHANGED strvars
    BY <2>3 DEF StreamInv, StreamIsPadded, strvars
  <2> QED
    BY <2>1, <2>2, <2>3 DEF StrNext
<1>3. StreamInv => StreamIsPadded
  BY DEF StreamInv
<1> QED
  BY <1>1, <1>2, <1>3, PTL DEF StrSpec

-----------------------------------------------------------------------------
(* Digests, and what yespower makes of one, are 32 bytes. *)
Hash == [1..32 -> Octet]
DigestBytes == \A s \in Seq(Buffer) : Digest(s) \in Hash
YespowerBytes == \A h \in Hash : Yespower(h) \in Hash

(* A hash is a sequence of 32 bytes. *)
LEMMA HashSeq ==
  ASSUME NEW h \in Hash
  PROVE  h \in Seq(Octet) /\ Len(h) = 32
<1>1. 32 \in Nat
  OBVIOUS
<1> QED
  BY <1>1, FunctionSeq, ZenonT(60) DEF Hash

(* A padded message is whole blocks, so a digest is 32 bytes. *)
LEMMA ShaIsHash ==
  ASSUME DigestBytes, NEW m \in Seq(Octet)
  PROVE  Sha(m) \in Hash
<1> DEFINE q == Len(m) \div 64
           r == Len(m) % 64
           z == (119 - r) % 64
           P == Padded(m)
<1>1. q \in Nat /\ r \in 0..63 /\ Len(m) = 64 * q + r
  <2>1. Len(m) \in Nat
    BY LenProperties
  <2> QED
    BY <2>1, WholeBlocks
<1>2. P \in Seq(Octet) /\ Len(P) = Len(m) + z + 9
  <2>1. z \in Nat
    BY <1>1
  <2> QED
    BY <2>1, PaddedIs
<1> HIDE DEF q, r, P
<1>3. PICK p \in Nat : Len(P) = 64 * p
  <2>1. CASE r < 56
    <3>1. z = 55 - r
      BY <1>1, <2>1
    <3>2. Len(P) = 64 * (q + 1) /\ q + 1 \in Nat
      BY <1>1, <1>2, <3>1
    <3> QED
      BY <3>2
  <2>2. CASE ~(r < 56)
    <3>1. z = 119 - r
      BY <1>1, <2>2
    <3>2. Len(P) = 64 * (q + 2) /\ q + 2 \in Nat
      BY <1>1, <1>2, <3>1
    <3> QED
      BY <3>2
  <2> QED
    BY <2>1, <2>2
<1>4. Chain(Iv, P) = BlocksOf(P, p)
  BY <1>2, <1>3, WholeChain
<1>5. BlocksOf(P, p) \in Seq(Buffer)
  <2>1. 64 * p <= Len(P)
    BY <1>3
  <2> QED
    BY <2>1, <1>2, BlocksSeq
<1> QED
  BY <1>4, <1>5 DEF Sha, DigestBytes, P

(* The exclusive or of bytes is a byte. *)
LEMMA XorIsByte ==
  ASSUME NEW a \in Octet, NEW b \in Octet
  PROVE  XorByte(a, b) \in Octet
<1>1. a \in Nat /\ b \in Nat
  BY DEF Octet
<1>2. ASSUME NEW w \in Nat \ {0}
      PROVE  XorBit(a, b, w) = 0 \/ XorBit(a, b, w) = w
  <2>1. a \div w \in Nat /\ b \div w \in Nat
    BY <1>1
  <2>2. ASSUME NEW x \in Nat PROVE x % 2 = 0 \/ x % 2 = 1
    OBVIOUS
  <2>3. ((a \div w) + (b \div w)) % 2 = 0 \/ ((a \div w) + (b \div w)) % 2 = 1
    BY <2>1, <2>2
  <2>4. w * 0 = 0 /\ w * 1 = w
    OBVIOUS
  <2> QED
    BY <2>3, <2>4 DEF XorBit
<1>3. /\ XorBit(a, b, 128) \in {0, 128} /\ XorBit(a, b, 64) \in {0, 64}
      /\ XorBit(a, b, 32) \in {0, 32} /\ XorBit(a, b, 16) \in {0, 16}
      /\ XorBit(a, b, 8) \in {0, 8} /\ XorBit(a, b, 4) \in {0, 4}
      /\ XorBit(a, b, 2) \in {0, 2} /\ XorBit(a, b, 1) \in {0, 1}
  BY <1>2
<1> QED
  BY <1>3 DEF XorByte, Octet

(* The exclusive or of two hashes is one. *)
LEMMA XorBytesIs ==
  ASSUME NEW s \in Hash, NEW t \in Hash
  PROVE  XorBytes(s, t) \in Hash
<1>1. [k \in 1..32 |-> XorByte(s[k], t[k])] \in [1..32 -> Octet]
  BY XorIsByte DEF Hash
<1>2. 32 \in Nat
  OBVIOUS
<1> QED
  BY <1>1, <1>2, TupleIs DEF XorBytes, Hash

(* The whole of a message at once. *)
LEMMA FullIsSha ==
  ASSUME NEW m \in Seq(Octet)
  PROVE  sha256_full(m) = Sha(m)
<1>1. <<>> \in Seq(Octet) /\ <<>> \o m = m
  BY EmptySeq, ConcatEmptySeq
<1>2. Holds(sha256_update(sha256_ctx_init, m), m, 1)
  BY <1>1, InitHolds, UpdateHolds
<1> QED
  BY <1>2, FinalIsSha DEF sha256_full

(* A block padded by hand is the last block of the padded message. *)
LEMMA HandPadded ==
  ASSUME NEW m \in Seq(Octet), NEW q \in Nat, NEW r \in 0..55, Len(m) = 64 * q + r,
         NEW blk, Marked(blk, m, q, r, 56), \A j \in 1..8 : blk[56 + j] = Be64(8 * Len(m))[j]
  PROVE  Compress(BlocksOf(m, q), blk) = Chain(Iv, Padded(m))
<1> DEFINE e == Be64(8 * Len(m))
           b == Patch(blk, 56, e)
<1>1. LastBlock(BlocksOf(m, q), blk, 8 * Len(m)) = Chain(Iv, Padded(m))
  BY OneMore
<1>2. e \in Seq(Octet) /\ Len(e) = 8
  <2>1. 8 * Len(m) \in Nat
    OBVIOUS
  <2> QED
    BY <2>1, Width64
<1>3. blk \in Buffer
  BY DEF Marked
<1>4. \A j \in 1..8 : blk[56 + j] = e[j]
  OBVIOUS
<1>5. LastBlock(BlocksOf(m, q), blk, 8 * Len(m)) = Compress(BlocksOf(m, q), b)
  BY DEF LastBlock
<1> HIDE DEF e
<1>6. b \in Buffer /\ (\A j \in 1..8 : b[56 + j] = e[j]) /\ (\A k \in 1..56 : b[k] = blk[k])
  BY <1>2, <1>3, CountPut, ZenonT(60)
<1> HIDE DEF b
<1>7. \A k \in 1..64 : b[k] = blk[k]
  <2> TAKE k \in 1..64
  <2>1. CASE k \in 1..56
    BY <2>1, <1>6
  <2>2. CASE ~(k \in 1..56)
    <3>1. k - 56 \in 1..8 /\ 56 + (k - 56) = k
      BY <2>2
    <3>2. b[56 + (k - 56)] = e[k - 56] /\ blk[56 + (k - 56)] = e[k - 56]
      BY <3>1, <1>4, <1>6
    <3> QED
      BY <3>1, <3>2
  <2> QED
    BY <2>1, <2>2
<1>8. b = blk
  <2>1. b \in [1..64 -> Octet] /\ blk \in [1..64 -> Octet]
    BY <1>3, <1>6 DEF Buffer
  <2>2. b = [k \in 1..64 |-> b[k]] /\ blk = [k \in 1..64 |-> blk[k]]
    BY <2>1
  <2>3. [k \in 1..64 |-> b[k]] = [k \in 1..64 |-> blk[k]]
    BY <1>7
  <2> QED
    BY <2>2, <2>3
<1> QED
  BY <1>1, <1>5, <1>8

(* A last block written by hand: bytes left, mark, zeros, count. *)
LEMMA HandBlock ==
  ASSUME NEW m \in Seq(Octet), NEW q \in Nat, NEW r \in 0..55, Len(m) = 64 * q + r,
         NEW part \in Seq(Octet), Len(part) = r, \A k \in 1..r : part[k] = m[64 * q + k],
         NEW t \in Seq(Octet), Len(t) = 64 - r, t[1] = 128, \A k \in 2..(56 - r) : t[k] = 0,
         \A j \in 1..8 : t[56 - r + j] = Be64(8 * Len(m))[j]
  PROVE  Compress(BlocksOf(m, q), part \o t) = Chain(Iv, Padded(m))
<1> DEFINE blk == part \o t
           e == Be64(8 * Len(m))
<1>1. /\ blk \in Seq(Octet) /\ Len(blk) = Len(part) + Len(t)
      /\ \A j \in 1..Len(part) : blk[j] = part[j]
      /\ \A j \in 1..Len(t) : blk[Len(part) + j] = t[j]
  BY Joined, ZenonT(60)
<1>2. \A j \in 1..8 : t[56 - r + j] = e[j]
  OBVIOUS
<1> HIDE DEF blk, e
<1>3. blk \in Seq(Octet) /\ Len(blk) = 64
  BY <1>1
<1>4. blk \in Buffer
  BY <1>3, LenProperties DEF Buffer
<1>5. \A k \in 1..r : blk[k] = m[64 * q + k]
  BY <1>1, ZenonT(60)
<1>6. \A j \in 1..(64 - r) : blk[r + j] = t[j]
  BY <1>1
<1>7. blk[r + 1] = 128
  <2>1. 1 \in 1..(64 - r)
    OBVIOUS
  <2> QED
    BY <2>1, <1>6, ZenonT(60)
<1>8. ASSUME NEW k \in (r + 2)..56 PROVE blk[k] = 0
  <2>1. k - r \in 1..(64 - r) /\ k - r \in 2..(56 - r) /\ r + (k - r) = k
    OBVIOUS
  <2>2. blk[r + (k - r)] = t[k - r] /\ t[k - r] = 0
    BY <2>1, <1>6
  <2> QED
    BY <2>1, <2>2
<1>9. ASSUME NEW j \in 1..8 PROVE blk[56 + j] = e[j]
  <2>1. 56 - r + j \in 1..(64 - r) /\ r + (56 - r + j) = 56 + j
    BY SMTT(60)
  <2>2. blk[r + (56 - r + j)] = t[56 - r + j] /\ t[56 - r + j] = e[j]
    BY <2>1, <1>2, <1>6
  <2> QED
    BY <2>1, <2>2
<1>10. Marked(blk, m, q, r, 56)
  BY <1>4, <1>5, <1>7, <1>8 DEF Marked
<1>11. \A j \in 1..8 : blk[56 + j] = Be64(8 * Len(m))[j]
  BY <1>9 DEF e
<1>12. Compress(BlocksOf(m, q), blk) = Chain(Iv, Padded(m))
  BY <1>10, <1>11, HandPadded
<1> QED
  BY <1>12 DEF blk

(* A number below the divisor is its own remainder. *)
LEMMA Below ==
  ASSUME NEW d \in Nat, d > 0, NEW k \in Nat, k < d
  PROVE  k \div d = 0 /\ k % d = k
OBVIOUS

(* The bytes of two words, one after the other. *)
TwoWords(z, x, y) ==
  /\ z[1] = x[1] /\ z[2] = x[2] /\ z[3] = x[3] /\ z[4] = x[4]
  /\ z[5] = y[1] /\ z[6] = y[2] /\ z[7] = y[3] /\ z[8] = y[4]

(* The words of a count, byte by byte. *)
LEMMA JoinedWords ==
  ASSUME NEW x \in Seq(Octet), NEW y \in Seq(Octet), Len(x) = 4, Len(y) = 4
  PROVE  TwoWords(x \o y, x, y)
<1>1. x \in Seq(Octet) /\ y \in Seq(Octet)
  OBVIOUS
<1>2. /\ \A j \in 1..Len(x) : (x \o y)[j] = x[j]
      /\ \A j \in 1..Len(y) : (x \o y)[Len(x) + j] = y[j]
  BY <1>1, Joined
<1> DEFINE z == x \o y
<1>3. /\ \A j \in 1..4 : z[j] = x[j]
      /\ \A j \in 1..4 : z[4 + j] = y[j]
  BY <1>2
<1> HIDE DEF z
<1>4. z[1] = x[1] /\ z[2] = x[2] /\ z[3] = x[3] /\ z[4] = x[4]
  BY <1>3
<1>5. z[4 + 1] = y[1] /\ z[4 + 2] = y[2] /\ z[4 + 3] = y[3] /\ z[4 + 4] = y[4]
  BY <1>3
<1>6. z[5] = y[1] /\ z[6] = y[2] /\ z[7] = y[3] /\ z[8] = y[4]
  BY <1>5
<1> QED
  BY <1>4, <1>6 DEF z, TwoWords

(* A small bit count takes the last two of its bytes. *)
LEMMA SmallCount ==
  ASSUME NEW n \in Nat, n < 65536
  PROVE  /\ \A j \in 1..6 : Be64(n)[j] = 0
         /\ Be64(n)[7] = n \div 256 /\ Be64(n)[8] = n % 256
<1> DEFINE a == (n \div 65536) \div 65536
           x == Be32(a)
           y == Be32(n)
<1>1. n \div 65536 = 0 /\ n \div 16777216 = 0
  <2>1. n \div 65536 = 0
    BY Below
  <2>2. n < 16777216
    OBVIOUS
  <2>3. n \div 16777216 = 0
    BY <2>2, Below
  <2> QED
    BY <2>1, <2>3
<1>2. 0 \div 65536 = 0 /\ 0 \div 16777216 = 0 /\ 0 \div 256 = 0 /\ 0 % 256 = 0
  BY Below
<1>3. (n \div 256) % 256 = n \div 256
  <2>1. n \div 256 \in Nat /\ n \div 256 < 256
    OBVIOUS
  <2> QED
    BY <2>1, Below
<1>4. y = <<0, 0, n \div 256, n % 256>>
  BY <1>1, <1>2, <1>3 DEF Be32
<1>5. x = <<0, 0, 0, 0>>
  <2>1. x = Be32(0)
    BY <1>1, <1>2
  <2>2. Be32(0) = <<0, 0, 0, 0>>
    BY <1>2 DEF Be32
  <2> QED
    BY <2>1, <2>2
<1>6. x \in Seq(Octet) /\ y \in Seq(Octet) /\ Len(x) = 4 /\ Len(y) = 4
  <2>1. n \in Nat /\ a \in Nat
    BY <1>1, <1>2
  <2> HIDE DEF a
  <2> QED
    BY <2>1, Width32
<1>7. Be64(n) = x \o y
  BY DEF Be64
<1> HIDE DEF x, y
<1>8. /\ Be64(n)[1] = x[1] /\ Be64(n)[2] = x[2] /\ Be64(n)[3] = x[3] /\ Be64(n)[4] = x[4]
      /\ Be64(n)[5] = y[1] /\ Be64(n)[6] = y[2] /\ Be64(n)[7] = y[3] /\ Be64(n)[8] = y[4]
  <2>1. TwoWords(x \o y, x, y)
    BY <1>6, JoinedWords
  <2>2. TwoWords(Be64(n), x, y)
    BY <2>1, <1>7
  <2> QED
    BY <2>2 DEF TwoWords
<1>9. ASSUME NEW j \in 1..6 PROVE Be64(n)[j] = 0
  <2>1. j = 1 \/ j = 2 \/ j = 3 \/ j = 4 \/ j = 5 \/ j = 6
    OBVIOUS
  <2> QED
    BY <2>1, <1>4, <1>5, <1>8
<1> QED
  BY <1>4, <1>8, <1>9

(* No blocks. *)
LEMMA NoBlocks ==
  ASSUME NEW m
  PROVE  BlocksOf(m, 0) = Iv
<1>1. BlocksOf(m, 0) = [i \in {} |-> [k \in 1..64 |-> m[64 * (i - 1) + k]]]
  <2>1. 1..0 = {}
    OBVIOUS
  <2> QED
    BY <2>1 DEF BlocksOf
<1>2. <<>> = [i \in 1..0 |-> 0]
  OBVIOUS
<1> QED
  BY <1>1, <1>2 DEF BlocksOf, Iv

(* The hand-padded block of a hash is its padding. *)
HashTail == [k \in 1..32 |-> CASE k = 1 -> 128 [] k = 31 -> 1 [] OTHER -> 0]

(* The bytes of that constant. *)
LEMMA HashTailIs ==
  /\ HashTail \in Seq(Octet) /\ Len(HashTail) = 32
  /\ HashTail[1] = 128 /\ HashTail[31] = 1
  /\ \A k \in 2..32 : k # 31 => HashTail[k] = 0
<1>1. HashTail \in [1..32 -> Octet]
  BY DEF HashTail, Octet
<1>2. 32 \in Nat
  OBVIOUS
<1>3. HashTail \in Seq(Octet) /\ Len(HashTail) = 32
  BY <1>1, <1>2, FunctionSeq, ZenonT(60)
<1> QED
  BY <1>3 DEF HashTail

(* One hand-padded block hashes a hash. *)
LEMMA HashBlock ==
  ASSUME NEW in \in Hash
  PROVE  Digest(Compress(Iv, in \o HashTail)) = Sha(in)
<1>1. in \in Seq(Octet) /\ Len(in) = 32
  BY HashSeq
<1> DEFINE e == Be64(256)
<1>2. (\A j \in 1..6 : e[j] = 0) /\ e[7] = 1 /\ e[8] = 0
  <2>1. 256 \div 256 = 1 /\ 256 % 256 = 0
    OBVIOUS
  <2> QED
    BY <2>1, SmallCount
<1> HIDE DEF e
<1>3. \A j \in 1..8 : HashTail[24 + j] = e[j]
  <2> TAKE j \in 1..8
  <2>1. CASE j \in 1..6
    <3>1. 24 + j \in 2..32 /\ 24 + j # 31
      BY <2>1
    <3> QED
      BY <3>1, <2>1, <1>2, HashTailIs, ZenonT(60)
  <2>2. CASE j = 7
    BY <2>2, <1>2, HashTailIs
  <2>3. CASE j = 8
    BY <2>3, <1>2, HashTailIs
  <2> QED
    BY <2>1, <2>2, <2>3
<1>4. 8 * Len(in) = 256 /\ Len(in) = 64 * 0 + 32 /\ 32 \in 0..55 /\ 0 \in Nat /\ 56 - 32 = 24
  BY <1>1
<1>5. \A j \in 1..8 : HashTail[56 - 32 + j] = Be64(8 * Len(in))[j]
  BY <1>3, <1>4 DEF e
<1>6. \A k \in 1..32 : in[k] = in[64 * 0 + k]
  OBVIOUS
<1>7. /\ HashTail \in Seq(Octet) /\ Len(HashTail) = 64 - 32 /\ HashTail[1] = 128
      /\ \A k \in 2..(56 - 32) : HashTail[k] = 0
  BY HashTailIs
<1>8. Compress(BlocksOf(in, 0), in \o HashTail) = Chain(Iv, Padded(in))
  BY <1>1, <1>4, <1>5, <1>6, <1>7, HandBlock
<1> QED
  BY <1>8, NoBlocks DEF Sha

(* The two lanes hash what each is given. *)
LEMMA TwoHashes ==
  ASSUME NEW a \in Hash, NEW b \in Hash
  PROVE  sha256_32_2way(a, b) = <<Sha(a), Sha(b)>>
<1>1. sha256_32_2way(a, b) = <<Digest(Compress(Iv, a \o HashTail)), Digest(Compress(Iv, b \o HashTail))>>
  BY DEF sha256_32_2way, Transform2, HashTail
<1> QED
  BY <1>1, HashBlock

-----------------------------------------------------------------------------
(* A header is a block of 64 bytes and 16 more. *)
Header == {h \in Seq(Octet) : Len(h) = 80}

(* The two parts of a header, byte by byte. *)
LEMMA HeaderParts ==
  ASSUME NEW h \in Header
  PROVE  /\ h \in Seq(Octet) /\ Len(h) = 80
         /\ SubSeq(h, 1, 64) \in Seq(Octet) /\ Len(SubSeq(h, 1, 64)) = 64
         /\ \A k \in 1..64 : SubSeq(h, 1, 64)[k] = h[k]
         /\ SubSeq(h, 65, 80) \in Seq(Octet) /\ Len(SubSeq(h, 65, 80)) = 16
         /\ \A k \in 1..16 : SubSeq(h, 65, 80)[k] = h[64 + k]
<1>1. h \in Seq(Octet) /\ Len(h) = 80
  BY DEF Header
<1>2. 64 \in 0..Len(h)
  BY <1>1
<1>3. /\ SubSeq(h, 1, 64) \in Seq(Octet) /\ Len(SubSeq(h, 1, 64)) = 64
      /\ \A k \in 1..64 : SubSeq(h, 1, 64)[k] = h[k]
  <2> DEFINE n == 64
  <2>1. h \in Seq(Octet) /\ n \in 0..Len(h)
    BY <1>1, <1>2
  <2> HIDE DEF n
  <2>2. /\ SubSeq(h, 1, n) \in Seq(Octet) /\ Len(SubSeq(h, 1, n)) = n
        /\ \A k \in 1..n : SubSeq(h, 1, n)[k] = h[k]
    BY <2>1, TakeIs
  <2> QED
    BY <2>2 DEF n
<1>4. /\ SubSeq(h, 64 + 1, Len(h)) \in Seq(Octet) /\ Len(SubSeq(h, 64 + 1, Len(h))) = Len(h) - 64
      /\ \A k \in 1..(Len(h) - 64) : SubSeq(h, 64 + 1, Len(h))[k] = h[64 + k]
  BY <1>1, <1>2, DropIs, ZenonT(60)
<1>5. 64 + 1 = 65 /\ Len(h) - 64 = 16
  BY <1>1
<1>6. /\ SubSeq(h, 65, 80) \in Seq(Octet) /\ Len(SubSeq(h, 65, 80)) = 16
      /\ \A k \in 1..16 : SubSeq(h, 65, 80)[k] = h[64 + k]
  BY <1>1, <1>4, <1>5
<1> QED
  BY <1>1, <1>3, <1>6

(* The two parts make the header. *)
LEMMA HeaderJoined ==
  ASSUME NEW h \in Header
  PROVE  SubSeq(h, 1, 64) \o SubSeq(h, 65, 80) = h
<1> DEFINE a == SubSeq(h, 1, 64)
           b == SubSeq(h, 65, 80)
           j == a \o b
<1>1. /\ h \in Seq(Octet) /\ Len(h) = 80
      /\ a \in Seq(Octet) /\ Len(a) = 64 /\ \A k \in 1..64 : a[k] = h[k]
      /\ b \in Seq(Octet) /\ Len(b) = 16 /\ \A k \in 1..16 : b[k] = h[64 + k]
  BY HeaderParts
<1> HIDE DEF a, b
<1>2. a \in Seq(Octet) /\ b \in Seq(Octet)
  BY <1>1
<1>3. /\ j \in Seq(Octet) /\ Len(j) = Len(a) + Len(b)
      /\ \A k \in 1..Len(a) : j[k] = a[k]
      /\ \A k \in 1..Len(b) : j[Len(a) + k] = b[k]
  BY <1>2, Joined
<1> HIDE DEF j
<1>4. j \in Seq(Octet) /\ Len(j) = 80 /\ (\A k \in 1..64 : j[k] = a[k]) /\ (\A k \in 1..16 : j[64 + k] = b[k])
  BY <1>1, <1>3
<1>5. ASSUME NEW k \in 1..80 PROVE j[k] = h[k]
  <2>1. CASE k \in 1..64
    BY <2>1, <1>1, <1>4, ZenonT(60)
  <2>2. CASE ~(k \in 1..64)
    <3>1. k - 64 \in 1..16 /\ 64 + (k - 64) = k
      BY <2>2
    <3>2. j[64 + (k - 64)] = b[k - 64] /\ b[k - 64] = h[64 + (k - 64)]
      BY <3>1, <1>1, <1>4, ZenonT(60)
    <3> QED
      BY <3>1, <3>2
  <2> QED
    BY <2>1, <2>2
<1>6. j = [k \in 1..80 |-> j[k]] /\ h = [k \in 1..80 |-> h[k]]
  BY <1>1, <1>4
<1>7. j = h
  BY <1>5, <1>6
<1> QED
  BY <1>7 DEF j, a, b

(* A midstate has compressed the header's first block. *)
LEMMA MidstateIs ==
  ASSUME NEW h \in Header
  PROVE  Holds(Midstate(h), SubSeq(h, 1, 64), 1) /\ Midstate(h).state = BlocksOf(h, 1)
<1> DEFINE a == SubSeq(h, 1, 64)
           mid == Midstate(h)
<1>1. /\ h \in Seq(Octet) /\ Len(h) = 80
      /\ a \in Seq(Octet) /\ Len(a) = 64 /\ \A k \in 1..64 : a[k] = h[k]
  BY HeaderParts
<1>2. mid = sha256_update(sha256_ctx_init, a)
  BY DEF Midstate
<1> HIDE DEF a, mid
<1>3. <<>> \in Seq(Octet) /\ <<>> \o a = a
  BY <1>1, EmptySeq, ConcatEmptySeq
<1>4. Holds(mid, a, 1)
  <2>1. a \in Seq(Octet)
    BY <1>1
  <2>2. Holds(sha256_update(sha256_ctx_init, a), <<>> \o a, 1)
    BY <2>1, <1>3, InitHolds, UpdateHolds
  <2> QED
    BY <2>2, <1>2, <1>3
<1>5. mid.state = BlocksOf(a, Len(a) \div 64)
  BY <1>4 DEF Holds
<1>6. Len(a) \div 64 = 1
  BY <1>1
<1>7. BlocksOf(a, 1) = BlocksOf(h, 1)
  <2> DEFINE q == 1
  <2>1. q \in Nat /\ 64 * q <= Len(h) /\ 64 * q <= Len(a) /\ \A j \in 1..(64 * q) : a[j] = h[j]
    BY <1>1
  <2>2. a \in Seq(Octet) /\ h \in Seq(Octet)
    BY <1>1
  <2> HIDE DEF q
  <2>3. BlocksOf(a, q) = BlocksOf(h, q)
    BY <2>1, <2>2, PrefixBlocks
  <2> QED
    BY <2>3 DEF q
<1> QED
  BY <1>4, <1>5, <1>6, <1>7 DEF a, mid

(* From a midstate, the rest of the header gives its double hash. *)
LEMMA MidstateHash ==
  ASSUME DigestBytes, NEW h \in Header
  PROVE  sha256d_80_midstate(h, Midstate(h)) = Sha(Sha(h))
<1> DEFINE b == SubSeq(h, 65, 80)
           ctx == sha256_update(Midstate(h), b)
<1>1. Holds(ctx, h, 1)
  <2>1. SubSeq(h, 1, 64) \in Seq(Octet) /\ b \in Seq(Octet)
    BY HeaderParts
  <2>2. Holds(ctx, SubSeq(h, 1, 64) \o b, 1)
    BY <2>1, MidstateIs, UpdateHolds
  <2> QED
    BY <2>2, HeaderJoined
<1>2. sha256d_80_midstate(h, Midstate(h)) = sha256_full(sha256_final(ctx))
  BY DEF sha256d_80_midstate
<1> HIDE DEF ctx
<1>3. h \in Seq(Octet)
  BY DEF Header
<1>4. sha256_final(ctx) = Sha(h)
  BY <1>1, <1>3, FinalIsSha
<1>5. Sha(h) \in Seq(Octet)
  BY <1>3, ShaIsHash, HashSeq
<1> QED
  BY <1>2, <1>4, <1>5, FullIsSha

(* The hand-padded second block of a header is its padding. *)
HeaderTail == [k \in 1..48 |-> CASE k = 1 -> 128 [] k = 47 -> 2 [] k = 48 -> 128 [] OTHER -> 0]

(* The bytes of that constant. *)
LEMMA HeaderTailIs ==
  /\ HeaderTail \in Seq(Octet) /\ Len(HeaderTail) = 48
  /\ HeaderTail[1] = 128 /\ HeaderTail[47] = 2 /\ HeaderTail[48] = 128
  /\ \A k \in 2..46 : HeaderTail[k] = 0
<1>1. HeaderTail \in [1..48 -> Octet]
  BY DEF HeaderTail, Octet
<1>2. 48 \in Nat
  OBVIOUS
<1>3. HeaderTail \in Seq(Octet) /\ Len(HeaderTail) = 48
  BY <1>1, <1>2, FunctionSeq, ZenonT(60)
<1> QED
  BY <1>3 DEF HeaderTail

(* Behind the midstate, the hand-padded block hashes the header. *)
LEMMA HeaderBlock ==
  ASSUME NEW h \in Header
  PROVE  Digest(Compress(BlocksOf(h, 1), SubSeq(h, 65, 80) \o HeaderTail)) = Sha(h)
<1> DEFINE b == SubSeq(h, 65, 80)
           e == Be64(640)
<1>1. /\ h \in Seq(Octet) /\ Len(h) = 80
      /\ b \in Seq(Octet) /\ Len(b) = 16 /\ \A k \in 1..16 : b[k] = h[64 + k]
  BY HeaderParts
<1> HIDE DEF b
<1>2. (\A j \in 1..6 : e[j] = 0) /\ e[7] = 2 /\ e[8] = 128
  <2>1. 640 \div 256 = 2 /\ 640 % 256 = 128
    OBVIOUS
  <2> QED
    BY <2>1, SmallCount
<1> HIDE DEF e
<1>3. \A j \in 1..8 : HeaderTail[40 + j] = e[j]
  <2> TAKE j \in 1..8
  <2>1. CASE j \in 1..6
    <3>1. 40 + j \in 2..46
      BY <2>1
    <3> QED
      BY <3>1, <2>1, <1>2, HeaderTailIs, ZenonT(60)
  <2>2. CASE j = 7
    BY <2>2, <1>2, HeaderTailIs
  <2>3. CASE j = 8
    BY <2>3, <1>2, HeaderTailIs
  <2> QED
    BY <2>1, <2>2, <2>3
<1>4. 8 * Len(h) = 640 /\ Len(h) = 64 * 1 + 16 /\ 16 \in 0..55 /\ 1 \in Nat /\ 56 - 16 = 40
  <2>1. Len(h) = 80
    BY <1>1
  <2> QED
    BY <2>1
<1>5. \A j \in 1..8 : HeaderTail[56 - 16 + j] = Be64(8 * Len(h))[j]
  BY <1>3, <1>4 DEF e
<1>6. \A k \in 1..16 : b[k] = h[64 * 1 + k]
  <2> TAKE k \in 1..16
  <2>1. b[k] = h[64 + k]
    BY <1>1
  <2>2. 64 * 1 + k = 64 + k
    OBVIOUS
  <2> QED
    BY <2>1, <2>2
<1>7. /\ HeaderTail \in Seq(Octet) /\ Len(HeaderTail) = 64 - 16 /\ HeaderTail[1] = 128
      /\ \A k \in 2..(56 - 16) : HeaderTail[k] = 0
  BY HeaderTailIs, SMTT(60)
<1>8. Compress(BlocksOf(h, 1), b \o HeaderTail) = Chain(Iv, Padded(h))
  BY <1>1, <1>4, <1>5, <1>6, <1>7, HandBlock, ZenonT(60)
<1> QED
  BY <1>8 DEF Sha, b

(* Two headers with the same first block, from its midstate. *)
LEMMA TwoHeaders ==
  ASSUME DigestBytes, NEW h0 \in Header, NEW h1 \in Header, SubSeq(h0, 1, 64) = SubSeq(h1, 1, 64)
  PROVE  sha256d_80_2way_midstate(h0, h1, Midstate(h0)) = <<Sha(Sha(h0)), Sha(Sha(h1))>>
<1>1. Midstate(h0).state = BlocksOf(h0, 1) /\ Midstate(h0).state = BlocksOf(h1, 1)
  <2>1. Midstate(h0) = Midstate(h1)
    BY DEF Midstate
  <2> QED
    BY <2>1, MidstateIs
<1> DEFINE st == Midstate(h0).state
           d0 == Digest(Compress(st, SubSeq(h0, 65, 80) \o HeaderTail))
           d1 == Digest(Compress(st, SubSeq(h1, 65, 80) \o HeaderTail))
<1>2. sha256d_80_2way_midstate(h0, h1, Midstate(h0)) = sha256_32_2way(d0, d1)
  BY DEF sha256d_80_2way_midstate, Transform2, HeaderTail
<1>3. d0 = Sha(h0) /\ d1 = Sha(h1)
  BY <1>1, HeaderBlock
<1>4. Sha(h0) \in Hash /\ Sha(h1) \in Hash
  BY ShaIsHash DEF Header
<1> QED
  BY <1>2, <1>3, <1>4, TwoHashes

-----------------------------------------------------------------------------
(* What the algorithm makes of the double hash of a header. *)
Pow(h, d) == Sha(IF IsV2(h) THEN XorBytes(Yespower(d), d)
                 ELSE Tuple([j \in 1..32 |-> XorByte(d[j], 90)]))

(* The hash of the old algorithm's and of the new one's last input. *)
LEMMA CoreIs ==
  ASSUME DigestBytes, YespowerBytes, NEW h, NEW in \in Hash
  PROVE  /\ Core(h, in) = Pow(h, Sha(in))
         /\ Core(h, in) \in Hash
<1> DEFINE d == Sha(in)
           v1 == Tuple([j \in 1..32 |-> XorByte(d[j], 90)])
           v2 == XorBytes(Yespower(d), d)
<1>1. sha256_full(in) = d /\ d \in Hash
  BY HashSeq, FullIsSha, ShaIsHash
<1>2. civiclight_core_v1(in) = sha256_full(v1) /\ civiclight_core_v2(in) = sha256_full(v2)
  BY <1>1 DEF civiclight_core_v1, civiclight_core_v2
<1>3. Pow(h, d) = IF IsV2(h) THEN Sha(v2) ELSE Sha(v1)
  BY DEF Pow
<1> HIDE DEF d
<1>4. v1 \in Hash
  <2>1. 90 \in Octet /\ \A j \in 1..32 : d[j] \in Octet
    BY <1>1 DEF Octet, Hash
  <2>2. [j \in 1..32 |-> XorByte(d[j], 90)] \in [1..32 -> Octet]
    BY <2>1, XorIsByte
  <2>3. 32 \in Nat
    OBVIOUS
  <2> QED
    BY <2>2, <2>3, TupleIs DEF Hash
<1>5. v2 \in Hash
  BY <1>1, XorBytesIs DEF YespowerBytes
<1> HIDE DEF v1, v2
<1>6. v1 \in Seq(Octet) /\ v2 \in Seq(Octet)
  BY <1>4, <1>5, HashSeq
<1>7. sha256_full(v1) = Sha(v1) /\ sha256_full(v2) = Sha(v2) /\ Sha(v1) \in Hash /\ Sha(v2) \in Hash
  BY <1>6, FullIsSha, ShaIsHash
<1>8. Core(h, in) = IF IsV2(h) THEN Sha(v2) ELSE Sha(v1)
  BY <1>2, <1>7 DEF Core
<1> QED
  BY <1>3, <1>7, <1>8 DEF d

(* A header alone, and from its midstate. *)
LEMMA OneHeader ==
  ASSUME DigestBytes, YespowerBytes, NEW h \in Header
  PROVE  /\ Sha(Sha(h)) \in Hash
         /\ civiclight_powhash(h) = Pow(h, Sha(Sha(Sha(h))))
         /\ civiclight_powhash_from_midstate(h, Midstate(h)) = Pow(h, Sha(Sha(Sha(h))))
<1>1. h \in Seq(Octet)
  BY DEF Header
<1>2. Sha(h) \in Seq(Octet)
  BY <1>1, ShaIsHash, HashSeq
<1>3. Sha(Sha(h)) \in Hash
  BY <1>2, ShaIsHash
<1>4. sha256d_local(h) = Sha(Sha(h))
  BY <1>1, <1>2, FullIsSha DEF sha256d_local
<1>5. Core(h, Sha(Sha(h))) = Pow(h, Sha(Sha(Sha(h))))
  BY <1>3, CoreIs
<1> QED
  BY <1>3, <1>4, <1>5, MidstateHash DEF civiclight_powhash, civiclight_powhash_from_midstate

(* Two lanes of the new algorithm. *)
LEMMA TwoCores ==
  ASSUME DigestBytes, YespowerBytes, NEW a \in Hash, NEW b \in Hash
  PROVE  civiclight_core_v2_2way(a, b) = <<civiclight_core_v2(a), civiclight_core_v2(b)>>
<1> DEFINE d == Sha(a)
           e == Sha(b)
           x == XorBytes(Yespower(d), d)
           y == XorBytes(Yespower(e), e)
<1>1. a \in Seq(Octet) /\ b \in Seq(Octet)
  BY HashSeq
<1>2. sha256_full(a) = d /\ sha256_full(b) = e /\ d \in Hash /\ e \in Hash
  BY <1>1, FullIsSha, ShaIsHash
<1>3. sha256_32_2way(a, b) = <<d, e>>
  BY TwoHashes
<1>4. civiclight_core_v2(a) = sha256_full(x) /\ civiclight_core_v2(b) = sha256_full(y)
  BY <1>2 DEF civiclight_core_v2
<1>5. civiclight_core_v2_2way(a, b) = sha256_32_2way(x, y)
  BY <1>3 DEF civiclight_core_v2_2way
<1> HIDE DEF d, e
<1>6. x \in Hash /\ y \in Hash
  BY <1>2, XorBytesIs DEF YespowerBytes
<1> HIDE DEF x, y
<1>7. sha256_32_2way(x, y) = <<Sha(x), Sha(y)>>
  BY <1>6, TwoHashes
<1>8. sha256_full(x) = Sha(x) /\ sha256_full(y) = Sha(y)
  BY <1>6, HashSeq, FullIsSha
<1> QED
  BY <1>4, <1>5, <1>7, <1>8

(* Two headers at a time have the hashes each has alone. *)
LEMMA TwoIsOne ==
  ASSUME DigestBytes, YespowerBytes, NEW h0 \in Header, NEW h1 \in Header
  PROVE  civiclight_hash_2way(h0, h1) = <<civiclight_powhash(h0), civiclight_powhash(h1)>>
<1>1. CASE SubSeq(h0, 1, 64) # SubSeq(h1, 1, 64)
  BY <1>1 DEF civiclight_hash_2way
<1>2. CASE SubSeq(h0, 1, 64) = SubSeq(h1, 1, 64)
  <2> DEFINE a == Sha(Sha(h0))
             b == Sha(Sha(h1))
             i == sha256d_80_2way_midstate(h0, h1, Midstate(h0))
  <2>1. i = <<a, b>>
    BY <1>2, TwoHeaders
  <2>2. a \in Hash /\ b \in Hash
    BY OneHeader
  <2>3. civiclight_powhash(h0) = Core(h0, a) /\ civiclight_powhash(h1) = Core(h1, b)
    BY <2>2, OneHeader, CoreIs
  <2>4. civiclight_hash_2way(h0, h1) =
           IF IsV2(h0) /\ IsV2(h1) THEN civiclight_core_v2_2way(i[1], i[2])
           ELSE <<Core(h0, i[1]), Core(h1, i[2])>>
    BY <1>2 DEF civiclight_hash_2way, civiclight_powhash_2way_midstate
  <2>5. i[1] = a /\ i[2] = b
    BY <2>1
  <2> HIDE DEF a, b, i
  <2>6. CASE IsV2(h0) /\ IsV2(h1)
    <3>1. Core(h0, a) = civiclight_core_v2(a) /\ Core(h1, b) = civiclight_core_v2(b)
      BY <2>6 DEF Core
    <3>2. civiclight_core_v2_2way(a, b) = <<civiclight_core_v2(a), civiclight_core_v2(b)>>
      BY <2>2, TwoCores
    <3> QED
      BY <2>3, <2>4, <2>5, <2>6, <3>1, <3>2
  <2>7. CASE ~(IsV2(h0) /\ IsV2(h1))
    BY <2>3, <2>4, <2>5, <2>7
  <2> QED
    BY <2>6, <2>7
<1> QED
  BY <1>1, <1>2

(* The invariant: two headers, and the property itself. *)
PowInv == powIn \in Header \X Header /\ PathsAgree

(* No hash has been made yet. *)
LEMMA PowInitInv == PowInit => PowInv
<1>1. Headers \subseteq Header
  BY HeadersAssumption DEF Header, Octet
<1> QED
  BY <1>1 DEF PowInit, PowInv, PathsAgree

(* Each path hashes each header alike. *)
LEMMA PowHashesInv ==
  ASSUME DigestBytes, YespowerBytes, PowInv, PowHashes
  PROVE  PowInv'
<1> DEFINE h0 == powIn[1]
           h1 == powIn[2]
           p0 == Pow(h0, Sha(Sha(Sha(h0))))
           p1 == Pow(h1, Sha(Sha(Sha(h1))))
<1>1. h0 \in Header /\ h1 \in Header /\ powIn' = powIn
  BY DEF PowInv, PowHashes
<1>2. powOut' = [two |-> civiclight_hash_2way(h0, h1),
                 one |-> <<civiclight_powhash(h0), civiclight_powhash(h1)>>,
                 mid |-> <<civiclight_powhash_from_midstate(h0, Midstate(h0)),
                           civiclight_powhash_from_midstate(h1, Midstate(h1))>>]
  BY DEF PowHashes
<1>3. /\ civiclight_powhash(h0) = p0 /\ civiclight_powhash_from_midstate(h0, Midstate(h0)) = p0
      /\ civiclight_powhash(h1) = p1 /\ civiclight_powhash_from_midstate(h1, Midstate(h1)) = p1
  BY <1>1, OneHeader
<1>4. civiclight_hash_2way(h0, h1) = <<p0, p1>>
  <2>1. h0 \in Header /\ h1 \in Header
    BY <1>1
  <2> HIDE DEF h0, h1, p0, p1
  <2>2. civiclight_hash_2way(h0, h1) = <<civiclight_powhash(h0), civiclight_powhash(h1)>>
    BY <2>1, TwoIsOne
  <2> QED
    BY <2>2, <1>3
<1>5. powOut'.two = <<p0, p1>> /\ powOut'.one = <<p0, p1>> /\ powOut'.mid = <<p0, p1>>
  BY <1>2, <1>3, <1>4
<1>6. ASSUME NEW k \in 1..2
      PROVE  powOut'.one[k] = Pow(powIn[k], Sha(Sha(Sha(powIn[k]))))
  <2>1. k = 1 \/ k = 2
    OBVIOUS
  <2> QED
    BY <2>1, <1>5
<1> QED
  BY <1>1, <1>5, <1>6 DEF PowInv, PathsAgree, Pow

(* Once they are made, the hashes of two headers are the algorithm's by    *)
(* each path (one at a time, two ways, from the midstate), for every pair  *)
(* of headers and every digest and yespower of 32 bytes.                   *)
THEOREM PathsAlike == DigestBytes /\ YespowerBytes => (PowSpec => []PathsAgree)
<1> SUFFICES ASSUME DigestBytes, YespowerBytes PROVE PowSpec => []PathsAgree
  OBVIOUS
<1>1. PowInit => PowInv
  BY PowInitInv
<1>2. PowInv /\ [PowHashes]_powvars => PowInv'
  <2>1. CASE PowHashes
    BY <2>1, PowHashesInv
  <2>2. CASE UNCHANGED powvars
    BY <2>2 DEF PowInv, PathsAgree, powvars, IsV2, extract_ntime
  <2> QED
    BY <2>1, <2>2
<1>3. PowInv => PathsAgree
  BY DEF PowInv
<1> QED
  BY <1>1, <1>2, <1>3, PTL DEF PowSpec

-----------------------------------------------------------------------------
(* The key of HMAC and its two pads. *)
KeyOf(K) == IF Len(K) > 64 THEN Sha(K) ELSE K
PadOf(b, k0) == Tuple([i \in 1..64 |-> XorByte(b, IF i <= Len(k0) THEN k0[i] ELSE 0)])

(* The definition of HMAC by the names above. *)
LEMMA HmacIs ==
  ASSUME NEW K, NEW m
  PROVE  Hmac(K, m) = Sha(PadOf(92, KeyOf(K)) \o Sha(PadOf(54, KeyOf(K)) \o m))
BY DEF Hmac, PadOf, KeyOf

(* The key is bytes. *)
LEMMA KeyIs ==
  ASSUME DigestBytes, NEW K \in Seq(Octet)
  PROVE  KeyOf(K) \in Seq(Octet)
BY ShaIsHash, HashSeq DEF KeyOf

(* A pad is a block of 64 bytes. *)
LEMMA PadIs ==
  ASSUME NEW b \in Octet, NEW k0 \in Seq(Octet)
  PROVE  /\ PadOf(b, k0) \in Seq(Octet) /\ Len(PadOf(b, k0)) = 64
         /\ PadOf(b, k0) = [i \in 1..64 |-> XorByte(b, IF i <= Len(k0) THEN k0[i] ELSE 0)]
<1> DEFINE f == [i \in 1..64 |-> XorByte(b, IF i <= Len(k0) THEN k0[i] ELSE 0)]
<1>1. ASSUME NEW i \in 1..64 PROVE (IF i <= Len(k0) THEN k0[i] ELSE 0) \in Octet
  <2>1. Len(k0) \in Nat /\ 0 \in Octet
    BY LenProperties DEF Octet
  <2>2. CASE i <= Len(k0)
    <3>1. i \in 1..Len(k0)
      BY <2>1, <2>2
    <3> QED
      BY <3>1, <2>2, ElementOfSeq
  <2>3. CASE ~(i <= Len(k0))
    BY <2>1, <2>3
  <2> QED
    BY <2>2, <2>3
<1>2. f \in [1..64 -> Octet] /\ 64 \in Nat
  BY <1>1, XorIsByte
<1>3. Tuple(f) = f /\ f \in Seq(Octet) /\ Len(f) = 64
  <2> HIDE DEF f
  <2> QED
    BY <1>2, TupleIs, FunctionSeq, ZenonT(60)
<1> QED
  BY <1>3 DEF PadOf

(* Both pads are blocks. *)
LEMMA PadsAre ==
  ASSUME DigestBytes, NEW K \in Seq(Octet)
  PROVE  /\ PadOf(54, KeyOf(K)) \in Seq(Octet) /\ Len(PadOf(54, KeyOf(K))) = 64
         /\ PadOf(92, KeyOf(K)) \in Seq(Octet) /\ Len(PadOf(92, KeyOf(K))) = 64
<1>1. 54 \in Octet /\ 92 \in Octet
  BY DEF Octet
<1> QED
  BY <1>1, KeyIs, PadIs, ZenonT(60)

(* Nothing changes in the exclusive or with zero. *)
LEMMA XorZero == XorByte(54, 0) = 54 /\ XorByte(92, 0) = 92
<1>1. 54 \div 128 = 0 /\ 54 \div 64 = 0 /\ 54 \div 32 = 1 /\ 54 \div 16 = 3 /\ 54 \div 8 = 6
      /\ 54 \div 4 = 13 /\ 54 \div 2 = 27 /\ 54 \div 1 = 54
  OBVIOUS
<1>2. 92 \div 128 = 0 /\ 92 \div 64 = 1 /\ 92 \div 32 = 2 /\ 92 \div 16 = 5 /\ 92 \div 8 = 11
      /\ 92 \div 4 = 23 /\ 92 \div 2 = 46 /\ 92 \div 1 = 92
  OBVIOUS
<1>3. ASSUME NEW w \in Nat \ {0} PROVE 0 \div w = 0
  BY <1>3
<1>4. 0 % 2 = 0 /\ 1 % 2 = 1 /\ 3 % 2 = 1 /\ 6 % 2 = 0 /\ 13 % 2 = 1 /\ 27 % 2 = 1 /\ 54 % 2 = 0
      /\ 2 % 2 = 0 /\ 5 % 2 = 1 /\ 11 % 2 = 1 /\ 23 % 2 = 1 /\ 46 % 2 = 0 /\ 92 % 2 = 0
  OBVIOUS
<1>5. /\ XorBit(54, 0, 128) = 0 /\ XorBit(54, 0, 64) = 0 /\ XorBit(54, 0, 32) = 32 /\ XorBit(54, 0, 16) = 16
      /\ XorBit(54, 0, 8) = 0 /\ XorBit(54, 0, 4) = 4 /\ XorBit(54, 0, 2) = 2 /\ XorBit(54, 0, 1) = 0
  BY <1>1, <1>3, <1>4 DEF XorBit
<1>6. /\ XorBit(92, 0, 128) = 0 /\ XorBit(92, 0, 64) = 64 /\ XorBit(92, 0, 32) = 0 /\ XorBit(92, 0, 16) = 16
      /\ XorBit(92, 0, 8) = 8 /\ XorBit(92, 0, 4) = 4 /\ XorBit(92, 0, 2) = 0 /\ XorBit(92, 0, 1) = 0
  BY <1>2, <1>3, <1>4 DEF XorBit
<1> QED
  BY <1>5, <1>6 DEF XorByte

(* The pads as the code lays them out. *)
CodePad(b, key) == Tuple([i \in 1..64 |-> IF i <= Len(key) THEN XorByte(b, key[i]) ELSE b])

(* They are the standard's pads. *)
LEMMA CodePadIs ==
  ASSUME NEW b \in {54, 92}, NEW key \in Seq(Octet)
  PROVE  CodePad(b, key) = PadOf(b, key)
<1>1. ASSUME NEW i \in 1..64
      PROVE  (IF i <= Len(key) THEN XorByte(b, key[i]) ELSE b)
                = XorByte(b, IF i <= Len(key) THEN key[i] ELSE 0)
  BY XorZero
<1> QED
  BY <1>1 DEF CodePad, PadOf

-----------------------------------------------------------------------------
(* The two contexts of HMAC, fed with m. *)
Keyed(h, K, m) ==
  /\ h = [ictx |-> h.ictx, octx |-> h.octx]
  /\ Holds(h.ictx, PadOf(54, KeyOf(K)) \o m, 8)
  /\ Holds(h.octx, PadOf(92, KeyOf(K)), 8)

(* A context newly started has taken in nothing. *)
LEMMA FreshIs == Holds(YP_SHA256_Init(sha256_ctx_init), <<>>, 8)
<1> DEFINE c == sha256_ctx_init
           f == YP_SHA256_Init(c)
<1>1. c = [state |-> Iv, buf |-> Leftover, count |-> 0]
  BY DEF sha256_ctx_init
<1>2. f = [state |-> Iv, buf |-> Leftover, count |-> 0]
  <2> HIDE DEF c
  <2>1. f = [c EXCEPT !.state = Iv, !.count = 0]
    BY DEF YP_SHA256_Init
  <2>2. /\ c = [state |-> c.state, buf |-> c.buf, count |-> c.count] /\ c.buf = Leftover
    BY <1>1
  <2>3. [c EXCEPT !.state = Iv] = [state |-> Iv, buf |-> c.buf, count |-> c.count]
    BY <2>2
  <2> QED
    BY <2>1, <2>2, <2>3
<1>3. f = c
  BY <1>1, <1>2
<1> QED
  BY <1>3, InitHolds

(* It has taken in the first bytes fed. *)
LEMMA FirstHolds ==
  ASSUME NEW d \in Seq(Octet)
  PROVE  Holds(YpUpdate(YP_SHA256_Init(sha256_ctx_init), d), d, 8)
<1>1. <<>> \in Seq(Octet) /\ <<>> \o d = d
  BY EmptySeq, ConcatEmptySeq
<1>2. Holds(YpUpdate(YP_SHA256_Init(sha256_ctx_init), d), <<>> \o d, 8)
  BY <1>1, FreshIs, YpUpdateHolds
<1> QED
  BY <1>1, <1>2

(* _HMAC_SHA256_Init feeds the two pads, a long key hashed first. *)
LEMMA HmacInitKeyed ==
  ASSUME DigestBytes, NEW K \in Seq(Octet)
  PROVE  Keyed(_HMAC_SHA256_Init(K), K, <<>>)
<1> DEFINE fresh == YP_SHA256_Init(sha256_ctx_init)
           key == IF Len(K) > 64 THEN YpFinal(YpUpdate(fresh, K)) ELSE K
           h == _HMAC_SHA256_Init(K)
<1>1. key = KeyOf(K)
  <2>1. YpFinal(YpUpdate(fresh, K)) = Sha(K)
    BY FirstHolds, YpFinalIsSha
  <2> QED
    BY <2>1 DEF KeyOf
<1>2. h = [ictx |-> YpUpdate(fresh, CodePad(54, key)), octx |-> YpUpdate(fresh, CodePad(92, key))]
  BY DEF _HMAC_SHA256_Init, CodePad
<1> HIDE DEF h, key, fresh
<1>3. KeyOf(K) \in Seq(Octet)
  BY KeyIs
<1> DEFINE p == PadOf(54, KeyOf(K))
           s == PadOf(92, KeyOf(K))
<1>4. h = [ictx |-> YpUpdate(fresh, p), octx |-> YpUpdate(fresh, s)]
  BY <1>1, <1>2, <1>3, CodePadIs
<1>5. p \in Seq(Octet) /\ s \in Seq(Octet)
  BY PadsAre
<1> HIDE DEF p, s
<1>6. Holds(YpUpdate(fresh, p), p, 8) /\ Holds(YpUpdate(fresh, s), s, 8)
  BY <1>5, FirstHolds DEF fresh
<1>7. p \o <<>> = p
  BY <1>5, ConcatEmptySeq
<1>8. Keyed(h, K, <<>>)
  BY <1>4, <1>6, <1>7 DEF Keyed, p, s
<1> QED
  BY <1>8 DEF h

(* An update feeds the inner context. *)
LEMMA HmacUpdateKeyed ==
  ASSUME DigestBytes, NEW K \in Seq(Octet), NEW m \in Seq(Octet), NEW d \in Seq(Octet), NEW h, Keyed(h, K, m)
  PROVE  Keyed(_HMAC_SHA256_Update(h, d), K, m \o d)
<1> DEFINE p == PadOf(54, KeyOf(K))
           g == _HMAC_SHA256_Update(h, d)
<1>1. p \in Seq(Octet)
  BY PadsAre
<1>2. h = [ictx |-> h.ictx, octx |-> h.octx] /\ Holds(h.ictx, p \o m, 8) /\ Holds(h.octx, PadOf(92, KeyOf(K)), 8)
  BY DEF Keyed
<1>3. g = [ictx |-> YpUpdate(h.ictx, d), octx |-> h.octx]
  BY <1>2 DEF _HMAC_SHA256_Update
<1> HIDE DEF p, g
<1>4. p \o m \in Seq(Octet) /\ (p \o m) \o d = p \o (m \o d)
  BY <1>1, ConcatProperties, ConcatAssociative
<1>5. Holds(YpUpdate(h.ictx, d), p \o (m \o d), 8)
  <2>1. Holds(YpUpdate(h.ictx, d), (p \o m) \o d, 8)
    BY <1>2, <1>4, YpUpdateHolds
  <2> QED
    BY <2>1, <1>4
<1>6. Keyed(g, K, m \o d)
  BY <1>2, <1>3, <1>5 DEF Keyed, p
<1> QED
  BY <1>6 DEF g

(* The final makes the HMAC of what was fed. *)
LEMMA HmacFinalIs ==
  ASSUME DigestBytes, NEW K \in Seq(Octet), NEW m \in Seq(Octet), NEW h, Keyed(h, K, m)
  PROVE  _HMAC_SHA256_Final(h) = Hmac(K, m) /\ Hmac(K, m) \in Hash
<1> DEFINE p == PadOf(54, KeyOf(K))
           s == PadOf(92, KeyOf(K))
           inner == YpFinal(h.ictx)
<1>1. p \in Seq(Octet) /\ s \in Seq(Octet)
  BY PadsAre
<1>2. Holds(h.ictx, p \o m, 8) /\ Holds(h.octx, s, 8)
  BY DEF Keyed
<1> HIDE DEF p, s
<1>3. p \o m \in Seq(Octet)
  BY <1>1, ConcatProperties
<1>4. inner = Sha(p \o m) /\ Sha(p \o m) \in Hash
  BY <1>2, <1>3, YpFinalIsSha, ShaIsHash
<1> DEFINE x == Sha(p \o m)
<1>5. x \in Seq(Octet)
  BY <1>4, HashSeq
<1> HIDE DEF x, inner
<1>6. Holds(YpUpdate(h.octx, x), s \o x, 8) /\ s \o x \in Seq(Octet)
  BY <1>1, <1>2, <1>5, YpUpdateHolds, ConcatProperties
<1>7. YpFinal(YpUpdate(h.octx, x)) = Sha(s \o x) /\ Sha(s \o x) \in Hash
  BY <1>6, YpFinalIsSha, ShaIsHash
<1>8. _HMAC_SHA256_Final(h) = YpFinal(YpUpdate(h.octx, x))
  BY <1>4 DEF _HMAC_SHA256_Final, inner, x
<1>9. Hmac(K, m) = Sha(s \o x)
  BY HmacIs DEF p, s, x
<1> QED
  BY <1>7, <1>8, <1>9

-----------------------------------------------------------------------------
(* A buffer that holds the last, padded block of m, whole blocks before. *)
LaidPadding(buf, m, q, r) ==
  /\ Marked(buf, m, q, r, 56)
  /\ \A j \in 1..8 : buf[56 + j] = Be64(8 * Len(m))[j]

(* That block, compressed, ends the padded message. *)
LEMMA LaidIs ==
  ASSUME NEW m \in Seq(Octet), NEW q \in Nat, NEW r \in 0..55, Len(m) = 64 * q + r,
         NEW blk, LaidPadding(blk, m, q, r)
  PROVE  Compress(BlocksOf(m, q), blk) = Chain(Iv, Padded(m))
BY HandPadded DEF LaidPadding

(* An update that stays inside the buffer. *)
LEMMA StaysInside ==
  ASSUME NEW ctx, NEW data \in Seq(Octet), NEW r \in 0..63, (ctx.count \div 8) % 64 = r, Len(data) < 64 - r,
         ctx = [state |-> ctx.state, buf |-> ctx.buf, count |-> ctx.count], data # <<>>
  PROVE  YpUpdate(ctx, data) =
            [state |-> ctx.state, buf |-> Patch(ctx.buf, r, data), count |-> ctx.count + 8 * Len(data)]
<1> DEFINE b == Patch(ctx.buf, r, data)
           c == ctx.count + 8 * Len(data)
<1>1. YpUpdate(ctx, data) = [ctx EXCEPT !.buf = b, !.count = c]
  BY DEF YpUpdate, Absorb
<1> HIDE DEF b, c
<1>2. [ctx EXCEPT !.buf = b] = [state |-> ctx.state, buf |-> b, count |-> ctx.count]
  OBVIOUS
<1>3. YpUpdate(ctx, data) = [state |-> ctx.state, buf |-> b, count |-> c]
  BY <1>1, <1>2
<1> QED
  BY <1>3 DEF b, c

(* All but the last compression leaves the padded block in the buffer. *)
LEMMA PadAlmostIs ==
  ASSUME NEW m \in Seq(Octet), NEW q \in Nat, NEW r \in 0..55, Len(m) = 64 * q + r,
         NEW ctx, Holds(ctx, m, 8)
  PROVE  /\ SHA256_Pad_Almost(ctx).state = BlocksOf(m, q)
         /\ LaidPadding(SHA256_Pad_Almost(ctx).buf, m, q, r)
<1> DEFINE len == Be64(8 * Len(m))
           P == SubSeq(<<128>> \o Zeros(63), 1, 56 - r)
           s == SubSeq(len, 1, 7)
           l == <<len[8]>>
           st == BlocksOf(m, q)
           b1 == Patch(ctx.buf, r, P)
           b2 == Patch(b1, 63, l)
           b3 == Patch(b2, 56, s)
           c0 == 8 * Len(m)
           c1 == c0 + 8 * Len(P)
           padded == YpUpdate(ctx, P)
           last == [padded EXCEPT !.buf = Patch(@, 63, l)]
<1>1. /\ ctx = [state |-> st, buf |-> ctx.buf, count |-> c0]
      /\ ctx.state = st /\ ctx.count = c0 /\ ctx.buf \in Buffer /\ \A k \in 1..r : ctx.buf[k] = m[64 * q + k]
  <2>1. Len(m) \div 64 = q /\ Len(m) % 64 = r
    <3>1. Len(m) \in Nat /\ r \in 0..63
      BY LenProperties
    <3> QED
      BY <3>1, BlockCount
  <2> QED
    BY <2>1 DEF Holds
<1>2. (c0 \div 8) % 64 = r /\ c0 \in Nat
  <2>1. (8 * Len(m)) \div 8 = Len(m) /\ Len(m) % 64 = r
    <3>1. Len(m) \in Nat /\ r \in 0..63
      BY LenProperties
    <3>2. Len(m) % 64 = r
      BY <3>1, BlockCount
    <3> QED
      BY <3>1, <3>2
  <2> QED
    BY <2>1
<1>3. len \in Seq(Octet) /\ Len(len) = 8
  BY <1>2, Width64
<1>4. P \in Seq(Octet) /\ Len(P) = 56 - r /\ P # <<>>
  <2> DEFINE z == <<128>> \o Zeros(63)
  <2>1. z \in Seq(Octet) /\ Len(z) = 64
    <3>1. <<128>> \in Seq(Octet) /\ Zeros(63) \in Seq(Octet)
      BY ZerosAre, OneByte
    <3>2. z \in Seq(Octet) /\ Len(z) = Len(<<128>>) + Len(Zeros(63))
      BY <3>1, Joined
    <3>3. Len(<<128>>) = 1 /\ Len(Zeros(63)) = 63
      BY ZerosAre, OneByte
    <3> DEFINE o == Len(<<128>>)
               n == Len(Zeros(63))
               k == Len(z)
    <3>4. k = o + n /\ o = 1 /\ n = 63
      BY <3>2, <3>3
    <3> HIDE DEF z, o, n, k
    <3>5. k = 64
      BY <3>4
    <3> QED
      BY <3>2, <3>5 DEF k
  <2> HIDE DEF z
  <2>2. 56 - r \in 0..Len(z) /\ 56 - r # 0
    BY <2>1
  <2>3. SubSeq(z, 1, 56 - r) \in Seq(Octet) /\ Len(SubSeq(z, 1, 56 - r)) = 56 - r
    BY <2>1, <2>2, TakeIs, ZenonT(60)
  <2> QED
    BY <2>2, <2>3, EmptySeq DEF z
<1>5. s \in Seq(Octet) /\ Len(s) = 7 /\ \A k \in 1..7 : s[k] = len[k]
  <2> DEFINE n == 7
  <2> HIDE DEF len
  <2>1. len \in Seq(Octet) /\ n \in 0..Len(len)
    BY <1>3
  <2> HIDE DEF n
  <2>2. /\ SubSeq(len, 1, n) \in Seq(Octet) /\ Len(SubSeq(len, 1, n)) = n
        /\ \A k \in 1..n : SubSeq(len, 1, n)[k] = len[k]
    BY <2>1, TakeIs
  <2> QED
    BY <2>2 DEF n
<1>6. l \in Seq(Octet) /\ Len(l) = 1 /\ l[1] = len[8]
  <2>1. len[8] \in Octet
    BY <1>3, ElementOfSeq
  <2> QED
    BY <2>1
<1>7. SHA256_Pad_Almost(ctx) = YpUpdate(last, s)
  BY <1>1, <1>2, ZenonT(60) DEF SHA256_Pad_Almost
<1> HIDE DEF len, P, st, c0
<1>8. padded = [state |-> st, buf |-> b1, count |-> c1]
  <2>1. r \in 0..63 /\ Len(P) < 64 - r
    BY <1>4
  <2> QED
    BY <1>1, <1>2, <1>4, <2>1, StaysInside, ZenonT(60)
<1> HIDE DEF padded
<1>9. last = [state |-> st, buf |-> b2, count |-> c1]
  <2>1. padded.buf = b1
    BY <1>8
  <2> HIDE DEF b1, c1, b2
  <2>2. last = [padded EXCEPT !.buf = b2]
    BY <2>1 DEF b2
  <2> HIDE DEF last
  <2> QED
    BY <1>8, <2>2
<1> HIDE DEF last
<1>10. (c1 \div 8) % 64 = 56
  <2>1. c1 = 8 * (64 * q + 56)
    BY <1>4 DEF c0
  <2> HIDE DEF c1
  <2>2. c1 \div 8 = 64 * q + 56
    BY <2>1
  <2>3. (64 * q + 56) % 64 = 56
    <3>1. 64 * q + 56 \in Nat /\ 56 \in 0..63
      OBVIOUS
    <3> QED
      BY <3>1, BlockCount
  <2> QED
    BY <2>2, <2>3
<1>11. YpUpdate(last, s).state = st /\ YpUpdate(last, s).buf = b3
  <2> HIDE DEF b1, b2, c1, s
  <2>1. last = [state |-> last.state, buf |-> last.buf, count |-> last.count]
        /\ last.state = st /\ last.buf = b2 /\ last.count = c1
    BY <1>9
  <2>2. 56 \in 0..63 /\ Len(s) < 64 - 56 /\ s # <<>>
    <3>1. Len(s) = 7
      BY <1>5
    <3>2. Len(<<>>) = 0
      BY EmptySeq
    <3>3. s # <<>>
      <4>1. Len(s) # Len(<<>>)
        BY <3>1, <3>2
      <4> QED
        BY <4>1, Zenon
    <3> QED
      BY <3>1, <3>3
  <2>3. YpUpdate(last, s) = [state |-> last.state, buf |-> Patch(last.buf, 56, s), count |-> last.count + 8 * Len(s)]
    BY <1>5, <1>10, <2>1, <2>2, StaysInside, ZenonT(60)
  <2> QED
    BY <2>1, <2>3
<1>12. Marked(b1, m, q, r, 56)
  <2> DEFINE top == 56
  <2>1. top \in (r + 1)..64 /\ r \in 0..63
    OBVIOUS
  <2>2. b1 = Patch(ctx.buf, r, SubSeq(<<128>> \o Zeros(63), 1, top - r))
    BY DEF P
  <2> HIDE DEF top, b1
  <2>3. ctx.buf \in Buffer /\ \A k \in 1..r : ctx.buf[k] = m[64 * q + k]
    BY <1>1
  <2>4. Marked(Patch(ctx.buf, r, SubSeq(<<128>> \o Zeros(63), 1, top - r)), m, q, r, top)
    BY <2>1, <2>3, MarkedInOne
  <2> QED
    BY <2>2, <2>4 DEF top
<1> HIDE DEF b1, s, l
<1>13. b2 \in Buffer /\ b2[64] = len[8] /\ \A k \in 1..63 : b2[k] = b1[k]
  <2>1. b1 \in Buffer /\ 63 \in Nat /\ 63 + Len(l) <= 64
    BY <1>6, <1>12 DEF Marked
  <2>2. /\ b2 \in Buffer /\ \A j \in 1..Len(l) : b2[63 + j] = l[j]
        /\ \A k \in 1..64 : k <= 63 \/ k > 63 + Len(l) => b2[k] = b1[k]
    BY <1>6, <2>1, PatchAt, ZenonT(60)
  <2> HIDE DEF b2
  <2>3. b2[63 + 1] = l[1]
    <3>1. 1 \in 1..Len(l)
      BY <1>6
    <3> QED
      BY <3>1, <2>2
  <2>4. \A k \in 1..63 : b2[k] = b1[k]
    <3> TAKE k \in 1..63
    <3>1. k \in 1..64 /\ k <= 63
      OBVIOUS
    <3> QED
      BY <3>1, <2>2
  <2> QED
    BY <1>6, <2>2, <2>3, <2>4
<1> HIDE DEF b2
<1>14. b3 \in Buffer /\ (\A j \in 1..7 : b3[56 + j] = len[j]) /\ b3[64] = len[8] /\ \A k \in 1..56 : b3[k] = b1[k]
  <2>1. b2 \in Buffer /\ 56 \in Nat /\ 56 + Len(s) <= 64
    BY <1>5, <1>13
  <2>2. /\ b3 \in Buffer /\ \A j \in 1..Len(s) : b3[56 + j] = s[j]
        /\ \A k \in 1..64 : k <= 56 \/ k > 56 + Len(s) => b3[k] = b2[k]
    BY <1>5, <2>1, PatchAt, ZenonT(60)
  <2> HIDE DEF b3
  <2>3. \A j \in 1..7 : b3[56 + j] = len[j]
    BY <1>5, <2>2
  <2>4. b3[64] = b2[64]
    <3>1. 64 \in 1..64 /\ 64 > 56 + Len(s)
      BY <1>5
    <3> QED
      BY <3>1, <2>2
  <2>5. \A k \in 1..56 : b3[k] = b2[k]
    <3> TAKE k \in 1..56
    <3>1. k \in 1..64 /\ k <= 56
      OBVIOUS
    <3> QED
      BY <3>1, <2>2
  <2> QED
    BY <1>13, <2>2, <2>3, <2>4, <2>5
<1> HIDE DEF b3
<1>15. Marked(b3, m, q, r, 56)
  <2>1. \A k \in 1..r : k \in 1..56
    OBVIOUS
  <2>2. r + 1 \in 1..56 /\ \A k \in (r + 2)..56 : k \in 1..56
    OBVIOUS
  <2>3. /\ \A k \in 1..r : b1[k] = m[64 * q + k]
        /\ b1[r + 1] = 128 /\ \A k \in (r + 2)..56 : b1[k] = 0
    BY <1>12 DEF Marked
  <2>4. b3 \in Buffer /\ \A k \in 1..56 : b3[k] = b1[k]
    BY <1>14
  <2>5. \A k \in 1..r : b3[k] = m[64 * q + k]
    BY <2>1, <2>3, <2>4, ZenonT(60)
  <2>6. b3[r + 1] = 128
    BY <2>2, <2>3, <2>4, ZenonT(60)
  <2>7. \A k \in (r + 2)..56 : b3[k] = 0
    BY <2>2, <2>3, <2>4, ZenonT(60)
  <2> QED
    BY <2>4, <2>5, <2>6, <2>7 DEF Marked
<1>16. \A j \in 1..8 : b3[56 + j] = len[j]
  <2> TAKE j \in 1..8
  <2>1. CASE j \in 1..7
    BY <2>1, <1>14
  <2>2. CASE j = 8
    BY <2>2, <1>14
  <2> QED
    BY <2>1, <2>2
<1>17. LaidPadding(b3, m, q, r)
  BY <1>15, <1>16 DEF LaidPadding, len
<1> QED
  BY <1>7, <1>11, <1>17 DEF st

(* Other bytes in place of the last ones, in the padded buffer. *)
Replaces(y, x, a, q, at, r) ==
  /\ a \in Seq(Octet) /\ x \in Seq(Octet) /\ y \in Seq(Octet) /\ Len(x) = Len(y)
  /\ q \in Nat /\ at \in Nat /\ r \in 0..55
  /\ Len(a) = 64 * q + at /\ at + Len(x) = r

(* The padded buffer serves for each end of the same length. *)
LEMMA Repatched ==
  ASSUME NEW a, NEW x, NEW y, NEW q, NEW at, NEW r, Replaces(y, x, a, q, at, r),
         NEW buf, LaidPadding(buf, a \o x, q, r)
  PROVE  Compress(BlocksOf(a \o x, q), Patch(buf, at, y)) = Chain(Iv, Padded(a \o y))
<1> DEFINE m == a \o x
           n == a \o y
           b == Patch(buf, at, y)
<1> USE DEF Replaces
<1>0. Len(a) \in Nat /\ Len(x) \in Nat /\ Len(y) \in Nat
  BY LenProperties
<1>1. /\ m \in Seq(Octet) /\ Len(m) = Len(a) + Len(x)
      /\ \A j \in 1..Len(a) : m[j] = a[j]
  <2>1. a \in Seq(Octet) /\ x \in Seq(Octet)
    OBVIOUS
  <2> QED
    BY <2>1, Joined
<1>2. /\ n \in Seq(Octet) /\ Len(n) = Len(a) + Len(y)
      /\ \A j \in 1..Len(a) : n[j] = a[j]
      /\ \A j \in 1..Len(y) : n[Len(a) + j] = y[j]
  <2>1. a \in Seq(Octet) /\ y \in Seq(Octet)
    OBVIOUS
  <2> QED
    BY <2>1, Joined
<1> HIDE DEF m, n
<1>3. Len(m) = 64 * q + r /\ Len(n) = 64 * q + r
  <2>1. Len(a) + Len(x) = 64 * q + r
    BY <1>0
  <2> QED
    BY <1>1, <1>2, <2>1
<1>4. BlocksOf(m, q) = BlocksOf(n, q)
  <2>1. 64 * q <= Len(m) /\ 64 * q <= Len(n)
    BY <1>3
  <2>2. \A j \in 1..(64 * q) : m[j] = n[j]
    <3> TAKE j \in 1..(64 * q)
    <3>1. j \in 1..Len(a)
      OBVIOUS
    <3> QED
      BY <3>1, <1>1, <1>2
  <2> QED
    BY <1>1, <1>2, <2>1, <2>2, PrefixBlocks
<1>5. /\ buf \in Buffer /\ \A k \in 1..r : buf[k] = m[64 * q + k]
      /\ buf[r + 1] = 128 /\ \A k \in (r + 2)..56 : buf[k] = 0
      /\ \A j \in 1..8 : buf[56 + j] = Be64(8 * Len(m))[j]
  BY DEF LaidPadding, Marked, m
<1>6. /\ b \in Buffer
      /\ \A j \in 1..Len(y) : b[at + j] = y[j]
      /\ \A k \in 1..64 : k <= at \/ k > at + Len(y) => b[k] = buf[k]
  <2>1. at + Len(y) <= 64
    BY <1>0
  <2> QED
    <3>1. buf \in Buffer
      BY <1>5
    <3> QED
      BY <3>1, <2>1, PatchAt
<1> HIDE DEF b
<1>7. \A k \in 1..64 : k <= at \/ k > r => b[k] = buf[k]
  <2>1. at + Len(y) = r
    OBVIOUS
  <2> QED
    BY <1>6, <2>1
<1>8. \A k \in 1..r : b[k] = n[64 * q + k]
  <2> TAKE k \in 1..r
  <2>1. CASE k <= at
    <3>1. k \in 1..64 /\ 64 * q + k \in 1..Len(a)
      BY <2>1
    <3>2. b[k] = buf[k] /\ buf[k] = m[64 * q + k]
      BY <3>1, <2>1, <1>5, <1>7
    <3>3. m[64 * q + k] = a[64 * q + k] /\ n[64 * q + k] = a[64 * q + k]
      BY <3>1, <1>1, <1>2
    <3> QED
      BY <3>2, <3>3
  <2>2. CASE ~(k <= at)
    <3>1. k - at \in 1..Len(y) /\ at + (k - at) = k /\ Len(a) + (k - at) = 64 * q + k
      BY <2>2, <1>0
    <3>2. b[at + (k - at)] = y[k - at] /\ n[Len(a) + (k - at)] = y[k - at]
      BY <3>1, <1>2, <1>6
    <3> QED
      BY <3>1, <3>2
  <2> QED
    BY <2>1, <2>2
<1>9. b[r + 1] = 128
  <2>1. r + 1 \in 1..64 /\ r + 1 > r
    OBVIOUS
  <2> QED
    BY <2>1, <1>5, <1>7, ZenonT(60)
<1>10. \A k \in (r + 2)..56 : b[k] = 0
  <2> TAKE k \in (r + 2)..56
  <2>1. k \in 1..64 /\ k > r
    OBVIOUS
  <2> QED
    BY <2>1, <1>5, <1>7, ZenonT(60)
<1>11. \A j \in 1..8 : b[56 + j] = Be64(8 * Len(n))[j]
  <2> TAKE j \in 1..8
  <2>1. 56 + j \in 1..64 /\ 56 + j > r
    OBVIOUS
  <2>2. b[56 + j] = buf[56 + j]
    BY <2>1, <1>7
  <2>3. Len(m) = Len(n)
    BY <1>3
  <2> QED
    BY <2>2, <2>3, <1>5, ZenonT(60)
<1>12. LaidPadding(b, n, q, r)
  BY <1>6, <1>8, <1>9, <1>10, <1>11 DEF LaidPadding, Marked
<1>13. Compress(BlocksOf(n, q), b) = Chain(Iv, Padded(n))
  BY <1>2, <1>3, <1>12, LaidIs
<1> QED
  BY <1>4, <1>13 DEF b, m, n

-----------------------------------------------------------------------------
(* The inner block: the padding of any block number. *)
LEMMA InnerBlock ==
  ASSUME NEW m \in Seq(Octet), NEW ctx, Holds(ctx, m, 8), Len(m) % 64 <= 51, NEW i \in Nat
  PROVE  LET ictx == SHA256_Pad_Almost(YpUpdate(ctx, Zeros(4)))
         IN  Digest(Compress(ictx.state, Patch(ictx.buf, Len(m) % 64, Be32(i)))) = Sha(m \o Be32(i))
<1> DEFINE q == Len(m) \div 64
           at == Len(m) % 64
           x == Zeros(4)
           y == Be32(i)
           r == at + 4
           fed == YpUpdate(ctx, x)
           ictx == SHA256_Pad_Almost(fed)
<1>1. q \in Nat /\ at \in 0..51 /\ Len(m) = 64 * q + at
  <2>1. Len(m) \in Nat
    BY LenProperties
  <2> QED
    <3>1. q \in Nat /\ at \in 0..63 /\ Len(m) = 64 * q + at
      BY <2>1, WholeBlocks
    <3>2. at <= 51
      OBVIOUS
    <3> HIDE DEF q, at
    <3> QED
      BY <3>1, <3>2
<1>2. x \in Seq(Octet) /\ Len(x) = 4 /\ y \in Seq(Octet) /\ Len(y) = 4
  BY ZerosAre, Width32
<1> HIDE DEF q, at, x, y
<1>3. r \in 0..55 /\ at \in Nat /\ at + Len(x) = r
  <2>1. at \in 0..51
    BY <1>1
  <2>2. Len(x) = 4
    BY <1>2
  <2> QED
    BY <2>1, <2>2
<1>4. Holds(fed, m \o x, 8)
  BY <1>2, YpUpdateHolds
<1> HIDE DEF r, fed
<1>5. m \o x \in Seq(Octet) /\ Len(m \o x) = 64 * q + r
  <2>1. m \o x \in Seq(Octet) /\ Len(m \o x) = Len(m) + Len(x)
    <3>1. x \in Seq(Octet)
      BY <1>2
    <3> QED
      BY <3>1, Joined
  <2>2. Len(m) + Len(x) = 64 * q + r
    BY <1>1, <1>2, <1>3
  <2> QED
    BY <2>1, <2>2
<1>6. ictx.state = BlocksOf(m \o x, q) /\ LaidPadding(ictx.buf, m \o x, q, r)
  BY <1>1, <1>3, <1>4, <1>5, PadAlmostIs
<1> HIDE DEF ictx
<1>7. Len(x) = Len(y)
  BY <1>2
<1>8. Compress(BlocksOf(m \o x, q), Patch(ictx.buf, at, y)) = Chain(Iv, Padded(m \o y))
  <2>1. x \in Seq(Octet) /\ y \in Seq(Octet)
    BY <1>2
  <2>2. q \in Nat /\ at \in Nat /\ r \in 0..55 /\ Len(m) = 64 * q + at /\ at + Len(x) = r
    BY <1>1, <1>3
  <2>3. LaidPadding(ictx.buf, m \o x, q, r)
    BY <1>6
  <2>4. Replaces(y, x, m, q, at, r)
    BY <1>7, <2>1, <2>2 DEF Replaces
  <2> QED
    BY <2>3, <2>4, Repatched
<1>9. Digest(Compress(ictx.state, Patch(ictx.buf, at, y))) = Sha(m \o y)
  BY <1>6, <1>8 DEF Sha
<1> QED
  BY <1>9 DEF ictx, fed, x, y, at

(* The outer block: as if its 32 bytes had been fed. *)
OneBlock == {m \in Seq(Octet) : Len(m) = 64}

(* The padded outer block serves for each inner hash. *)
LEMMA OuterBlock ==
  ASSUME NEW m \in OneBlock, NEW ctx, Holds(ctx, m, 8), NEW y \in Hash
  PROVE  LET octx == SHA256_Pad_Almost([ctx EXCEPT !.count = @ + 256])
         IN  Digest(Compress(octx.state, Patch(octx.buf, 0, y))) = Sha(m \o y)
<1> DEFINE x == [k \in 1..32 |-> ctx.buf[k]]
           t == m \o x
           fed == [ctx EXCEPT !.count = @ + 256]
           octx == SHA256_Pad_Almost(fed)
<1>0. m \in Seq(Octet) /\ Len(m) = 64
  BY DEF OneBlock
<1>1. ctx = [state |-> BlocksOf(m, 1), buf |-> ctx.buf, count |-> 512] /\ ctx.buf \in Buffer
  <2>1. 64 \div 64 = 1 /\ 8 * 64 = 512
    OBVIOUS
  <2>2. ctx = [state |-> BlocksOf(m, Len(m) \div 64), buf |-> ctx.buf, count |-> 8 * Len(m)] /\ ctx.buf \in Buffer
    BY DEF Holds
  <2> QED
    BY <1>0, <2>1, <2>2
<1>2. x \in Hash
  <2>1. \A k \in 1..32 : ctx.buf[k] \in Octet
    BY <1>1 DEF Buffer
  <2> QED
    BY <2>1 DEF Hash
<1>3. x \in Seq(Octet) /\ Len(x) = 32 /\ y \in Seq(Octet) /\ Len(y) = 32
  BY <1>2, HashSeq
<1>4. \A k \in 1..32 : x[k] = ctx.buf[k]
  OBVIOUS
<1>5. fed = [state |-> BlocksOf(m, 1), buf |-> ctx.buf, count |-> 768]
  <2>1. ctx.count = 512 /\ ctx.count + 256 = 768
    BY <1>1
  <2>2. fed = [ctx EXCEPT !.count = 768]
    BY <2>1
  <2> HIDE DEF fed
  <2> QED
    BY <1>1, <2>2
<1> HIDE DEF x, fed
<1>6. /\ t \in Seq(Octet) /\ Len(t) = Len(m) + Len(x)
      /\ \A j \in 1..Len(m) : t[j] = m[j]
      /\ \A j \in 1..Len(x) : t[Len(m) + j] = x[j]
  <2>1. m \in Seq(Octet) /\ x \in Seq(Octet)
    BY <1>0, <1>3
  <2> QED
    BY <2>1, Joined
<1> HIDE DEF t
<1>7. Len(t) = 96 /\ Len(t) \div 64 = 1 /\ Len(t) % 64 = 32 /\ 8 * Len(t) = 768
  <2>1. Len(t) = 96
    BY <1>0, <1>3, <1>6
  <2>2. 96 \div 64 = 1 /\ 96 % 64 = 32 /\ 8 * 96 = 768
    OBVIOUS
  <2> QED
    BY <2>1, <2>2
<1>8. BlocksOf(t, 1) = BlocksOf(m, 1)
  <2> DEFINE q == 1
  <2>1. q \in Nat /\ 64 * q <= Len(m) /\ 64 * q <= Len(t)
    BY <1>0, <1>7
  <2>2. \A j \in 1..(64 * q) : t[j] = m[j]
    <3> TAKE j \in 1..(64 * q)
    <3>1. j \in 1..Len(m)
      BY <1>0
    <3> QED
      BY <3>1, <1>6
  <2> HIDE DEF q
  <2>3. t \in Seq(Octet) /\ m \in Seq(Octet)
    BY <1>0, <1>6
  <2>4. BlocksOf(t, q) = BlocksOf(m, q)
    BY <2>1, <2>2, <2>3, PrefixBlocks
  <2> QED
    BY <2>4 DEF q
<1>9. \A k \in 1..32 : fed.buf[k] = t[64 * 1 + k]
  <2> TAKE k \in 1..32
  <2>1. fed.buf = ctx.buf /\ x[k] = ctx.buf[k]
    BY <1>4, <1>5
  <2>2. t[Len(m) + k] = x[k]
    BY <1>3, <1>6
  <2>3. Len(m) + k = 64 * 1 + k
    BY <1>0
  <2> QED
    BY <2>1, <2>2, <2>3
<1>10. Holds(fed, t, 8)
  <2>1. fed.buf \in Buffer /\ fed = [state |-> BlocksOf(t, 1), buf |-> fed.buf, count |-> 768]
    BY <1>1, <1>5, <1>8
  <2> QED
    BY <2>1, <1>7, <1>9 DEF Holds
<1>11. octx.state = BlocksOf(t, 1) /\ LaidPadding(octx.buf, t, 1, 32)
  <2> DEFINE q == 1
             r == 32
  <2>1. q \in Nat /\ r \in 0..55 /\ Len(t) = 64 * q + r
    BY <1>7
  <2> HIDE DEF q, r, octx
  <2>2. octx.state = BlocksOf(t, q) /\ LaidPadding(octx.buf, t, q, r)
    <3>1. t \in Seq(Octet)
      BY <1>6
    <3> QED
      BY <3>1, <1>10, <2>1, PadAlmostIs DEF octx
  <2> QED
    BY <2>2 DEF q, r
<1> HIDE DEF octx
<1>12. Compress(BlocksOf(m \o x, 1), Patch(octx.buf, 0, y)) = Chain(Iv, Padded(m \o y))
  <2> DEFINE q == 1
             r == 32
             at == 0
  <2>1. /\ q \in Nat /\ at \in Nat /\ r \in 0..55 /\ Len(m) = 64 * q + at
        /\ at + Len(x) = r /\ Len(x) = Len(y)
    BY <1>0, <1>3
  <2>2. LaidPadding(octx.buf, m \o x, q, r)
    BY <1>11 DEF t
  <2> HIDE DEF q, r, at
  <2>3. Compress(BlocksOf(m \o x, q), Patch(octx.buf, at, y)) = Chain(Iv, Padded(m \o y))
    <3>1. m \in Seq(Octet) /\ x \in Seq(Octet) /\ y \in Seq(Octet)
      BY <1>0, <1>3
    <3>2. Replaces(y, x, m, q, at, r)
      BY <2>1, <3>1 DEF Replaces
    <3> QED
      BY <2>2, <3>2, Repatched
  <2> QED
    BY <2>3 DEF q, at
<1>13. Digest(Compress(octx.state, Patch(octx.buf, 0, y))) = Sha(m \o y)
  BY <1>11, <1>12 DEF Sha, t
<1> QED
  BY <1>13 DEF octx, fed

-----------------------------------------------------------------------------
(* A set of numbers has a least one. *)
LEMMA LeastOf ==
  ASSUME NEW T, T \subseteq Nat, T # {}
  PROVE  \E n \in T : \A k \in T : n <= k
<1>1. PICK n \in T : \A k \in T : ~(<<k, n>> \in OpToRel(<, Nat))
  BY WFMin, NatLessThanWellFounded
<1>2. ASSUME NEW k \in T PROVE n <= k
  <2>1. n \in Nat /\ k \in Nat
    OBVIOUS
  <2>2. ~(k < n)
    BY <1>1, <2>1 DEF OpToRel
  <2> QED
    BY <2>1, <2>2
<1> QED
  BY <1>2

(* A chain of values, each made from the one before. *)
Follows(f, a, G, n) == \A j \in 1..n : f[j] = IF j = 1 THEN a ELSE G[<<j, f[j - 1]>>]

(* Such a chain exists, by the least length at which it would not. *)
LEMMA ChainExists ==
  ASSUME NEW S, NEW a \in S, NEW c \in Nat, NEW G \in [(1..c) \X S -> S]
  PROVE  \E f \in [1..c -> S] : Follows(f, a, G, c)
<1> DEFINE T == {n \in 0..c : ~ \E f \in [1..n -> S] : Follows(f, a, G, n)}
<1> SUFFICES ASSUME c \in T PROVE FALSE
  OBVIOUS
<1>1. T \subseteq Nat /\ T # {}
  OBVIOUS
<1>2. PICK n \in T : \A k \in T : n <= k
  <2> HIDE DEF T
  <2> QED
    BY <1>1, LeastOf
<1>3. n \in 0..c /\ ~ \E f \in [1..n -> S] : Follows(f, a, G, n)
  OBVIOUS
<1>4. n # 0
  <2> SUFFICES ASSUME n = 0 PROVE FALSE
    OBVIOUS
  <2> DEFINE f == [j \in 1..0 |-> a]
  <2>1. 1..0 = {}
    OBVIOUS
  <2>2. f \in [1..0 -> S] /\ Follows(f, a, G, 0)
    BY <2>1 DEF Follows
  <2> QED
    BY <1>3, <2>2
<1>5. n - 1 \in 0..c /\ ~(n <= n - 1)
  BY <1>3, <1>4
<1>6. n - 1 \notin T
  BY <1>2, <1>5
<1>7. PICK f \in [1..(n - 1) -> S] : Follows(f, a, G, n - 1)
  BY <1>5, <1>6
<1> HIDE DEF T
<1> DEFINE g == [j \in 1..n |-> IF j = 1 THEN a ELSE G[<<j, f[j - 1]>>]]
<1>8. ASSUME NEW j \in 1..n, j # 1 PROVE j \in 1..c /\ j - 1 \in 1..(n - 1)
  BY <1>3, <1>8
<1>9. g \in [1..n -> S]
  <2>1. ASSUME NEW j \in 1..n, j # 1 PROVE G[<<j, f[j - 1]>>] \in S
    BY <1>8, <2>1
  <2> QED
    BY <2>1
<1>10. ASSUME NEW k \in 1..(n - 1) PROVE g[k] = f[k]
  <2>1. k \in 1..n
    BY <1>3
  <2>2. f[k] = IF k = 1 THEN a ELSE G[<<k, f[k - 1]>>]
    BY <1>7 DEF Follows
  <2> QED
    BY <2>1, <2>2
<1>11. ASSUME NEW j \in 1..n PROVE g[j] = IF j = 1 THEN a ELSE G[<<j, g[j - 1]>>]
  <2>1. CASE j = 1
    BY <2>1
  <2>2. CASE j # 1
    <3>1. g[j - 1] = f[j - 1]
      BY <1>8, <1>10, <2>2
    <3>2. g[j] = G[<<j, f[j - 1]>>]
      BY <2>2
    <3> HIDE DEF g
    <3> QED
      BY <2>2, <3>1, <3>2
  <2> QED
    BY <2>1, <2>2
<1>12. Follows(g, a, G, n)
  <2> HIDE DEF g
  <2> QED
    BY <1>11 DEF Follows
<1> QED
  BY <1>3, <1>9, <1>12

(* The iterates of HMAC, and their exclusive or. *)
IsU(f, pass, first, c) == f = [j \in 1..c |-> IF j = 1 THEN first ELSE Hmac(pass, f[j - 1])]
IsT(f, U, c) == f = [j \in 1..c |-> IF j = 1 THEN U[1] ELSE XorBytes(f[j - 1], U[j])]
ChosenU(pass, first, c) == CHOOSE f : IsU(f, pass, first, c)
ChosenT(U, c) == CHOOSE f : IsT(f, U, c)

(* HMAC makes hashes. *)
LEMMA HmacIsHash ==
  ASSUME DigestBytes, NEW K \in Seq(Octet), NEW m \in Seq(Octet)
  PROVE  Hmac(K, m) \in Hash
<1>1. PadOf(54, KeyOf(K)) \in Seq(Octet) /\ PadOf(92, KeyOf(K)) \in Seq(Octet)
  BY PadsAre
<1>2. PadOf(54, KeyOf(K)) \o m \in Seq(Octet)
  BY <1>1, ConcatProperties
<1>3. Sha(PadOf(54, KeyOf(K)) \o m) \in Seq(Octet)
  BY <1>2, ShaIsHash, HashSeq
<1>4. PadOf(92, KeyOf(K)) \o Sha(PadOf(54, KeyOf(K)) \o m) \in Seq(Octet)
  BY <1>1, <1>3, ConcatProperties
<1> QED
  BY <1>4, HmacIs, ShaIsHash

(* The iterates exist and are hashes. *)
LEMMA UIs ==
  ASSUME DigestBytes, NEW K \in Seq(Octet), NEW first \in Hash, NEW c \in Nat
  PROVE  /\ IsU(ChosenU(K, first, c), K, first, c)
         /\ \A j \in 1..c : ChosenU(K, first, c)[j] \in Hash
<1> DEFINE G == [p \in (1..c) \X Hash |-> Hmac(K, p[2])]
           U == ChosenU(K, first, c)
<1>1. \A h \in Hash : Hmac(K, h) \in Hash
  BY HashSeq, HmacIsHash
<1>2. G \in [(1..c) \X Hash -> Hash]
  BY <1>1
<1>3. \A j \in 1..c : \A h \in Hash : G[<<j, h>>] = Hmac(K, h)
  OBVIOUS
<1> HIDE DEF G
<1>4. PICK f \in [1..c -> Hash] : Follows(f, first, G, c)
  BY <1>2, ChainExists
<1>5. \A j \in 1..c : f[j] = IF j = 1 THEN first ELSE Hmac(K, f[j - 1])
  <2> TAKE j \in 1..c
  <2>1. f[j] = IF j = 1 THEN first ELSE G[<<j, f[j - 1]>>]
    BY <1>4 DEF Follows
  <2>2. j # 1 => G[<<j, f[j - 1]>>] = Hmac(K, f[j - 1])
    <3> SUFFICES ASSUME j # 1 PROVE G[<<j, f[j - 1]>>] = Hmac(K, f[j - 1])
      OBVIOUS
    <3>1. j - 1 \in 1..c
      OBVIOUS
    <3>2. f[j - 1] \in Hash
      BY <3>1
    <3> QED
      BY <3>2, <1>3
  <2> QED
    BY <2>1, <2>2
<1>6. IsU(f, K, first, c)
  <2>1. f = [j \in 1..c |-> f[j]]
    OBVIOUS
  <2>2. [j \in 1..c |-> f[j]] = [j \in 1..c |-> IF j = 1 THEN first ELSE Hmac(K, f[j - 1])]
    BY <1>5
  <2> QED
    BY <2>1, <2>2 DEF IsU
<1>7. IsU(U, K, first, c)
  BY <1>6 DEF ChosenU
<1> HIDE DEF U
<1>8. \A j \in 1..c : U[j] = IF j = 1 THEN first ELSE Hmac(K, U[j - 1])
  BY <1>7 DEF IsU
<1> DEFINE T == {j \in 1..c : U[j] \notin Hash}
<1>9. T = {}
  <2> SUFFICES ASSUME T # {} PROVE FALSE
    OBVIOUS
  <2>1. T \subseteq Nat
    OBVIOUS
  <2>2. PICK n \in T : \A k \in T : n <= k
    <3> HIDE DEF T
    <3> QED
      BY <2>1, LeastOf
  <2>3. n \in 1..c /\ U[n] \notin Hash
    OBVIOUS
  <2>4. n # 1
    BY <1>8, <2>3
  <2>5. n - 1 \in 1..c /\ ~(n <= n - 1)
    BY <2>3, <2>4
  <2>6. U[n - 1] \in Hash
    BY <2>2, <2>5
  <2>7. U[n] = Hmac(K, U[n - 1])
    BY <1>8, <2>3, <2>4
  <2> QED
    BY <1>1, <2>3, <2>6, <2>7
<1>10. \A j \in 1..c : U[j] \in Hash
  BY <1>9
<1> QED
  BY <1>7, <1>10 DEF U

(* Their exclusive or exists. *)
LEMMA TIs ==
  ASSUME NEW c \in Nat \ {0}, NEW U, \A j \in 1..c : U[j] \in Hash
  PROVE  IsT(ChosenT(U, c), U, c)
<1> DEFINE G == [p \in (1..c) \X Hash |-> XorBytes(p[2], U[p[1]])]
<1>1. G \in [(1..c) \X Hash -> Hash]
  BY XorBytesIs
<1>2. \A j \in 1..c : \A h \in Hash : G[<<j, h>>] = XorBytes(h, U[j])
  OBVIOUS
<1> HIDE DEF G
<1>3. U[1] \in Hash
  <2>1. 1 \in 1..c
    OBVIOUS
  <2> QED
    BY <2>1
<1>4. PICK f \in [1..c -> Hash] : Follows(f, U[1], G, c)
  BY <1>1, <1>3, ChainExists
<1>5. \A j \in 1..c : f[j] = IF j = 1 THEN U[1] ELSE XorBytes(f[j - 1], U[j])
  <2> TAKE j \in 1..c
  <2>1. f[j] = IF j = 1 THEN U[1] ELSE G[<<j, f[j - 1]>>]
    BY <1>4 DEF Follows
  <2>2. j # 1 => G[<<j, f[j - 1]>>] = XorBytes(f[j - 1], U[j])
    <3> SUFFICES ASSUME j # 1 PROVE G[<<j, f[j - 1]>>] = XorBytes(f[j - 1], U[j])
      OBVIOUS
    <3>1. j - 1 \in 1..c
      OBVIOUS
    <3>2. f[j - 1] \in Hash
      BY <3>1
    <3> QED
      BY <3>2, <1>2
  <2> QED
    BY <2>1, <2>2
<1>6. IsT(f, U, c)
  <2>1. f = [j \in 1..c |-> f[j]]
    OBVIOUS
  <2>2. [j \in 1..c |-> f[j]] = [j \in 1..c |-> IF j = 1 THEN U[1] ELSE XorBytes(f[j - 1], U[j])]
    BY <1>5
  <2> QED
    BY <2>1, <2>2 DEF IsT
<1> QED
  BY <1>6 DEF ChosenT

(* What the standard's definition picks, by the names above. *)
LEMMA IteratedIs ==
  ASSUME NEW pass, NEW first, NEW c
  PROVE  Iterated(pass, first, c) = ChosenT(ChosenU(pass, first, c), c)[c]
BY DEF Iterated, ChosenT, ChosenU, IsT, IsU

(* The loop of the code, iterate and exclusive or side by side. *)
OneMoreIterate(Ph, was) ==
  [u |-> _HMAC_SHA256_Final(_HMAC_SHA256_Update(Ph, was.u)),
   t |-> XorBytes(was.t, _HMAC_SHA256_Final(_HMAC_SHA256_Update(Ph, was.u)))]
IsDone(f, Ph, U1, c) ==
  f = [j \in 1..c |-> IF j = 1 THEN [u |-> U1, t |-> U1] ELSE OneMoreIterate(Ph, f[j - 1])]
ChosenDone(Ph, U1, c) == CHOOSE f : IsDone(f, Ph, U1, c)

(* What the loop's definition picks, by the names above. *)
LEMMA IterateIs ==
  ASSUME NEW Ph, NEW U1, NEW c
  PROVE  Iterate(Ph, U1, c) = ChosenDone(Ph, U1, c)[c].t
BY DEF Iterate, ChosenDone, IsDone, OneMoreIterate

(* There is one such loop. *)
LEMMA DoneOnce ==
  ASSUME NEW Ph, NEW U1, NEW c \in Nat, NEW f, NEW g, IsDone(f, Ph, U1, c), IsDone(g, Ph, U1, c)
  PROVE  \A j \in 1..c : f[j] = g[j]
<1> DEFINE T == {j \in 1..c : f[j] # g[j]}
<1> SUFFICES ASSUME T # {} PROVE FALSE
  OBVIOUS
<1>1. T \subseteq Nat
  OBVIOUS
<1>2. PICK n \in T : \A k \in T : n <= k
  <2> HIDE DEF T
  <2> QED
    BY <1>1, LeastOf
<1>3. n \in 1..c /\ f[n] # g[n]
  OBVIOUS
<1>4. /\ \A j \in 1..c : f[j] = IF j = 1 THEN [u |-> U1, t |-> U1] ELSE OneMoreIterate(Ph, f[j - 1])
      /\ \A j \in 1..c : g[j] = IF j = 1 THEN [u |-> U1, t |-> U1] ELSE OneMoreIterate(Ph, g[j - 1])
  BY DEF IsDone
<1>5. n # 1
  BY <1>3, <1>4
<1>6. n - 1 \in 1..c /\ ~(n <= n - 1)
  BY <1>3, <1>5
<1>7. f[n - 1] = g[n - 1]
  BY <1>2, <1>6
<1> HIDE DEF T
<1>8. f[n] = OneMoreIterate(Ph, f[n - 1]) /\ g[n] = OneMoreIterate(Ph, g[n - 1])
  BY <1>3, <1>4, <1>5
<1> QED
  BY <1>3, <1>7, <1>8

(* The loop computes the standard's exclusive or. *)
LEMMA IterateSame ==
  ASSUME DigestBytes, NEW K \in Seq(Octet), NEW Ph, Keyed(Ph, K, <<>>), NEW U1 \in Hash, NEW c \in Nat \ {0}
  PROVE  Iterate(Ph, U1, c) = Iterated(K, U1, c)
<1> DEFINE U == ChosenU(K, U1, c)
           T == ChosenT(U, c)
           D == [j \in 1..c |-> [u |-> U[j], t |-> T[j]]]
<1>1. IsU(U, K, U1, c) /\ \A j \in 1..c : U[j] \in Hash
  BY UIs
<1> HIDE DEF U
<1>2. IsT(T, U, c)
  BY <1>1, TIs
<1> HIDE DEF T
<1>3. ASSUME NEW m \in Hash
      PROVE  _HMAC_SHA256_Final(_HMAC_SHA256_Update(Ph, m)) = Hmac(K, m)
  <2>1. <<>> \in Seq(Octet) /\ m \in Seq(Octet) /\ <<>> \o m = m
    BY HashSeq, EmptySeq, ConcatEmptySeq
  <2>2. Keyed(_HMAC_SHA256_Update(Ph, m), K, <<>> \o m)
    BY <2>1, HmacUpdateKeyed
  <2>3. Keyed(_HMAC_SHA256_Update(Ph, m), K, m)
    BY <2>1, <2>2
  <2> QED
    BY <2>1, <2>3, HmacFinalIs
<1>4. ASSUME NEW j \in 1..c
      PROVE  D[j] = IF j = 1 THEN [u |-> U1, t |-> U1] ELSE OneMoreIterate(Ph, D[j - 1])
  <2>1. 1 \in 1..c
    OBVIOUS
  <2>2. U[1] = U1 /\ T[1] = U1
    BY <1>1, <1>2, <2>1 DEF IsU, IsT
  <2>3. CASE j = 1
    BY <2>2, <2>3
  <2>4. CASE j # 1
    <3>1. j - 1 \in 1..c
      BY <2>4
    <3>2. U[j] = Hmac(K, U[j - 1]) /\ T[j] = XorBytes(T[j - 1], U[j])
      BY <1>1, <1>2, <2>4 DEF IsU, IsT
    <3>3. D[j - 1].u = U[j - 1] /\ D[j - 1].t = T[j - 1]
      BY <3>1
    <3>4. D[j] = [u |-> U[j], t |-> T[j]]
      OBVIOUS
    <3>5. _HMAC_SHA256_Final(_HMAC_SHA256_Update(Ph, U[j - 1])) = U[j]
      BY <1>1, <1>3, <3>1, <3>2
    <3> HIDE DEF D
    <3> QED
      BY <2>4, <3>2, <3>3, <3>4, <3>5 DEF OneMoreIterate
  <2> QED
    BY <2>3, <2>4
<1>5. IsDone(D, Ph, U1, c)
  <2>1. D = [j \in 1..c |-> D[j]]
    OBVIOUS
  <2> HIDE DEF D
  <2>2. [j \in 1..c |-> D[j]]
          = [j \in 1..c |-> IF j = 1 THEN [u |-> U1, t |-> U1] ELSE OneMoreIterate(Ph, D[j - 1])]
    BY <1>4
  <2> QED
    BY <2>1, <2>2 DEF IsDone
<1>6. IsDone(ChosenDone(Ph, U1, c), Ph, U1, c)
  BY <1>5 DEF ChosenDone
<1>7. c \in Nat /\ c \in 1..c
  OBVIOUS
<1>8. ChosenDone(Ph, U1, c)[c] = D[c]
  <2> HIDE DEF D
  <2> QED
    BY <1>5, <1>6, <1>7, DoneOnce
<1>9. D[c].t = T[c]
  BY <1>7
<1> QED
  BY <1>8, <1>9, IterateIs, IteratedIs DEF T, U

(* One iteration leaves the first HMAC as it is. *)
LEMMA IteratedOnce ==
  ASSUME DigestBytes, NEW K \in Seq(Octet), NEW first \in Hash
  PROVE  Iterated(K, first, 1) = first
<1> DEFINE c == 1
           U == ChosenU(K, first, c)
           T == ChosenT(U, c)
<1>1. c \in Nat \ {0} /\ c \in Nat /\ c \in 1..c /\ c = 1
  OBVIOUS
<1> HIDE DEF c
<1>2. IsU(U, K, first, c) /\ \A j \in 1..c : U[j] \in Hash
  BY <1>1, UIs
<1> HIDE DEF U
<1>3. IsT(T, U, c)
  BY <1>1, <1>2, TIs
<1> HIDE DEF T
<1>4. U[c] = first /\ T[c] = U[1]
  BY <1>1, <1>2, <1>3 DEF IsU, IsT
<1>5. T[c] = first
  BY <1>1, <1>4
<1> QED
  BY <1>5, IteratedIs DEF T, U, c

-----------------------------------------------------------------------------
(* The two contexts both ways start from. *)
LEMMA KdfKeyed ==
  ASSUME DigestBytes, NEW pass \in Seq(Octet), NEW salt \in Seq(Octet)
  PROVE  /\ Keyed(_HMAC_SHA256_Init(pass), pass, <<>>)
         /\ Keyed(_HMAC_SHA256_Update(_HMAC_SHA256_Init(pass), salt), pass, salt)
<1> DEFINE Ph == _HMAC_SHA256_Init(pass)
<1>1. Keyed(Ph, pass, <<>>)
  BY HmacInitKeyed
<1> HIDE DEF Ph
<1>2. <<>> \in Seq(Octet) /\ <<>> \o salt = salt
  BY EmptySeq, ConcatEmptySeq
<1>3. Keyed(_HMAC_SHA256_Update(Ph, salt), pass, <<>> \o salt)
  BY <1>1, <1>2, HmacUpdateKeyed
<1> QED
  BY <1>1, <1>2, <1>3 DEF Ph

(* The generic way gives the key of the standard. *)
LEMMA GenericIsKey ==
  ASSUME DigestBytes, NEW pass \in Seq(Octet), NEW salt \in Seq(Octet), NEW c \in Nat \ {0}, NEW dk \in Nat,
         NEW Ph, NEW PSh, Keyed(Ph, pass, <<>>), Keyed(PSh, pass, salt)
  PROVE  KdfGeneric(Ph, PSh, c, dk) = DerivedKey(pass, salt, c, dk)
<1> DEFINE n == (dk + 31) \div 32
           G == [i \in 1..n |-> Iterate(Ph, _HMAC_SHA256_Final(_HMAC_SHA256_Update(PSh, Be32(i))), c)]
           F == [i \in 1..n |-> Iterated(pass, Hmac(pass, salt \o Be32(i)), c)]
<1>1. ASSUME NEW i \in 1..n
      PROVE  Iterate(Ph, _HMAC_SHA256_Final(_HMAC_SHA256_Update(PSh, Be32(i))), c)
                = Iterated(pass, Hmac(pass, salt \o Be32(i)), c)
  <2> DEFINE w == Be32(i)
             h == _HMAC_SHA256_Final(_HMAC_SHA256_Update(PSh, w))
  <2>1. w \in Seq(Octet)
    <3>1. i \in Nat
      OBVIOUS
    <3> QED
      BY <3>1, Width32
  <2> HIDE DEF w, n
  <2>2. salt \o w \in Seq(Octet)
    BY <2>1, ConcatProperties
  <2>3. Keyed(_HMAC_SHA256_Update(PSh, w), pass, salt \o w)
    BY <2>1, HmacUpdateKeyed
  <2>4. h = Hmac(pass, salt \o w) /\ Hmac(pass, salt \o w) \in Hash
    BY <2>2, <2>3, HmacFinalIs
  <2> HIDE DEF h
  <2>5. Iterate(Ph, Hmac(pass, salt \o w), c) = Iterated(pass, Hmac(pass, salt \o w), c)
    BY <2>4, IterateSame
  <2>6. Iterate(Ph, h, c) = Iterated(pass, Hmac(pass, salt \o w), c)
    BY <2>4, <2>5
  <2> QED
    BY <2>6 DEF w, h
<1>2. KdfGeneric(Ph, PSh, c, dk) = LaidOut(Tuple(G), dk)
  BY DEF KdfGeneric
<1>3. DerivedKey(pass, salt, c, dk) = LaidOut(Tuple(F), dk)
  BY DEF DerivedKey
<1>4. G = F
  BY <1>1
<1> QED
  BY <1>2, <1>3, <1>4

(* One block of key by the short way. *)
LEMMA FastBlockIs ==
  ASSUME DigestBytes, NEW pass \in Seq(Octet), NEW salt \in Seq(Octet), Len(salt) % 64 <= 51,
         NEW h0, Keyed(h0, pass, salt), NEW i \in Nat
  PROVE  FastBlock(SHA256_Pad_Almost(YpUpdate(h0.ictx, Zeros(4))),
                   SHA256_Pad_Almost([h0.octx EXCEPT !.count = @ + 256]),
                   (h0.ictx.count \div 8) % 64, i) = Hmac(pass, salt \o Be32(i))
<1> DEFINE p == PadOf(54, KeyOf(pass))
           s == PadOf(92, KeyOf(pass))
           m == p \o salt
           w == Be32(i)
           ictx == SHA256_Pad_Almost(YpUpdate(h0.ictx, Zeros(4)))
           octx == SHA256_Pad_Almost([h0.octx EXCEPT !.count = @ + 256])
           at == (h0.ictx.count \div 8) % 64
           inner == Digest(Compress(ictx.state, Patch(ictx.buf, at, w)))
<1>1. p \in Seq(Octet) /\ Len(p) = 64 /\ s \in Seq(Octet) /\ Len(s) = 64
  BY PadsAre
<1>2. Holds(h0.ictx, m, 8) /\ Holds(h0.octx, s, 8)
  BY DEF Keyed
<1>3. Hmac(pass, salt \o w) = Sha(s \o Sha(p \o (salt \o w)))
  BY HmacIs
<1>4. w \in Seq(Octet)
  BY Width32
<1> HIDE DEF p, s, w
<1>5. m \in Seq(Octet) /\ Len(m) = Len(p) + Len(salt)
  <2>1. p \in Seq(Octet)
    BY <1>1
  <2> QED
    BY <2>1, Joined
<1>6. p \o (salt \o w) = m \o w /\ m \o w \in Seq(Octet)
  <2>1. p \in Seq(Octet) /\ w \in Seq(Octet)
    BY <1>1, <1>4
  <2>2. p \o (salt \o w) = m \o w
    BY <2>1, ConcatAssociative, SMTT(60)
  <2>3. m \in Seq(Octet)
    BY <1>5
  <2> HIDE DEF m
  <2>4. m \o w \in Seq(Octet)
    BY <2>1, <2>3, ConcatProperties
  <2> QED
    BY <2>2, <2>4
<1> HIDE DEF m
<1>7. at = Len(m) % 64 /\ Len(m) % 64 <= 51
  <2>1. Len(salt) \in Nat /\ Len(m) = 64 + Len(salt)
    <3>1. Len(salt) \in Nat
      BY LenProperties
    <3> QED
      BY <3>1, <1>1, <1>5
  <2>2. h0.ictx.count = 8 * Len(m)
    BY <1>2 DEF Holds
  <2> DEFINE l == Len(m)
             k == Len(salt)
  <2>3. l = 64 + k /\ k \in Nat /\ k % 64 <= 51 /\ h0.ictx.count = 8 * l
    BY <2>1, <2>2
  <2> HIDE DEF l, k
  <2>4. (8 * l) \div 8 = l
    BY <2>3
  <2>5. at = l % 64
    BY <2>3, <2>4
  <2>6. l % 64 <= 51
    BY <2>3
  <2> QED
    BY <2>5, <2>6 DEF l
<1>8. inner = Sha(m \o w)
  BY <1>2, <1>5, <1>7, InnerBlock, ZenonT(60) DEF w
<1>9. inner \in Hash
  BY <1>6, <1>8, ShaIsHash
<1>10. FastBlock(ictx, octx, at, i) = Digest(Compress(octx.state, Patch(octx.buf, 0, inner)))
  BY DEF FastBlock, w
<1> HIDE DEF inner
<1>11. Digest(Compress(octx.state, Patch(octx.buf, 0, inner))) = Sha(s \o inner)
  <2>1. s \in OneBlock
    BY <1>1 DEF OneBlock
  <2> QED
    BY <2>1, <1>2, <1>9, OuterBlock
<1> HIDE DEF ictx, octx, at
<1>12. FastBlock(ictx, octx, at, i) = Hmac(pass, salt \o w)
  BY <1>3, <1>6, <1>8, <1>10, <1>11
<1> QED
  BY <1>12 DEF ictx, octx, at, w

(* The short way gives the key of one iteration, whole blocks of it. *)
LEMMA FastIsKey ==
  ASSUME DigestBytes, NEW pass \in Seq(Octet), NEW salt \in Seq(Octet), Len(salt) % 64 <= 51,
         NEW dk \in Nat, dk % 32 = 0, NEW h0, Keyed(h0, pass, salt)
  PROVE  KdfFast(h0, dk) = DerivedKey(pass, salt, 1, dk)
<1> DEFINE ictx == SHA256_Pad_Almost(YpUpdate(h0.ictx, Zeros(4)))
           octx == SHA256_Pad_Almost([h0.octx EXCEPT !.count = @ + 256])
           at == (h0.ictx.count \div 8) % 64
           n == dk \div 32
           G == [i \in 1..n |-> FastBlock(ictx, octx, at, i)]
           F == [i \in 1..n |-> Iterated(pass, Hmac(pass, salt \o Be32(i)), 1)]
<1>1. (dk + 31) \div 32 = n
  OBVIOUS
<1>2. KdfFast(h0, dk) = LaidOut(Tuple(G), dk)
  BY DEF KdfFast, FastBlocks
<1>3. DerivedKey(pass, salt, 1, dk) = LaidOut(Tuple(F), dk)
  BY <1>1 DEF DerivedKey
<1>4. ASSUME NEW i \in 1..n
      PROVE  FastBlock(ictx, octx, at, i) = Iterated(pass, Hmac(pass, salt \o Be32(i)), 1)
  <2>1. i \in Nat
    OBVIOUS
  <2>2. FastBlock(ictx, octx, at, i) = Hmac(pass, salt \o Be32(i))
    BY <2>1, FastBlockIs
  <2> HIDE DEF ictx, octx, at
  <2>3. Hmac(pass, salt \o Be32(i)) \in Hash
    <3>1. salt \o Be32(i) \in Seq(Octet)
      BY <2>1, Width32, ConcatProperties
    <3> QED
      BY <3>1, HmacIsHash
  <2>4. Iterated(pass, Hmac(pass, salt \o Be32(i)), 1) = Hmac(pass, salt \o Be32(i))
    BY <2>3, IteratedOnce
  <2> QED
    BY <2>2, <2>4
<1> HIDE DEF ictx, octx, at, n
<1>5. G = F
  BY <1>4
<1> QED
  BY <1>2, <1>3, <1>5

(* The key by the way the code takes, for every call. *)
LEMMA KdfIs ==
  ASSUME DigestBytes, NEW pass \in Seq(Octet), NEW salt \in Seq(Octet), NEW c \in Nat \ {0}, NEW dk \in Nat
  PROVE  YP_PBKDF2_SHA256(pass, salt, c, dk) = DerivedKey(pass, salt, c, dk)
<1> DEFINE Ph == _HMAC_SHA256_Init(pass)
           PSh == _HMAC_SHA256_Update(Ph, salt)
           at == Len(salt) % 64
           after == (at + 4) % 64
<1>1. Keyed(Ph, pass, <<>>) /\ Keyed(PSh, pass, salt)
  BY KdfKeyed
<1>2. YP_PBKDF2_SHA256(pass, salt, c, dk) =
         IF c = 1 /\ dk % 32 = 0 /\ at <= 51 /\ ~(after < at) /\ after < 56
         THEN KdfFast(PSh, dk) ELSE KdfGeneric(Ph, PSh, c, dk)
  BY DEF YP_PBKDF2_SHA256
<1> HIDE DEF Ph, PSh, after
<1>3. CASE c = 1 /\ dk % 32 = 0 /\ at <= 51
  <2>1. KdfFast(PSh, dk) = DerivedKey(pass, salt, 1, dk)
    BY <1>1, <1>3, FastIsKey
  <2>2. KdfGeneric(Ph, PSh, c, dk) = DerivedKey(pass, salt, c, dk)
    BY <1>1, GenericIsKey
  <2> QED
    BY <1>2, <1>3, <2>1, <2>2
<1>4. CASE ~(c = 1 /\ dk % 32 = 0 /\ at <= 51)
  <2>1. KdfGeneric(Ph, PSh, c, dk) = DerivedKey(pass, salt, c, dk)
    BY <1>1, GenericIsKey
  <2> QED
    BY <1>2, <1>4, <2>1
<1> QED
  BY <1>3, <1>4

(* A key is PBKDF2's by either way through the code, for every password,   *)
(* salt, number of iterations and length, and every digest of 32 bytes.    *)
THEOREM KeysDerived == DigestBytes => (KdfSpec => []KeyIsPbkdf2)
<1> SUFFICES ASSUME DigestBytes PROVE KdfSpec => []KeyIsPbkdf2
  OBVIOUS
<1> DEFINE Inv == kdfIn \in KdfCalls /\ KeyIsPbkdf2
<1>1. KdfInit => Inv
  BY DEF KdfInit, KeyIsPbkdf2
<1>2. Inv /\ [Derive]_kdfvars => Inv'
  <2> SUFFICES ASSUME Inv, [Derive]_kdfvars PROVE Inv'
    OBVIOUS
  <2>1. CASE Derive
    <3>1. /\ kdfIn.pass \in Seq(Octet) /\ kdfIn.salt \in Seq(Octet)
          /\ kdfIn.c \in Nat \ {0} /\ kdfIn.dk \in Nat
      BY KdfAssumption DEF Octet
    <3>2. kdfOut' = YP_PBKDF2_SHA256(kdfIn.pass, kdfIn.salt, kdfIn.c, kdfIn.dk) /\ kdfIn' = kdfIn
      BY <2>1 DEF Derive
    <3>3. kdfOut' = DerivedKey(kdfIn.pass, kdfIn.salt, kdfIn.c, kdfIn.dk)
      BY <3>1, <3>2, KdfIs
    <3> QED
      BY <3>2, <3>3 DEF KeyIsPbkdf2
  <2>2. CASE UNCHANGED kdfvars
    BY <2>2 DEF KeyIsPbkdf2, kdfvars
  <2> QED
    BY <2>1, <2>2
<1>3. Inv => KeyIsPbkdf2
  OBVIOUS
<1> QED
  BY <1>1, <1>2, <1>3, PTL DEF KdfSpec
=============================================================================
