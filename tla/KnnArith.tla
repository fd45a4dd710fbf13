----------------------------- MODULE KnnArith -----------------------------
(***************************************************************************)
(* The arithmetic of the KNN accelerator's datapath (knn_datapath.v) and   *)
(* of the way the driver packs a point into a bus word (knn.c).            *)
(*                                                                         *)
(* A coordinate is the bit pattern of a C "short": one of Half = 2^16      *)
(* values, of which the upper half read as negative numbers.  A bus word   *)
(* of Half*Half = 2^32 values is the pair <<x, y>> of its two halves, X in *)
(* the upper one.                                                          *)
(***************************************************************************)
EXTENDS Integers

CONSTANT Half           \* 2^16 in the hardware; any even number here

ASSUME HalfAssumption == Half \in Nat /\ \E q \in 1 .. Half : Half = 2 * q

Coord  == 0 .. Half - 1
Points == Coord \X Coord
Word   == 0 .. Half * Half - 1      \* a 32-bit register
Origin == <<0, 0>>

\* sub_X[15]: the sign bit of a coordinate-sized register.
IsNegative(c) == 2 * c >= Half

---------------------------------------------------------------------------
(* The three pipeline stages of the datapath. *)

Subtract(a, b) == (a - b) % Half
TwoComp(s)     == (Half - s) % Half
Square(s)      == IF IsNegative(s) THEN TwoComp(s) * TwoComp(s) ELSE s * s
Sum(mx, my)    == (mx + my) % (Half * Half)

\* What the three stages make of one test point and one data point.
HwDist(t, d) == Sum(Square(Subtract(t[1], d[1])), Square(Subtract(t[2], d[2])))

---------------------------------------------------------------------------
(* The driver's side. *)

\* The integer a bit pattern stands for.
Signed(c) == IF IsNegative(c) THEN c - Half ELSE c

\* The reference of the properties, after the sq_dist that knn.c:14 has as a comment
\* since the hardware replaces it: the difference of two shorts, stored in a short,
\* squared as an int.
SqDist(a, b) ==
  LET ShortDiff(m, n) == Signed((Signed(m) - Signed(n)) % Half)
      X == ShortDiff(a[1], b[1])
      Y == ShortDiff(a[2], b[2])
  IN  X * X + Y * Y

\* data_wrd = data[i].x; data_wrd <<= 16; data_wrd |= data[i].y.  The operand
\* data[i].y is promoted to a 32-bit int, so a negative y is or-ed in with
\* sixteen ones above it.
Pack(p) == <<IF IsNegative(p[2]) THEN Half - 1 ELSE p[1], p[2]>>

---------------------------------------------------------------------------
(* What the operators promise; KnnProofs proves the three of them. *)

\* The pipeline computes exactly sq_dist of the two points, for coordinates of
\* any sign: the sign test, the two's complement and the 32-bit sum lose
\* nothing (knn_datapath.v against the sq_dist of knn.c).
MatchesSqDist(t, d) == HwDist(t, d) = SqDist(t, d)

\* While both differences fit a short, the result is the squared Euclidean
\* distance of the two points; beyond, the 16-bit subtraction wraps.
ExactInRange(t, d) ==
  LET dx == Signed(t[1]) - Signed(d[1])
      dy == Signed(t[2]) - Signed(d[2])
      Fits(n) == -Half <= 2 * n /\ 2 * n < Half
  IN  Fits(dx) /\ Fits(dy) => HwDist(t, d) = dx * dx + dy * dy

\* Only a data point equal to the test point gets distance 0: no wrap-around
\* makes a far point look like a perfect match.
OnlySelfIsZero(t, d) == HwDist(t, d) = 0 <=> t = d

===========================================================================
