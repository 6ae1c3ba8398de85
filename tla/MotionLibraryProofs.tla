------------------------ MODULE MotionLibraryProofs ------------------------
(***************************************************************************)
(* Proofs about the motion library (drivers/sensors/mlsdk/mllite).         *)
(*                                                                         *)
(* First its mathematics, for words and fixed points of any size that are  *)
(* related as a `long` and 2^30 are: angles, bytes and the checksum, the   *)
(* mountings of chips, and the four ways to turn a vector.                 *)
(*                                                                         *)
(* Then the path of a sample through it: the table of callbacks stays in   *)
(* the order of the priorities, a sample keeps its mark until every        *)
(* callback registered for it has been called, and a compass sample is an  *)
(* update once; for every set of features, in every order, and whenever    *)
(* sensors are turned off.                                                 *)
(***************************************************************************)
EXTENDS HalOutputs, MotionMath, SequenceTheorems, TLAPS, WellFoundedInduction

-----------------------------------------------------------------------------
(* Words.                                                                  *)

LEMMA RestOfMultiple ==
    ASSUME NEW k \in Int, NEW m \in Nat \ {0}, NEW r \in 0 .. m - 1
    PROVE  (k * m + r) % m = r /\ (k * m + r) \div m = k
  OBVIOUS

LEMMA Sizes ==
    /\ ByteSize \in Nat \ {0} /\ ByteSize % 2 = 0
    /\ ShortSize \in Nat \ {0} /\ ShortSize % 2 = 0
    /\ LongSize \in Nat \ {0} /\ LongSize % 2 = 0
    /\ One \in Nat \ {0} /\ One % 4 = 0 /\ 4 * One <= LongSize
<1>1. ByteSize \in Nat \ {0} /\ ByteSize % 2 = 0
  BY MathAssumption
<1>2. PICK h \in Int : ByteSize = 2 * h
  BY <1>1
<1>3. ShortSize = 2 * (h * ByteSize) /\ ShortSize > 0
  BY <1>1, <1>2 DEF ShortSize
<1>4. h * ByteSize \in Int
  BY <1>1
<1>5. LongSize = 2 * (h * ByteSize * ShortSize) /\ LongSize > 0
  BY <1>3, <1>4 DEF LongSize
<1>6. h * ByteSize * ShortSize \in Int
  BY <1>3, <1>4
<1> QED
  BY <1>1, <1>3, <1>4, <1>5, <1>6, MathAssumption

\* the integers of a word of that many values are kept, and numbers a multiple apart are one
LEMMA SignedOf ==
    ASSUME NEW size \in Nat \ {0}, size % 2 = 0, NEW x \in Int, NEW k \in Int,
           -(size \div 2) <= x, x < size \div 2
    PROVE  Signed(k * size + x, size) = x
<1>1. size \div 2 \in Int /\ size = 2 * (size \div 2)
  OBVIOUS
<1>2. x + size \div 2 \in 0 .. size - 1
  BY <1>1
<1>3. (k * size + (x + size \div 2)) % size = x + size \div 2
  BY <1>2, RestOfMultiple
<1>4. k * size + x + size \div 2 = k * size + (x + size \div 2)
  BY <1>1
<1> QED
  BY <1>1, <1>3, <1>4 DEF Signed

\* the word of x is the one integer in its range that is a multiple away
LEMMA SignedIs ==
    ASSUME NEW size \in Nat \ {0}, size % 2 = 0, NEW x \in Int
    PROVE  /\ Signed(x, size) \in Int
           /\ -(size \div 2) <= Signed(x, size) /\ Signed(x, size) < size \div 2
           /\ \E k \in Int : x = k * size + Signed(x, size)
<1>1. size \div 2 \in Int /\ size = 2 * (size \div 2)
  OBVIOUS
<1> DEFINE y == x + size \div 2
<1>2. /\ y \in Int /\ y % size \in 0 .. size - 1 /\ y \div size \in Int
      /\ y = size * (y \div size) + (y % size)
  BY <1>1
<1>3. x = (y \div size) * size + ((y % size) - (size \div 2))
  BY <1>1, <1>2
<1>4. Signed(x, size) = (y % size) - (size \div 2)
  BY DEF Signed
<1> HIDE DEF y
<1>5. x = (y \div size) * size + Signed(x, size)
  BY <1>3, <1>4
<1>6. Signed(x, size) \in Int
  BY <1>1, <1>2, <1>4
<1>7. -(size \div 2) <= Signed(x, size) /\ Signed(x, size) < size \div 2
  BY <1>1, <1>2, <1>4
<1> QED
  BY <1>2, <1>5, <1>6, <1>7

LEMMA LongOf ==
    ASSUME NEW x \in Int, -(LongSize \div 2) <= x, x < LongSize \div 2
    PROVE  Long(x) = x
<1>1. 0 * LongSize + x = x
  BY Sizes
<1>2. Signed(0 * LongSize + x, LongSize) = x
  BY Sizes, SignedOf, 0 \in Int
<1> QED
  BY <1>1, <1>2 DEF Long

LEMMA LongType == ASSUME NEW x \in Int PROVE Long(x) \in Int
  BY Sizes, SignedIs DEF Long

\* what has overflowed does not matter to a sum
LEMMA LongOfSame ==
    ASSUME NEW x \in Int, NEW y \in Int, NEW k \in Int, x = k * LongSize + y
    PROVE  Long(x) = Long(y)
<1>1. PICK j \in Int : y = j * LongSize + Long(y)
  BY Sizes, SignedIs DEF Long
<1>2. Long(y) \in Int /\ -(LongSize \div 2) <= Long(y) /\ Long(y) < LongSize \div 2
  BY Sizes, SignedIs DEF Long
<1>3. x = (k + j) * LongSize + Long(y) /\ k + j \in Int
  BY <1>1, <1>2, Sizes
<1>4. Signed((k + j) * LongSize + Long(y), LongSize) = Long(y)
  BY <1>2, <1>3, Sizes, SignedOf
<1> QED
  BY <1>3, <1>4 DEF Long

LEMMA LongAdds ==
    ASSUME NEW x \in Int, NEW y \in Int
    PROVE  Long(Long(x) + y) = Long(x + y) /\ Long(Long(x) - y) = Long(x - y)
           /\ Long(y - Long(x)) = Long(y - x)
<1>1. PICK k \in Int : x = k * LongSize + Long(x)
  BY Sizes, SignedIs DEF Long
<1>2. Long(x) \in Int /\ LongSize \in Int /\ -k \in Int
  BY LongType, Sizes
<1>3. ASSUME NEW u \in Int, NEW w \in Int, NEW j \in Int, u = j * LongSize + w
      PROVE  Long(w) = Long(u)
  BY <1>3, LongOfSame
<1>4. /\ x + y \in Int /\ Long(x) + y \in Int /\ x + y = k * LongSize + (Long(x) + y)
      /\ x - y \in Int /\ Long(x) - y \in Int /\ x - y = k * LongSize + (Long(x) - y)
      /\ y - x \in Int /\ y - Long(x) \in Int /\ y - x = (-k) * LongSize + (y - Long(x))
  BY <1>1, <1>2
<1>5. Long(Long(x) + y) = Long(x + y)
  BY <1>3, <1>4, Zenon
<1>6. Long(Long(x) - y) = Long(x - y)
  BY <1>3, <1>4, Zenon
<1>7. Long(y - Long(x)) = Long(y - x)
  BY <1>2, <1>3, <1>4, Zenon
<1> QED
  BY <1>5, <1>6, <1>7

-----------------------------------------------------------------------------
(* Angles.                                                                 *)

\* between angles once round too far, at most, the difference is the shortest way
LEMMA ShortWay ==
    ASSUME NEW a \in Angles, NEW b \in Angles
    PROVE  /\ inv_angle_diff(a, b) \in -HalfTurn .. HalfTurn
           /\ (inv_angle_diff(a, b) - (a - b)) % (2 * HalfTurn) = 0
<1> USE MathAssumption
<1>1. a \in Int /\ b \in Int /\ HalfTurn \in Nat \ {0}
  BY DEF Angles
<1>2. inv_angle_diff(a, b) \in -HalfTurn .. HalfTurn
  BY <1>1 DEF Angles, inv_angle_diff, inv_wrap_angle
<1>3. \E k \in Int : inv_angle_diff(a, b) - (a - b) = k * (2 * HalfTurn)
  <2>1. \/ inv_angle_diff(a, b) - (a - b) = 0 * (2 * HalfTurn)
        \/ inv_angle_diff(a, b) - (a - b) = 1 * (2 * HalfTurn)
        \/ inv_angle_diff(a, b) - (a - b) = 2 * (2 * HalfTurn)
        \/ inv_angle_diff(a, b) - (a - b) = 3 * (2 * HalfTurn)
        \/ inv_angle_diff(a, b) - (a - b) = (-1) * (2 * HalfTurn)
        \/ inv_angle_diff(a, b) - (a - b) = (-2) * (2 * HalfTurn)
        \/ inv_angle_diff(a, b) - (a - b) = (-3) * (2 * HalfTurn)
    BY <1>1 DEF inv_angle_diff, inv_wrap_angle
  <2> QED
    BY <2>1
<1>4. PICK k \in Int : inv_angle_diff(a, b) - (a - b) = k * (2 * HalfTurn)
  BY <1>3
<1>5. (k * (2 * HalfTurn) + 0) % (2 * HalfTurn) = 0
  BY RestOfMultiple
<1>6. k * (2 * HalfTurn) + 0 = k * (2 * HalfTurn)
  BY <1>1
<1> QED
  BY <1>2, <1>4, <1>5, <1>6

-----------------------------------------------------------------------------
(* Bytes.                                                                  *)

LEMMA DivMod ==
    ASSUME NEW x \in Int, NEW m \in Nat \ {0}
    PROVE  /\ x \div m \in Int /\ x % m \in 0 .. m - 1
           /\ x = m * (x \div m) + (x % m)
  OBVIOUS

LEMMA DivDiv ==
    ASSUME NEW x \in Int, NEW a \in Nat \ {0}, NEW b \in Nat \ {0}
    PROVE  a * b \in Nat \ {0} /\ x \div (a * b) = (x \div a) \div b
<1> DEFINE q == x \div a
           r == x % a
           u == q \div b
           w == q % b
<1>1. q \in Int /\ r \in 0 .. a - 1 /\ x = a * q + r
  BY DivMod
<1>2. u \in Int /\ w \in 0 .. b - 1 /\ q = b * u + w
  BY <1>1, DivMod
<1> HIDE DEF q, r, u, w
<1>3. a * b \in Nat \ {0}
  OBVIOUS
<1>4. x = u * (a * b) + (a * w + r)
  BY <1>1, <1>2
<1>5. a * w + r \in 0 .. (a * b) - 1
  <2>1. a * w <= a * (b - 1) /\ a * w >= 0
    BY <1>2
  <2>2. a * (b - 1) = a * b - a
    OBVIOUS
  <2> QED
    BY <1>1, <1>2, <1>3, <2>1, <2>2
<1>6. (u * (a * b) + (a * w + r)) \div (a * b) = u
  BY <1>2, <1>3, <1>5, RestOfMultiple
<1> QED
  BY <1>3, <1>4, <1>6 DEF q, u

\* the two lowest digits of a number, whatever its base
LEMMA Digits ==
    ASSUME NEW x \in Int
    PROVE  LET p == x \div ByteSize
               q == x \div ShortSize
           IN /\ p \in Int /\ q \in Int /\ p % ByteSize \in Int /\ x % ByteSize \in Int
              /\ q = p \div ByteSize
              /\ x = ByteSize * p + (x % ByteSize)
              /\ x = ShortSize * q + ByteSize * (p % ByteSize) + (x % ByteSize)
<1> DEFINE p == x \div ByteSize
           q == p \div ByteSize
           d == x % ByteSize
           e == p % ByteSize
<1>1. ByteSize \in Nat \ {0}
  BY Sizes
<1>2. p \in Int /\ d \in Int /\ x = ByteSize * p + d
  BY <1>1, DivMod
<1>3. x \div ShortSize = q
  BY <1>1, DivDiv DEF ShortSize
<1> HIDE DEF p, d
<1>4. q \in Int /\ e \in Int /\ p = ByteSize * q + e
  BY <1>1, <1>2, DivMod
<1> HIDE DEF q, e
<1>5. x = ShortSize * q + ByteSize * e + d
  <2>1. ByteSize * p = ByteSize * (ByteSize * q) + ByteSize * e
    BY <1>1, <1>4
  <2>2. ByteSize * (ByteSize * q) = ShortSize * q
    BY <1>1, <1>4 DEF ShortSize
  <2> QED
    BY <1>1, <1>2, <1>4, <2>1, <2>2, Sizes
<1> QED
  BY <1>2, <1>3, <1>4, <1>5 DEF p, d, e, q

\* a long comes back from its four bytes
LEMMA LongComesBack ==
    ASSUME NEW x \in Words
    PROVE  inv_big8_to_int32(inv_int32_to_big8(x)) = x
<1> DEFINE p == x \div ByteSize
           q == x \div ShortSize
           r == q \div ByteSize
           u == q \div ShortSize
           d == x % ByteSize
           e == p % ByteSize
           f == q % ByteSize
           g == r % ByteSize
<1>1. ByteSize \in Nat \ {0} /\ ShortSize \in Nat \ {0} /\ x \in Int /\ x \div 1 = x
  BY Sizes DEF Words
<1>2. p \in Int /\ q \in Int /\ e \in Int /\ d \in Int /\ x = ShortSize * q + ByteSize * e + d
  BY <1>1, Digits
<1>3. x \div (ByteSize * ShortSize) = r
  <2>1. x \div (ShortSize * ByteSize) = r
    BY <1>1, DivDiv
  <2>2. ShortSize * ByteSize = ByteSize * ShortSize
    BY <1>1
  <2> QED
    BY <2>1, <2>2
<1>4. inv_int32_to_big8(x) = <<g, f, e, d>>
  BY <1>1, <1>3 DEF inv_int32_to_big8, Byte
<1> HIDE DEF p, q, d, e
<1>5. r \in Int /\ u \in Int /\ g \in Int /\ f \in Int /\ q = ShortSize * u + ByteSize * g + f
  BY <1>2, Digits
<1> HIDE DEF r, u, f, g
<1> DEFINE sum == g * (ByteSize * ShortSize) + f * ShortSize + e * ByteSize + d
<1>6. inv_big8_to_int32(<<g, f, e, d>>) = Long(sum)
  BY DEF inv_big8_to_int32
<1>7. sum \in Int
  BY <1>1, <1>2, <1>5
<1>8. x = u * LongSize + sum
  <2>1. ShortSize * q = ShortSize * (ShortSize * u) + ShortSize * (ByteSize * g) + ShortSize * f
    BY <1>1, <1>5
  <2>2. ShortSize * (ShortSize * u) = u * LongSize
    BY <1>1, <1>5 DEF LongSize
  <2>3. ShortSize * (ByteSize * g) = g * (ByteSize * ShortSize)
    BY <1>1, <1>5
  <2> QED
    BY <1>1, <1>2, <1>5, <2>1, <2>2, <2>3, Sizes
<1> HIDE DEF sum
<1>9. Long(x) = Long(sum)
  BY <1>1, <1>5, <1>7, <1>8, LongOfSame
<1>10. Long(x) = x
  BY <1>1, LongOf, Sizes DEF Words
<1> QED
  BY <1>4, <1>6, <1>9, <1>10

\* a short comes back from its two, in either order
LEMMA ShortComesBack ==
    ASSUME NEW w \in Int
    PROVE  LET x == Short(w)
               big8 == inv_int16_to_big8(x)
           IN /\ inv_big8_to_int16(big8) = x
              /\ inv_little8_to_int16(<<big8[2], big8[1]>>) = x
<1> DEFINE x == Short(w)
           p == x \div ByteSize
           q == x \div ShortSize
           d == x % ByteSize
           e == p % ByteSize
<1>1. x \in Int /\ -(ShortSize \div 2) <= x /\ x < ShortSize \div 2
  BY Sizes, SignedIs DEF Short
<1> HIDE DEF x
<1>2. ByteSize \in Nat \ {0} /\ ShortSize \in Nat \ {0} /\ x \div 1 = x
  BY <1>1, Sizes
<1>3. p \in Int /\ q \in Int /\ e \in Int /\ d \in Int /\ x = ShortSize * q + ByteSize * e + d
  BY <1>1, Digits
<1>4. inv_int16_to_big8(x) = <<e, d>>
  BY <1>2 DEF inv_int16_to_big8, Byte
<1> HIDE DEF p, q, d, e
<1> DEFINE sum == e * ByteSize + d
<1>5. /\ inv_big8_to_int16(<<e, d>>) = Short(sum)
      /\ inv_little8_to_int16(<<d, e>>) = Short(sum)
  BY DEF inv_big8_to_int16, inv_little8_to_int16
<1>6. sum \in Int /\ sum = (-q) * ShortSize + x /\ -q \in Int
  BY <1>1, <1>2, <1>3
<1> HIDE DEF sum
<1>7. Signed((-q) * ShortSize + x, ShortSize) = x
  BY <1>1, <1>6, Sizes, SignedOf
<1>8. Short(sum) = x
  BY <1>6, <1>7 DEF Short
<1> QED
  BY <1>4, <1>5, <1>8 DEF x

-----------------------------------------------------------------------------
(* The checksum.                                                           *)

\* the hash, before it is cut to a word
Number(b) == 33 * (33 * (33 * (33 * 5381 + b[1]) + b[2]) + b[3]) + b[4]

LEMMA SameRest ==
    ASSUME NEW x \in Int, NEW y \in Int, NEW k \in Int, x = k * LongSize + y
    PROVE  x % LongSize = y % LongSize
<1> DEFINE d == y \div LongSize
           r == y % LongSize
           j == k + d
<1>1. d \in Int /\ r \in 0 .. LongSize - 1 /\ y = LongSize * d + r
  BY Sizes, DivMod
<1> HIDE DEF d, r
<1>2. x = j * LongSize + r /\ j \in Int
  BY <1>1, Sizes
<1> HIDE DEF j
<1>3. (j * LongSize + r) % LongSize = r
  BY <1>1, <1>2, Sizes, RestOfMultiple
<1> QED
  BY <1>2, <1>3 DEF r

LEMMA HashOfRest ==
    ASSUME NEW h \in Int, NEW c \in Int
    PROVE  Hash(h % LongSize, c) = (33 * h + c) % LongSize
<1>1. /\ h % LongSize \in Int /\ h \div LongSize \in Int
      /\ h = LongSize * (h \div LongSize) + (h % LongSize)
  BY Sizes, DivMod
<1> DEFINE k == h \div LongSize
           r == h % LongSize
<1> HIDE DEF k, r
<1> DEFINE x == 33 * h + c
           y == 33 * r + c
           j == 33 * k
<1>2. x \in Int /\ y \in Int /\ j \in Int /\ x = j * LongSize + y
  BY <1>1, Sizes DEF k, r
<1> HIDE DEF x, y, j
<1>3. x % LongSize = y % LongSize
  BY <1>2, SameRest
<1> QED
  BY <1>3 DEF Hash, r, x, y

LEMMA ChecksumOfFour ==
    ASSUME NEW b \in [1 .. 4 -> Int], Len(b) = 4
    PROVE  inv_checksum(b) = Number(b) % LongSize
<1> DEFINE h0 == 5381
           h1 == Hash(h0, b[1])
           h2 == Hash(h1, b[2])
           h3 == Hash(h2, b[3])
           h4 == Hash(h3, b[4])
           next(h) == [i \in 0 .. 4 |-> IF i = 0 THEN 5381 ELSE Hash(h[i - 1], b[i])]
           g == [i \in 0 .. 4 |-> IF i = 0 THEN h0 ELSE IF i = 1 THEN h1 ELSE IF i = 2 THEN h2
                                    ELSE IF i = 3 THEN h3 ELSE h4]
<1>1. b[1] \in Int /\ b[2] \in Int /\ b[3] \in Int /\ b[4] \in Int
  OBVIOUS
<1>2. h4 = Number(b) % LongSize
  <2> DEFINE n1 == 33 * 5381 + b[1]
             n2 == 33 * n1 + b[2]
             n3 == 33 * n2 + b[3]
  <2>1. n1 \in Int /\ h1 = n1 % LongSize
    BY <1>1 DEF Hash
  <2> HIDE DEF n1, h1
  <2>2. n2 \in Int
    BY <1>1, <2>1
  <2>3. h2 = n2 % LongSize
    BY <1>1, <2>1, HashOfRest DEF h2
  <2> HIDE DEF n2, h2
  <2>4. n3 \in Int
    BY <1>1, <2>2
  <2>5. h3 = n3 % LongSize
    BY <1>1, <2>2, <2>3, HashOfRest DEF h3
  <2> HIDE DEF n3, h3
  <2>6. h4 = (33 * n3 + b[4]) % LongSize
    BY <1>1, <2>4, <2>5, HashOfRest DEF h4
  <2> QED
    BY <2>6 DEF Number, n1, n2, n3
<1> HIDE DEF h1, h2, h3, h4
<1>3. g = next(g)
  <2>1. \A i \in 0 .. 4 : g[i] = next(g)[i]
    BY DEF h1, h2, h3, h4
  <2> QED
    BY <2>1
<1>4. inv_checksum(b) = (CHOOSE h : h = next(h))[4]
  BY DEF inv_checksum
<1> HIDE DEF g, next
<1>5. PICK h : h = next(h) /\ h = CHOOSE f : f = next(f)
  BY <1>3, Zenon
<1>6. h[4] = h4
  <2>1. \A i \in 0 .. 4 : h[i] = IF i = 0 THEN 5381 ELSE Hash(h[i - 1], b[i])
    BY <1>5 DEF next
  <2>2. h[0] = h0
    BY <2>1
  <2>3. h[1] = h1
    BY <2>1, <2>2 DEF h1
  <2>4. h[2] = h2
    BY <2>1, <2>3 DEF h2
  <2>5. h[3] = h3
    BY <2>1, <2>4 DEF h3
  <2> QED
    BY <2>1, <2>5 DEF h4
<1> QED
  BY <1>2, <1>4, <1>5, <1>6

\* numbers less than a word apart have different rests
LEMMA RestsDiffer ==
    ASSUME NEW x \in Int, NEW y \in Int, NEW m \in Nat \ {0}, x # y, x - y < m, y - x < m
    PROVE  x % m # y % m
<1> DEFINE j == x \div m
           k == y \div m
<1>1. j \in Int /\ k \in Int /\ x = m * j + (x % m) /\ y = m * k + (y % m)
      /\ x % m \in Int /\ y % m \in Int
  BY DivMod
<1> SUFFICES ASSUME x % m = y % m PROVE FALSE
  OBVIOUS
<1> HIDE DEF j, k
<1>2. x - y = m * (j - k)
  BY <1>1
<1>3. j # k
  BY <1>1
<1>4. CASE j - k >= 1
  <2>1. m * (j - k) >= m
    BY <1>1, <1>4
  <2> QED
    BY <1>2, <2>1
<1>5. CASE k - j >= 1
  <2>1. m * (k - j) >= m
    BY <1>1, <1>5
  <2>2. y - x = m * (k - j)
    BY <1>1, <1>2
  <2> QED
    BY <2>1, <2>2
<1> QED
  BY <1>1, <1>3, <1>4, <1>5

\* a byte of the code has 256 values; 33 are enough
LEMMA ByteIsLarge ==
    ASSUME ByteSize >= 33
    PROVE  35937 * (ByteSize - 1) < LongSize
<1>1. ByteSize \in Nat /\ ShortSize \in Nat
  BY Sizes
<1>2. ShortSize >= 33 * ByteSize /\ ShortSize >= 1089
  BY <1>1 DEF ShortSize
<1>3. LongSize >= 1089 * ShortSize
  BY <1>1, <1>2 DEF LongSize
<1>4. 1089 * ShortSize >= 35937 * ByteSize
  BY <1>1, <1>2
<1> QED
  BY <1>1, <1>3, <1>4, Sizes

Bytes4 == [1 .. 4 -> 0 .. ByteSize - 1]

\* strings whose hashes are less than a word apart are told apart
LEMMA NumbersTold ==
    ASSUME NEW b \in Bytes4, NEW c \in Bytes4, Number(b) # Number(c),
           Number(b) - Number(c) < LongSize, Number(c) - Number(b) < LongSize
    PROVE  inv_checksum(b) # inv_checksum(c)
<1>1. b \in [1 .. 4 -> Int] /\ Len(b) = 4 /\ c \in [1 .. 4 -> Int] /\ Len(c) = 4
  <2>1. ASSUME NEW f \in Bytes4 PROVE f \in [1 .. 4 -> Int] /\ Len(f) = 4
    <3>1. f \in [1 .. 4 -> Int] /\ 4 \in Nat
      BY Sizes DEF Bytes4
    <3>2. f \in Seq(Int)
      BY <3>1, SeqDef
    <3>3. DOMAIN f = 1 .. Len(f) /\ Len(f) \in Nat
      BY <3>2, LenProperties
    <3>4. 1 .. Len(f) = 1 .. 4
      BY <3>1, <3>3
    <3> QED
      BY <3>1, <3>2, <3>3, <3>4
  <2> QED
    BY <2>1
<1>2. /\ b[1] \in Int /\ b[2] \in Int /\ b[3] \in Int /\ b[4] \in Int
      /\ c[1] \in Int /\ c[2] \in Int /\ c[3] \in Int /\ c[4] \in Int
  BY Sizes DEF Bytes4
<1>3. Number(b) \in Int /\ Number(c) \in Int
  BY <1>2 DEF Number
<1>4. Number(b) % LongSize # Number(c) % LongSize
  BY <1>3, Sizes, RestsDiffer
<1> QED
  BY <1>1, <1>4, ChecksumOfFour

LEMMA WrongByteTold ==
    ASSUME ByteSize >= 33, NEW b \in Bytes4, NEW i \in 1 .. 4, NEW x \in 0 .. ByteSize - 1, x # b[i]
    PROVE  inv_checksum([b EXCEPT ![i] = x]) # inv_checksum(b)
<1> DEFINE c == [b EXCEPT ![i] = x]
<1>1. c \in Bytes4
  BY Sizes DEF Bytes4
<1>2. /\ b[1] \in 0 .. ByteSize - 1 /\ b[2] \in 0 .. ByteSize - 1
      /\ b[3] \in 0 .. ByteSize - 1 /\ b[4] \in 0 .. ByteSize - 1
  BY Sizes DEF Bytes4
<1>3. \A j \in 1 .. 4 : c[j] = IF j = i THEN x ELSE b[j]
  BY DEF Bytes4
<1> HIDE DEF c
<1>4. c[1] = (IF i = 1 THEN x ELSE b[1]) /\ c[2] = (IF i = 2 THEN x ELSE b[2])
      /\ c[3] = (IF i = 3 THEN x ELSE b[3]) /\ c[4] = (IF i = 4 THEN x ELSE b[4])
  BY <1>3
<1>5. ByteSize \in Nat /\ LongSize \in Nat /\ 35937 * (ByteSize - 1) < LongSize
  BY Sizes, ByteIsLarge
<1>6. Number(b) # Number(c) /\ Number(b) - Number(c) < LongSize /\ Number(c) - Number(b) < LongSize
  BY <1>2, <1>4, <1>5 DEF Number
<1> QED
  BY <1>1, <1>6, NumbersTold DEF c

LEMMA SwappedBytesTold ==
    ASSUME ByteSize >= 33, NEW b \in Bytes4, NEW i \in 1 .. 3, b[i] # b[i + 1]
    PROVE  inv_checksum([b EXCEPT ![i] = b[i + 1], ![i + 1] = b[i]]) # inv_checksum(b)
<1> DEFINE c == [b EXCEPT ![i] = b[i + 1], ![i + 1] = b[i]]
<1>1. c \in Bytes4
  BY Sizes DEF Bytes4
<1>2. /\ b[1] \in 0 .. ByteSize - 1 /\ b[2] \in 0 .. ByteSize - 1
      /\ b[3] \in 0 .. ByteSize - 1 /\ b[4] \in 0 .. ByteSize - 1
  BY Sizes DEF Bytes4
<1>3. \A j \in 1 .. 4 : c[j] = IF j = i THEN b[i + 1] ELSE IF j = i + 1 THEN b[i] ELSE b[j]
  BY DEF Bytes4
<1> HIDE DEF c
<1>4. \/ c[1] = b[2] /\ c[2] = b[1] /\ c[3] = b[3] /\ c[4] = b[4] /\ b[1] # b[2]
      \/ c[1] = b[1] /\ c[2] = b[3] /\ c[3] = b[2] /\ c[4] = b[4] /\ b[2] # b[3]
      \/ c[1] = b[1] /\ c[2] = b[2] /\ c[3] = b[4] /\ c[4] = b[3] /\ b[3] # b[4]
  BY <1>3
<1>5. ByteSize \in Nat /\ LongSize \in Nat /\ 35937 * (ByteSize - 1) < LongSize
  BY Sizes, ByteIsLarge
<1>6. Number(b) # Number(c) /\ Number(b) - Number(c) < LongSize /\ Number(c) - Number(b) < LongSize
  BY <1>2, <1>4, <1>5 DEF Number
<1> QED
  BY <1>1, <1>6, NumbersTold DEF c

-----------------------------------------------------------------------------
(* Mountings.                                                              *)

\* row i of a mounting has s[i] in column p[i]
Mounted(p, s) == [i \in 1 .. 3 |-> [k \in 1 .. 3 |-> IF k = p[i] THEN s[i] ELSE 0]]
Permutes(p)   == p \in [1 .. 3 -> 1 .. 3] /\ \A k \in 1 .. 3 : \E i \in 1 .. 3 : p[i] = k

LEMMA SixOrders ==
    ASSUME NEW p, Permutes(p)
    PROVE  \/ p[1] = 1 /\ p[2] = 2 /\ p[3] = 3
           \/ p[1] = 1 /\ p[2] = 3 /\ p[3] = 2
           \/ p[1] = 2 /\ p[2] = 1 /\ p[3] = 3
           \/ p[1] = 2 /\ p[2] = 3 /\ p[3] = 1
           \/ p[1] = 3 /\ p[2] = 1 /\ p[3] = 2
           \/ p[1] = 3 /\ p[2] = 2 /\ p[3] = 1
  BY DEF Permutes

LEMMA RowScale ==
    ASSUME NEW k \in 1 .. 3, NEW s \in {1, -1}, NEW row \in [1 .. 3 -> Int],
           \A i \in 1 .. 3 : row[i] = IF i = k THEN s ELSE 0
    PROVE  inv_row_2_scale(row) = k - 1 + IF s < 0 THEN 4 ELSE 0
<1>1. row[k] = s /\ s # 0
  OBVIOUS
<1>2. {i \in 1 .. 3 : row[i] # 0} = {k}
  BY <1>1
<1>3. Min({k}) = k
  BY DEF Min
<1>4. inv_row_2_scale(row) = LET j == Min({i \in 1 .. 3 : row[i] # 0})
                             IN j - 1 + IF row[j] < 0 THEN 4 ELSE 0
  BY <1>1 DEF inv_row_2_scale
<1> QED
  BY <1>1, <1>2, <1>3, <1>4

LEMMA OctalDigits ==
    ASSUME NEW a \in 0 .. 7, NEW b \in 0 .. 7, NEW c \in 0 .. 7
    PROVE  LET o == a + 8 * b + 64 * c
           IN (o \div 1) % 8 = a /\ (o \div 8) % 8 = b /\ (o \div 64) % 8 = c
<1> DEFINE o == a + 8 * b + 64 * c
<1>1. o \div 1 = a + 8 * b + 64 * c /\ o \div 8 = b + 8 * c /\ o \div 64 = c
  OBVIOUS
<1>2. (a + 8 * b + 64 * c) % 8 = a /\ (b + 8 * c) % 8 = b /\ c % 8 = c
  OBVIOUS
<1> QED
  BY <1>1, <1>2

\* the nine bits say where each row has its number and which sign it has
LEMMA BitsOfMounting ==
    ASSUME NEW p, Permutes(p), NEW s \in [1 .. 3 -> {1, -1}], NEW i \in 1 .. 3
    PROVE  LET o == inv_orientation_matrix_to_scalar(Mounted(p, s))
           IN Column(o, i) = p[i] /\ SIGNSET(o, i) = s[i]
<1> DEFINE o == inv_orientation_matrix_to_scalar(Mounted(p, s))
           d(j) == p[j] - 1 + IF s[j] < 0 THEN 4 ELSE 0
<1>1. ASSUME NEW j \in 1 .. 3
      PROVE  p[j] \in 1 .. 3 /\ s[j] \in {1, -1} /\ inv_row_2_scale(Mounted(p, s)[j]) = d(j)
  <2>1. p[j] \in 1 .. 3 /\ s[j] \in {1, -1}
    BY DEF Permutes
  <2>2. /\ Mounted(p, s)[j] \in [1 .. 3 -> Int]
        /\ \A k \in 1 .. 3 : Mounted(p, s)[j][k] = IF k = p[j] THEN s[j] ELSE 0
    BY <2>1 DEF Mounted
  <2> QED
    BY <2>1, <2>2, RowScale
<1>2. o = d(1) + 8 * d(2) + 64 * d(3)
  BY <1>1 DEF inv_orientation_matrix_to_scalar
<1>3. d(1) \in 0 .. 7 /\ d(2) \in 0 .. 7 /\ d(3) \in 0 .. 7
  BY <1>1
<1>4. Digit(o, i) = d(i)
  <2>1. /\ (o \div 1) % 8 = d(1)
        /\ (o \div 8) % 8 = d(2)
        /\ (o \div 64) % 8 = d(3)
    <3> DEFINE a == d(1)
               b == d(2)
               c == d(3)
    <3>1. a \in 0 .. 7 /\ b \in 0 .. 7 /\ c \in 0 .. 7 /\ o = a + 8 * b + 64 * c
      BY <1>2, <1>3
    <3> HIDE DEF a, b, c, o
    <3>2. (o \div 1) % 8 = a /\ (o \div 8) % 8 = b /\ (o \div 64) % 8 = c
      BY <3>1, OctalDigits
    <3> QED
      BY <3>2 DEF a, b, c
  <2> HIDE DEF d, o
  <2> QED
    BY <2>1 DEF Digit
<1>5. p[i] \in 1 .. 3 /\ s[i] \in {1, -1}
  BY <1>1
<1> QED
  <2> HIDE DEF o
  <2>1. Column(o, i) = p[i]
    BY <1>4, <1>5 DEF Column
  <2>2. SIGNSET(o, i) = s[i]
    BY <1>4, <1>5 DEF SIGNSET
  <2> QED
    BY <2>1, <2>2 DEF o

\* the body's vector is the chip's with its parts moved and turned round
LEMMA ToBody ==
    ASSUME NEW p, Permutes(p), NEW s \in [1 .. 3 -> {1, -1}], NEW v \in [1 .. 3 -> Int]
    PROVE  LET o == inv_orientation_matrix_to_scalar(Mounted(p, s))
               m == Mounted(p, s)
           IN /\ inv_convert_to_body(o, v) = [i \in 1 .. 3 |-> v[p[i]] * s[i]]
              /\ [i \in 1 .. 3 |-> m[i][1] * v[1] + m[i][2] * v[2] + m[i][3] * v[3]]
                   = [i \in 1 .. 3 |-> v[p[i]] * s[i]]
<1> DEFINE o == inv_orientation_matrix_to_scalar(Mounted(p, s))
           m == Mounted(p, s)
<1>1. \A i \in 1 .. 3 : Column(o, i) = p[i] /\ SIGNSET(o, i) = s[i]
  BY BitsOfMounting
<1>2. inv_convert_to_body(o, v) = [i \in 1 .. 3 |-> v[p[i]] * s[i]]
  <2> HIDE DEF o
  <2> QED
    BY <1>1 DEF inv_convert_to_body
<1>3. ASSUME NEW i \in 1 .. 3
      PROVE  m[i][1] * v[1] + m[i][2] * v[2] + m[i][3] * v[3] = v[p[i]] * s[i]
  <2>1. p[i] \in 1 .. 3 /\ s[i] \in Int /\ v[1] \in Int /\ v[2] \in Int /\ v[3] \in Int
    BY DEF Permutes
  <2>2. \A k \in 1 .. 3 : m[i][k] = IF k = p[i] THEN s[i] ELSE 0
    BY DEF Mounted
  <2> HIDE DEF m
  <2>3. CASE p[i] = 1
    BY <2>1, <2>2, <2>3
  <2>4. CASE p[i] = 2
    BY <2>1, <2>2, <2>4
  <2>5. CASE p[i] = 3
    BY <2>1, <2>2, <2>5
  <2> QED
    BY <2>1, <2>3, <2>4, <2>5
<1> QED
  BY <1>2, <1>3

\* and back
LEMMA ToChip ==
    ASSUME NEW p, Permutes(p), NEW s \in [1 .. 3 -> {1, -1}], NEW v \in [1 .. 3 -> Int]
    PROVE  inv_convert_to_chip(inv_orientation_matrix_to_scalar(Mounted(p, s)),
               [i \in 1 .. 3 |-> v[p[i]] * s[i]]) = v
<1> DEFINE o == inv_orientation_matrix_to_scalar(Mounted(p, s))
           b == [i \in 1 .. 3 |-> v[p[i]] * s[i]]
<1>1. \A i \in 1 .. 3 : Column(o, i) = p[i] /\ SIGNSET(o, i) = s[i]
  BY BitsOfMounting
<1> HIDE DEF o
<1>2. ASSUME NEW k \in 1 .. 3
      PROVE  LET i == CHOOSE j \in 1 .. 3 : Column(o, j) = k
             IN b[i] * SIGNSET(o, i) = v[k]
  <2> DEFINE i == CHOOSE j \in 1 .. 3 : Column(o, j) = k
  <2>1. i \in 1 .. 3 /\ Column(o, i) = k
    BY <1>1 DEF Permutes
  <2> HIDE DEF i
  <2>2. p[i] = k /\ SIGNSET(o, i) = s[i] /\ s[i] \in {1, -1} /\ v[k] \in Int
    BY <1>1, <2>1
  <2>3. b[i] = v[k] * s[i]
    BY <2>1, <2>2
  <2> HIDE DEF b
  <2> QED
    BY <2>2, <2>3 DEF i
<1>3. inv_convert_to_chip(o, b) = [k \in 1 .. 3 |-> v[k]]
  BY <1>2 DEF inv_convert_to_chip
<1> QED
  BY <1>3 DEF o

\* what the determinant is for: turned or mirrored, a cross product stays one
LEMMA CrossOfMounted ==
    ASSUME NEW p, Permutes(p), NEW s \in [1 .. 3 -> {1, -1}],
           NEW v \in [1 .. 3 -> Int], NEW b \in [1 .. 3 -> Int]
    PROVE  LET m == Mounted(p, s)
               times(x) == [i \in 1 .. 3 |-> x[p[i]] * s[i]]
           IN times(inv_get_cross_product_vec(v, b))
                = [i \in 1 .. 3 |-> inv_matrix_det(m) * inv_get_cross_product_vec(times(v), times(b))[i]]
<1> DEFINE m == Mounted(p, s)
           times(x) == [i \in 1 .. 3 |-> x[p[i]] * s[i]]
           w == inv_get_cross_product_vec(v, b)
           x1 == v[1]
           x2 == v[2]
           x3 == v[3]
           y1 == b[1]
           y2 == b[2]
           y3 == b[3]
<1>1. /\ x1 \in Int /\ x2 \in Int /\ x3 \in Int /\ y1 \in Int /\ y2 \in Int /\ y3 \in Int
      /\ s[1] \in {1, -1} /\ s[2] \in {1, -1} /\ s[3] \in {1, -1}
  OBVIOUS
<1>2. w[1] = x2 * y3 - x3 * y2 /\ w[2] = x3 * y1 - x1 * y3 /\ w[3] = x1 * y2 - x2 * y1
  BY DEF inv_get_cross_product_vec
<1>3. \A i, k \in 1 .. 3 : m[i][k] = IF k = p[i] THEN s[i] ELSE 0
  BY DEF Mounted
<1> HIDE DEF x1, x2, x3, y1, y2, y3, w, m
<1>4. inv_matrix_det(m) = m[1][1] * (m[2][2] * m[3][3] - m[2][3] * m[3][2])
                        - m[1][2] * (m[2][1] * m[3][3] - m[2][3] * m[3][1])
                        + m[1][3] * (m[2][1] * m[3][2] - m[2][2] * m[3][1])
  BY DEF inv_matrix_det
<1>5. p[1] \in 1 .. 3 /\ p[2] \in 1 .. 3 /\ p[3] \in 1 .. 3
  BY DEF Permutes
<1> DEFINE c == inv_get_cross_product_vec(times(v), times(b))
<1>6. /\ c[1] = (v[p[2]] * s[2]) * (b[p[3]] * s[3]) - (v[p[3]] * s[3]) * (b[p[2]] * s[2])
      /\ c[2] = (v[p[3]] * s[3]) * (b[p[1]] * s[1]) - (v[p[1]] * s[1]) * (b[p[3]] * s[3])
      /\ c[3] = (v[p[1]] * s[1]) * (b[p[2]] * s[2]) - (v[p[2]] * s[2]) * (b[p[1]] * s[1])
  BY DEF inv_get_cross_product_vec
<1> HIDE DEF c
<1>7. ASSUME NEW i \in 1 .. 3 PROVE w[p[i]] * s[i] = inv_matrix_det(m) * c[i]
  <2>1. CASE p[1] = 1 /\ p[2] = 2 /\ p[3] = 3
    BY <1>1, <1>2, <1>3, <1>4, <1>6, <2>1 DEF x1, x2, x3, y1, y2, y3
  <2>2. CASE p[1] = 1 /\ p[2] = 3 /\ p[3] = 2
    BY <1>1, <1>2, <1>3, <1>4, <1>6, <2>2 DEF x1, x2, x3, y1, y2, y3
  <2>3. CASE p[1] = 2 /\ p[2] = 1 /\ p[3] = 3
    BY <1>1, <1>2, <1>3, <1>4, <1>6, <2>3 DEF x1, x2, x3, y1, y2, y3
  <2>4. CASE p[1] = 2 /\ p[2] = 3 /\ p[3] = 1
    BY <1>1, <1>2, <1>3, <1>4, <1>6, <2>4 DEF x1, x2, x3, y1, y2, y3
  <2>5. CASE p[1] = 3 /\ p[2] = 1 /\ p[3] = 2
    BY <1>1, <1>2, <1>3, <1>4, <1>6, <2>5 DEF x1, x2, x3, y1, y2, y3
  <2>6. CASE p[1] = 3 /\ p[2] = 2 /\ p[3] = 1
    BY <1>1, <1>2, <1>3, <1>4, <1>6, <2>6 DEF x1, x2, x3, y1, y2, y3
  <2> QED
    BY <2>1, <2>2, <2>3, <2>4, <2>5, <2>6, SixOrders
<1> QED
  BY <1>7 DEF c, w, m
-----------------------------------------------------------------------------
(* Quaternions of integers, with the exact product inv_q_multf.            *)

Quads    == Int \X Int \X Int \X Int
Times(k, x) == <<k * x[1], k * x[2], k * x[3], k * x[4]>>
Norm(x)  == x[1] * x[1] + x[2] * x[2] + x[3] * x[3] + x[4] * x[4]
Units    == {x \in Quads : Norm(x) = 4}

LEMMA QuadParts ==
    ASSUME NEW x \in Quads
    PROVE  /\ x[1] \in Int /\ x[2] \in Int /\ x[3] \in Int /\ x[4] \in Int
           /\ x = <<x[1], x[2], x[3], x[4]>>
  BY DEF Quads

LEMMA ProductParts ==
    ASSUME NEW x \in Quads, NEW y \in Quads
    PROVE  LET p == inv_q_multf(x, y)
           IN /\ p \in Quads
              /\ p[1] = x[1] * y[1] - x[2] * y[2] - x[3] * y[3] - x[4] * y[4]
              /\ p[2] = x[1] * y[2] + x[2] * y[1] + x[3] * y[4] - x[4] * y[3]
              /\ p[3] = x[1] * y[3] - x[2] * y[4] + x[3] * y[1] + x[4] * y[2]
              /\ p[4] = x[1] * y[4] + x[2] * y[3] - x[3] * y[2] + x[4] * y[1]
<1>1. /\ x[1] \in Int /\ x[2] \in Int /\ x[3] \in Int /\ x[4] \in Int
      /\ y[1] \in Int /\ y[2] \in Int /\ y[3] \in Int /\ y[4] \in Int
  BY QuadParts
<1> QED
  BY <1>1 DEF inv_q_multf, Hamilton, Quads

LEMMA Associative ==
    ASSUME NEW x \in Quads, NEW y \in Quads, NEW z \in Quads
    PROVE  inv_q_multf(inv_q_multf(x, y), z) = inv_q_multf(x, inv_q_multf(y, z))
<1>1. PICK x1 \in Int, x2 \in Int, x3 \in Int, x4 \in Int : x = <<x1, x2, x3, x4>>
  BY QuadParts
<1>2. PICK y1 \in Int, y2 \in Int, y3 \in Int, y4 \in Int : y = <<y1, y2, y3, y4>>
  BY QuadParts
<1>3. PICK z1 \in Int, z2 \in Int, z3 \in Int, z4 \in Int : z = <<z1, z2, z3, z4>>
  BY QuadParts
<1> QED
  BY <1>1, <1>2, <1>3 DEF inv_q_multf, Hamilton

\* a product is inverted by the inverses the other way round
LEMMA InverseOfProduct ==
    ASSUME NEW x \in Quads, NEW y \in Quads
    PROVE  /\ inv_q_invert(x) \in Quads
           /\ inv_q_multf(inv_q_invert(y), inv_q_invert(x)) = inv_q_invert(inv_q_multf(x, y))
<1>1. PICK x1 \in Int, x2 \in Int, x3 \in Int, x4 \in Int : x = <<x1, x2, x3, x4>>
  BY QuadParts
<1>2. PICK y1 \in Int, y2 \in Int, y3 \in Int, y4 \in Int : y = <<y1, y2, y3, y4>>
  BY QuadParts
<1>3. inv_q_invert(x) \in Quads
  BY <1>1 DEF inv_q_invert, Quads
<1>4. inv_q_multf(inv_q_invert(y), inv_q_invert(x)) = inv_q_invert(inv_q_multf(x, y))
  BY <1>1, <1>2 DEF inv_q_invert, inv_q_multf, Hamilton
<1> QED
  BY <1>3, <1>4

LEMMA TimesParts ==
    ASSUME NEW k \in Int, NEW x \in Quads
    PROVE  /\ Times(k, x) \in Quads
           /\ Times(k, x)[1] = k * x[1] /\ Times(k, x)[2] = k * x[2]
           /\ Times(k, x)[3] = k * x[3] /\ Times(k, x)[4] = k * x[4]
  BY QuadParts DEF Times, Quads

LEMMA TimesProduct ==
    ASSUME NEW k \in Int, NEW x \in Quads, NEW y \in Quads
    PROVE  /\ inv_q_multf(Times(k, x), y) = Times(k, inv_q_multf(x, y))
           /\ inv_q_multf(x, Times(k, y)) = Times(k, inv_q_multf(x, y))
           /\ inv_q_invert(Times(k, x)) = Times(k, inv_q_invert(x))
<1>1. PICK x1 \in Int, x2 \in Int, x3 \in Int, x4 \in Int : x = <<x1, x2, x3, x4>>
  BY QuadParts
<1>2. PICK y1 \in Int, y2 \in Int, y3 \in Int, y4 \in Int : y = <<y1, y2, y3, y4>>
  BY QuadParts
<1>3. inv_q_multf(Times(k, x), y) = Times(k, inv_q_multf(x, y))
  BY <1>1, <1>2 DEF Times, inv_q_multf, Hamilton
<1>4. inv_q_multf(x, Times(k, y)) = Times(k, inv_q_multf(x, y))
  BY <1>1, <1>2 DEF Times, inv_q_multf, Hamilton
<1>5. inv_q_invert(Times(k, x)) = Times(k, inv_q_invert(x))
  BY <1>1 DEF Times, inv_q_invert
<1> QED
  BY <1>3, <1>4, <1>5

\* Euler's identity of four squares
LEMMA FourSquares ==
    ASSUME NEW a \in Int, NEW b \in Int, NEW c \in Int, NEW d \in Int,
           NEW p \in Int, NEW q \in Int, NEW r \in Int, NEW s \in Int
    PROVE  LET i == a * p - b * q - c * r - d * s
               j == a * q + b * p + c * s - d * r
               k == a * r - b * s + c * p + d * q
               l == a * s + b * r - c * q + d * p
           IN i * i + j * j + k * k + l * l
                = (a * a + b * b + c * c + d * d) * (p * p + q * q + r * r + s * s)
  OBVIOUS

LEMMA NormOfProduct ==
    ASSUME NEW x \in Quads, NEW y \in Quads
    PROVE  Norm(inv_q_multf(x, y)) = Norm(x) * Norm(y)
<1>1. PICK x1 \in Int, x2 \in Int, x3 \in Int, x4 \in Int : x = <<x1, x2, x3, x4>>
  BY QuadParts
<1>2. PICK y1 \in Int, y2 \in Int, y3 \in Int, y4 \in Int : y = <<y1, y2, y3, y4>>
  BY QuadParts
<1> QED
  BY <1>1, <1>2, FourSquares DEF Norm, inv_q_multf, Hamilton

\* four squares that sum to 4: one of 2, or four of 1
LEMMA UnitParts ==
    ASSUME NEW x \in Units
    PROVE  \/ /\ x[1] \in {-1, 1} /\ x[2] \in {-1, 1} /\ x[3] \in {-1, 1} /\ x[4] \in {-1, 1}
           \/ x[1] \in {-2, 2} /\ x[2] = 0 /\ x[3] = 0 /\ x[4] = 0
           \/ x[1] = 0 /\ x[2] \in {-2, 2} /\ x[3] = 0 /\ x[4] = 0
           \/ x[1] = 0 /\ x[2] = 0 /\ x[3] \in {-2, 2} /\ x[4] = 0
           \/ x[1] = 0 /\ x[2] = 0 /\ x[3] = 0 /\ x[4] \in {-2, 2}
<1>1. x[1] \in Int /\ x[2] \in Int /\ x[3] \in Int /\ x[4] \in Int
  BY QuadParts DEF Units
<1>2. x[1] * x[1] + x[2] * x[2] + x[3] * x[3] + x[4] * x[4] = 4
  BY DEF Units, Norm
<1>3. ASSUME NEW n \in Int
      PROVE  n * n >= 0 /\ (n * n <= 4 => n \in {-2, -1, 0, 1, 2})
  OBVIOUS
<1>4. /\ x[1] \in {-2, -1, 0, 1, 2} /\ x[2] \in {-2, -1, 0, 1, 2}
      /\ x[3] \in {-2, -1, 0, 1, 2} /\ x[4] \in {-2, -1, 0, 1, 2}
  <2>1. /\ x[1] * x[1] >= 0 /\ x[2] * x[2] >= 0 /\ x[3] * x[3] >= 0 /\ x[4] * x[4] >= 0
    BY <1>1, <1>3
  <2>2. /\ x[1] * x[1] \in Int /\ x[2] * x[2] \in Int /\ x[3] * x[3] \in Int /\ x[4] * x[4] \in Int
    BY <1>1
  <2>3. /\ x[1] * x[1] <= 4 /\ x[2] * x[2] <= 4 /\ x[3] * x[3] <= 4 /\ x[4] * x[4] <= 4
    BY <1>2, <2>1, <2>2
  <2> QED
    BY <1>1, <1>3, <2>3
<1> QED
  BY <1>2, <1>4

LEMMA SameParity ==
    ASSUME NEW m \in Int, NEW n \in Int, NEW i \in Int, NEW j \in Int,
           m % 2 = i % 2, n % 2 = j % 2
    PROVE  (m * n) % 2 = (i * j) % 2
<1>1. PICK k \in Int, l \in Int : m = i + 2 * k /\ n = j + 2 * l
  <2>1. m = i + 2 * ((m \div 2) - (i \div 2)) /\ n = j + 2 * ((n \div 2) - (j \div 2))
    OBVIOUS
  <2>2. (m \div 2) - (i \div 2) \in Int /\ (n \div 2) - (j \div 2) \in Int
    OBVIOUS
  <2> QED
    BY <2>1, <2>2, Zenon
<1>2. m * n = i * j + 2 * (i * l + j * k + 2 * k * l)
  BY <1>1
<1> DEFINE a == i * j
           b == i * l + j * k + 2 * k * l
<1>3. a \in Int /\ b \in Int /\ m * n = a + 2 * b
  BY <1>2
<1> HIDE DEF a, b
<1>4. (a + 2 * b) % 2 = a % 2
  BY <1>3
<1> QED
  BY <1>3, <1>4 DEF a

LEMMA FourAlike ==
    ASSUME NEW m \in Int, NEW n \in Int, NEW i \in Int, NEW j \in Int,
           n % 2 = m % 2, i % 2 = m % 2, j % 2 = m % 2
    PROVE  /\ (m - n - i - j) % 2 = 0 /\ (m + n + i - j) % 2 = 0
           /\ (m - n + i + j) % 2 = 0 /\ (m + n - i + j) % 2 = 0
  OBVIOUS

\* the product of two units is twice a unit
LEMMA UnitsClosed ==
    ASSUME NEW x \in Units, NEW y \in Units
    PROVE  \E z \in Units : inv_q_multf(x, y) = Times(2, z)
<1> DEFINE h == inv_q_multf(x, y)
           z == <<h[1] \div 2, h[2] \div 2, h[3] \div 2, h[4] \div 2>>
<1>1. x \in Quads /\ y \in Quads /\ h \in Quads
  BY ProductParts DEF Units
<1>2. h[1] % 2 = 0 /\ h[2] % 2 = 0 /\ h[3] % 2 = 0 /\ h[4] % 2 = 0
  <2>1. /\ h[1] = x[1] * y[1] - x[2] * y[2] - x[3] * y[3] - x[4] * y[4]
        /\ h[2] = x[1] * y[2] + x[2] * y[1] + x[3] * y[4] - x[4] * y[3]
        /\ h[3] = x[1] * y[3] - x[2] * y[4] + x[3] * y[1] + x[4] * y[2]
        /\ h[4] = x[1] * y[4] + x[2] * y[3] - x[3] * y[2] + x[4] * y[1]
    BY <1>1, ProductParts, Zenon
  <2>2. /\ x[1] % 2 = x[2] % 2 /\ x[2] % 2 = x[3] % 2 /\ x[3] % 2 = x[4] % 2
        /\ y[1] % 2 = y[2] % 2 /\ y[2] % 2 = y[3] % 2 /\ y[3] % 2 = y[4] % 2
    BY UnitParts
  <2>3. ASSUME NEW m \in 1 .. 4, NEW n \in 1 .. 4
        PROVE  (x[m] * y[n]) % 2 = (x[1] * y[1]) % 2 /\ x[m] * y[n] \in Int
    <3>1. x[m] \in Int /\ y[n] \in Int /\ x[1] \in Int /\ y[1] \in Int
      BY <1>1, QuadParts
    <3>2. x[m] % 2 = x[1] % 2 /\ y[n] % 2 = y[1] % 2
      BY <2>2
    <3> QED
      BY <3>1, <3>2, SameParity
  <2>4. /\ h[1] % 2 = 0 /\ h[2] % 2 = 0 /\ h[3] % 2 = 0 /\ h[4] % 2 = 0
    <3> HIDE DEF h
    <3>1. h[1] % 2 = 0
      BY <2>1, <2>3, FourAlike
    <3>2. h[2] % 2 = 0
      BY <2>1, <2>3, FourAlike
    <3>3. h[3] % 2 = 0
      BY <2>1, <2>3, FourAlike
    <3>4. h[4] % 2 = 0
      BY <2>1, <2>3, FourAlike
    <3> QED
      BY <3>1, <3>2, <3>3, <3>4
  <2> QED
    BY <2>4
<1>3. Norm(h) = 16
  BY <1>1, NormOfProduct DEF Units
<1> HIDE DEF h
<1>4. h[1] \in Int /\ h[2] \in Int /\ h[3] \in Int /\ h[4] \in Int /\ h = <<h[1], h[2], h[3], h[4]>>
  BY <1>1, QuadParts
<1>5. z \in Quads /\ h = Times(2, z)
  BY <1>2, <1>4 DEF Quads, Times
<1>6. Norm(z) = 4
  <2> HIDE DEF z
  <2>1. z[1] \in Int /\ z[2] \in Int /\ z[3] \in Int /\ z[4] \in Int
    BY <1>5, QuadParts
  <2>2. Norm(h) = 4 * Norm(z)
    BY <1>5, <2>1 DEF Norm, Times
  <2>3. Norm(z) \in Int
    BY <2>1 DEF Norm
  <2> QED
    BY <1>3, <2>2, <2>3
<1> QED
  BY <1>5, <1>6 DEF Units, h

-----------------------------------------------------------------------------
(* Units in fixed point.  A turn is Half times a unit of integers.         *)

Quarter == One \div 4

LEMMA Points ==
    /\ Quarter \in Nat \ {0} /\ One = 4 * Quarter /\ Half = 2 * Quarter
    /\ One \in Int /\ Half \in Int /\ One > 0 /\ Half > 0
    /\ LongSize \in Nat \ {0} /\ LongSize \div 2 >= 8 * Quarter
  BY Sizes DEF Quarter, Half

LEMMA FitsLong ==
    ASSUME NEW x \in Int, -7 * Quarter <= x, x <= 7 * Quarter
    PROVE  Long(x) = x
  BY Points, LongOf

\* sums of words, whatever overflows on the way
LEMMA LongSums ==
    ASSUME NEW w \in Int, NEW x \in Int, NEW y \in Int, NEW z \in Int
    PROVE  /\ Long(Long(w) - Long(x) - Long(y) - Long(z)) = Long(w - x - y - z)
           /\ Long(Long(w) + Long(x) + Long(y) - Long(z)) = Long(w + x + y - z)
           /\ Long(Long(w) - Long(x) + Long(y) + Long(z)) = Long(w - x + y + z)
           /\ Long(Long(w) + Long(x) - Long(y) + Long(z)) = Long(w + x - y + z)
           /\ Long(Long(w) + Long(x) + Long(y)) = Long(w + x + y)
           /\ Long(Long(w) + Long(x) - y) = Long(w + x - y)
<1>1. ASSUME NEW n \in Int
      PROVE  Long(n) \in Int /\ \E k \in Int : n = k * LongSize + Long(n)
  BY Sizes, SignedIs DEF Long
<1>2. PICK kw \in Int : w = kw * LongSize + Long(w)
  BY <1>1
<1>3. PICK kx \in Int : x = kx * LongSize + Long(x)
  BY <1>1
<1>4. PICK ky \in Int : y = ky * LongSize + Long(y)
  BY <1>1
<1>5. PICK kz \in Int : z = kz * LongSize + Long(z)
  BY <1>1
<1> DEFINE W == Long(w)
           X == Long(x)
           Y == Long(y)
           Z == Long(z)
<1>6. W \in Int /\ X \in Int /\ Y \in Int /\ Z \in Int /\ LongSize \in Int
  BY <1>1, Sizes
<1>7. /\ w = kw * LongSize + W /\ x = kx * LongSize + X
      /\ y = ky * LongSize + Y /\ z = kz * LongSize + Z
  BY <1>2, <1>3, <1>4, <1>5
<1> HIDE DEF W, X, Y, Z
<1>8. ASSUME NEW m \in Int, NEW n \in Int, NEW k \in Int, m = k * LongSize + n
      PROVE  Long(n) = Long(m)
  BY <1>8, LongOfSame
<1>9. Long(W - X - Y - Z) = Long(w - x - y - z)
  <2> DEFINE m == w - x - y - z
             k == kw - kx - ky - kz
             n == W - X - Y - Z
  <2>1. m = k * LongSize + n
    BY <1>6, <1>7
  <2>2. m \in Int /\ k \in Int /\ n \in Int
    BY <1>6
  <2> HIDE DEF m, k, n
  <2>3. Long(n) = Long(m)
    BY <2>1, <2>2, <1>8
  <2> QED
    BY <2>3 DEF m, n
<1>10. Long(W + X + Y - Z) = Long(w + x + y - z)
  <2> DEFINE m == w + x + y - z
             k == kw + kx + ky - kz
             n == W + X + Y - Z
  <2>1. m = k * LongSize + n
    BY <1>6, <1>7
  <2>2. m \in Int /\ k \in Int /\ n \in Int
    BY <1>6
  <2> HIDE DEF m, k, n
  <2>3. Long(n) = Long(m)
    BY <2>1, <2>2, <1>8
  <2> QED
    BY <2>3 DEF m, n
<1>11. Long(W - X + Y + Z) = Long(w - x + y + z)
  <2> DEFINE m == w - x + y + z
             k == kw - kx + ky + kz
             n == W - X + Y + Z
  <2>1. m = k * LongSize + n
    BY <1>6, <1>7
  <2>2. m \in Int /\ k \in Int /\ n \in Int
    BY <1>6
  <2> HIDE DEF m, k, n
  <2>3. Long(n) = Long(m)
    BY <2>1, <2>2, <1>8
  <2> QED
    BY <2>3 DEF m, n
<1>12. Long(W + X - Y + Z) = Long(w + x - y + z)
  <2> DEFINE m == w + x - y + z
             k == kw + kx - ky + kz
             n == W + X - Y + Z
  <2>1. m = k * LongSize + n
    BY <1>6, <1>7
  <2>2. m \in Int /\ k \in Int /\ n \in Int
    BY <1>6
  <2> HIDE DEF m, k, n
  <2>3. Long(n) = Long(m)
    BY <2>1, <2>2, <1>8
  <2> QED
    BY <2>3 DEF m, n
<1>13. Long(W + X + Y) = Long(w + x + y)
  <2> DEFINE m == w + x + y
             k == kw + kx + ky
             n == W + X + Y
  <2>1. m = k * LongSize + n
    BY <1>6, <1>7
  <2>2. m \in Int /\ k \in Int /\ n \in Int
    BY <1>6
  <2> HIDE DEF m, k, n
  <2>3. Long(n) = Long(m)
    BY <2>1, <2>2, <1>8
  <2> QED
    BY <2>3 DEF m, n
<1>14. Long(W + X - y) = Long(w + x - y)
  <2> DEFINE m == w + x - y
             k == kw + kx
             n == W + X - y
  <2>1. m = k * LongSize + n
    BY <1>6, <1>7
  <2>2. m \in Int /\ k \in Int /\ n \in Int
    BY <1>6
  <2> HIDE DEF m, k, n
  <2>3. Long(n) = Long(m)
    BY <2>1, <2>2, <1>8
  <2> QED
    BY <2>3 DEF m, n
<1> QED
  BY <1>9, <1>10, <1>11, <1>12, <1>13, <1>14 DEF W, X, Y, Z

LEMMA LongSum ==
    ASSUME NEW w \in Int, NEW x \in Int
    PROVE  /\ Long(Long(w) + Long(x)) = Long(w + x)
           /\ Long(Long(w) - Long(x)) = Long(w - x)
<1> DEFINE X == Long(x)
<1>1. X \in Int
  BY LongType
<1>2. Long(w + X) = Long(w + x) /\ Long(w - X) = Long(w - x)
  <2>1. Long(w + x) = Long(x + w) /\ Long(w + X) = Long(X + w)
    BY <1>1
  <2>2. Long(X + w) = Long(x + w) /\ Long(w - X) = Long(w - x)
    BY LongAdds
  <2> QED
    BY <2>1, <2>2
<1> HIDE DEF X
<1>3. Long(Long(w) + X) = Long(w + X) /\ Long(Long(w) - X) = Long(w - X)
  BY <1>1, LongAdds
<1> QED
  BY <1>2, <1>3 DEF X

\* products that need no rounding
LEMMA ExactProducts ==
    ASSUME NEW x \in Int, NEW y \in Int
    PROVE  /\ inv_q30_mult(Half * x, Half * y) = Long(Quarter * (x * y))
           /\ inv_q29_mult(Half * x, Half * y) = Long(Half * (x * y))
           /\ inv_q30_mult(Half * x, 2 * y) = Long(x * y)
           /\ inv_q30_mult(2 * x, Half * y) = Long(x * y)
           /\ inv_q30_mult(One * x, y) = Long(x * y)
<1>1. ASSUME NEW n \in Int, NEW m \in Nat \ {0} PROVE (n * m) \div m = n
  <2>1. (n * m + 0) \div m = n
    BY RestOfMultiple
  <2> QED
    BY <2>1
<1>2. One \in Nat \ {0} /\ Half \in Nat \ {0} /\ Quarter \in Nat \ {0}
  BY Points
<1>3. inv_q30_mult(Half * x, Half * y) = Long(Quarter * (x * y))
  <2>1. (Half * x) * (Half * y) = (Quarter * (x * y)) * One
    BY <1>2, Points
  <2>2. Quarter * (x * y) \in Int
    BY <1>2
  <2>3. ((Quarter * (x * y)) * One) \div One = Quarter * (x * y)
    BY <1>1, <1>2, <2>2
  <2> QED
    BY <2>1, <2>3 DEF inv_q30_mult, inv_q_shift_mult
<1>4. inv_q29_mult(Half * x, Half * y) = Long(Half * (x * y))
  <2>1. (Half * x) * (Half * y) = (Half * (x * y)) * Half
    BY <1>2
  <2>2. Half * (x * y) \in Int
    BY <1>2
  <2>3. ((Half * (x * y)) * Half) \div Half = Half * (x * y)
    BY <1>1, <1>2, <2>2
  <2> QED
    BY <2>1, <2>3 DEF inv_q29_mult, inv_q_shift_mult
<1>5. x * y \in Int /\ ((x * y) * One) \div One = x * y
  BY <1>1, <1>2
<1>6. inv_q30_mult(Half * x, 2 * y) = Long(x * y)
  <2>1. (Half * x) * (2 * y) = (x * y) * One
    BY <1>2, Points
  <2> QED
    BY <1>5, <2>1 DEF inv_q30_mult, inv_q_shift_mult
<1>7. inv_q30_mult(2 * x, Half * y) = Long(x * y)
  <2>1. (2 * x) * (Half * y) = (x * y) * One
    BY <1>2, Points
  <2> QED
    BY <1>5, <2>1 DEF inv_q30_mult, inv_q_shift_mult
<1>8. inv_q30_mult(One * x, y) = Long(x * y)
  <2>1. (One * x) * y = (x * y) * One
    BY <1>2
  <2> QED
    BY <1>5, <2>1 DEF inv_q30_mult, inv_q_shift_mult
<1> QED
  BY <1>3, <1>4, <1>6, <1>7, <1>8

Longs(x) == <<Long(x[1]), Long(x[2]), Long(x[3]), Long(x[4])>>

\* so inv_q_mult is the exact product, as long as its words can hold it
LEMMA TurnByTurn ==
    ASSUME NEW x \in Quads, NEW y \in Quads
    PROVE  inv_q_mult(Times(Half, x), Times(Half, y)) = Longs(Times(Quarter, inv_q_multf(x, y)))
<1>1. PICK x1 \in Int, x2 \in Int, x3 \in Int, x4 \in Int : x = <<x1, x2, x3, x4>>
  BY QuadParts
<1>2. PICK y1 \in Int, y2 \in Int, y3 \in Int, y4 \in Int : y = <<y1, y2, y3, y4>>
  BY QuadParts
<1>3. ASSUME NEW m \in Int, NEW n \in Int
      PROVE  inv_q30_mult(Half * m, Half * n) = Long(Quarter * (m * n))
  BY ExactProducts
<1> DEFINE f(m, n) == Quarter * (m * n)
<1>4. inv_q_mult(Times(Half, x), Times(Half, y))
        = << Long(Long(f(x1, y1)) - Long(f(x2, y2)) - Long(f(x3, y3)) - Long(f(x4, y4))),
             Long(Long(f(x1, y2)) + Long(f(x2, y1)) + Long(f(x3, y4)) - Long(f(x4, y3))),
             Long(Long(f(x1, y3)) - Long(f(x2, y4)) + Long(f(x3, y1)) + Long(f(x4, y2))),
             Long(Long(f(x1, y4)) + Long(f(x2, y3)) - Long(f(x3, y2)) + Long(f(x4, y1))) >>
  BY <1>1, <1>2, <1>3 DEF inv_q_mult, Hamilton, Times
<1>5. ASSUME NEW m \in Int, NEW n \in Int PROVE f(m, n) \in Int
  BY Points
<1> HIDE DEF f
<1>6. Long(Long(f(x1, y1)) - Long(f(x2, y2)) - Long(f(x3, y3)) - Long(f(x4, y4)))
        = Long(f(x1, y1) - f(x2, y2) - f(x3, y3) - f(x4, y4))
  <2> DEFINE a == f(x1, y1)
             b == f(x2, y2)
             c == f(x3, y3)
             d == f(x4, y4)
  <2>1. a \in Int /\ b \in Int /\ c \in Int /\ d \in Int
    BY <1>5
  <2> HIDE DEF a, b, c, d
  <2>2. Long(Long(a) - Long(b) - Long(c) - Long(d)) = Long(a - b - c - d)
    BY <2>1, LongSums
  <2> QED
    BY <2>2 DEF a, b, c, d
<1>7. Long(Long(f(x1, y2)) + Long(f(x2, y1)) + Long(f(x3, y4)) - Long(f(x4, y3)))
        = Long(f(x1, y2) + f(x2, y1) + f(x3, y4) - f(x4, y3))
  <2> DEFINE a == f(x1, y2)
             b == f(x2, y1)
             c == f(x3, y4)
             d == f(x4, y3)
  <2>1. a \in Int /\ b \in Int /\ c \in Int /\ d \in Int
    BY <1>5
  <2> HIDE DEF a, b, c, d
  <2>2. Long(Long(a) + Long(b) + Long(c) - Long(d)) = Long(a + b + c - d)
    BY <2>1, LongSums
  <2> QED
    BY <2>2 DEF a, b, c, d
<1>8. Long(Long(f(x1, y3)) - Long(f(x2, y4)) + Long(f(x3, y1)) + Long(f(x4, y2)))
        = Long(f(x1, y3) - f(x2, y4) + f(x3, y1) + f(x4, y2))
  <2> DEFINE a == f(x1, y3)
             b == f(x2, y4)
             c == f(x3, y1)
             d == f(x4, y2)
  <2>1. a \in Int /\ b \in Int /\ c \in Int /\ d \in Int
    BY <1>5
  <2> HIDE DEF a, b, c, d
  <2>2. Long(Long(a) - Long(b) + Long(c) + Long(d)) = Long(a - b + c + d)
    BY <2>1, LongSums
  <2> QED
    BY <2>2 DEF a, b, c, d
<1>9. Long(Long(f(x1, y4)) + Long(f(x2, y3)) - Long(f(x3, y2)) + Long(f(x4, y1)))
        = Long(f(x1, y4) + f(x2, y3) - f(x3, y2) + f(x4, y1))
  <2> DEFINE a == f(x1, y4)
             b == f(x2, y3)
             c == f(x3, y2)
             d == f(x4, y1)
  <2>1. a \in Int /\ b \in Int /\ c \in Int /\ d \in Int
    BY <1>5
  <2> HIDE DEF a, b, c, d
  <2>2. Long(Long(a) + Long(b) - Long(c) + Long(d)) = Long(a + b - c + d)
    BY <2>1, LongSums
  <2> QED
    BY <2>2 DEF a, b, c, d
<1>10. inv_q_mult(Times(Half, x), Times(Half, y))
        = << Long(f(x1, y1) - f(x2, y2) - f(x3, y3) - f(x4, y4)),
             Long(f(x1, y2) + f(x2, y1) + f(x3, y4) - f(x4, y3)),
             Long(f(x1, y3) - f(x2, y4) + f(x3, y1) + f(x4, y2)),
             Long(f(x1, y4) + f(x2, y3) - f(x3, y2) + f(x4, y1)) >>
  BY <1>4, <1>6, <1>7, <1>8, <1>9
<1>11. Times(Quarter, inv_q_multf(x, y))
        = << f(x1, y1) - f(x2, y2) - f(x3, y3) - f(x4, y4),
             f(x1, y2) + f(x2, y1) + f(x3, y4) - f(x4, y3),
             f(x1, y3) - f(x2, y4) + f(x3, y1) + f(x4, y2),
             f(x1, y4) + f(x2, y3) - f(x3, y2) + f(x4, y1) >>
  BY <1>1, <1>2, Points DEF f, Times, inv_q_multf, Hamilton
<1> QED
  BY <1>10, <1>11 DEF Longs

LEMMA TurnByVector ==
    ASSUME NEW x \in Quads, NEW y \in Quads
    PROVE  /\ inv_q_mult(Times(Half, x), Times(2, y)) = Longs(inv_q_multf(x, y))
           /\ inv_q_mult(Times(2, x), Times(Half, y)) = Longs(inv_q_multf(x, y))
<1>1. PICK x1 \in Int, x2 \in Int, x3 \in Int, x4 \in Int : x = <<x1, x2, x3, x4>>
  BY QuadParts
<1>2. PICK y1 \in Int, y2 \in Int, y3 \in Int, y4 \in Int : y = <<y1, y2, y3, y4>>
  BY QuadParts
<1>3. ASSUME NEW m \in Int, NEW n \in Int
      PROVE  inv_q30_mult(Half * m, 2 * n) = Long(m * n) /\ inv_q30_mult(2 * m, Half * n) = Long(m * n)
  BY ExactProducts
<1> DEFINE f(m, n) == m * n
           sums == << Long(Long(f(x1, y1)) - Long(f(x2, y2)) - Long(f(x3, y3)) - Long(f(x4, y4))),
                      Long(Long(f(x1, y2)) + Long(f(x2, y1)) + Long(f(x3, y4)) - Long(f(x4, y3))),
                      Long(Long(f(x1, y3)) - Long(f(x2, y4)) + Long(f(x3, y1)) + Long(f(x4, y2))),
                      Long(Long(f(x1, y4)) + Long(f(x2, y3)) - Long(f(x3, y2)) + Long(f(x4, y1))) >>
<1>4. inv_q_mult(Times(Half, x), Times(2, y)) = sums
  BY <1>1, <1>2, <1>3 DEF inv_q_mult, Hamilton, Times
<1>5. inv_q_mult(Times(2, x), Times(Half, y)) = sums
  BY <1>1, <1>2, <1>3 DEF inv_q_mult, Hamilton, Times
<1>6. ASSUME NEW m \in Int, NEW n \in Int PROVE f(m, n) \in Int
  OBVIOUS
<1> HIDE DEF f
<1>7. Long(Long(f(x1, y1)) - Long(f(x2, y2)) - Long(f(x3, y3)) - Long(f(x4, y4)))
        = Long(f(x1, y1) - f(x2, y2) - f(x3, y3) - f(x4, y4))
  <2> DEFINE a == f(x1, y1)
             b == f(x2, y2)
             c == f(x3, y3)
             d == f(x4, y4)
  <2>1. a \in Int /\ b \in Int /\ c \in Int /\ d \in Int
    BY <1>6
  <2> HIDE DEF a, b, c, d
  <2>2. Long(Long(a) - Long(b) - Long(c) - Long(d)) = Long(a - b - c - d)
    BY <2>1, LongSums
  <2> QED
    BY <2>2 DEF a, b, c, d
<1>8. Long(Long(f(x1, y2)) + Long(f(x2, y1)) + Long(f(x3, y4)) - Long(f(x4, y3)))
        = Long(f(x1, y2) + f(x2, y1) + f(x3, y4) - f(x4, y3))
  <2> DEFINE a == f(x1, y2)
             b == f(x2, y1)
             c == f(x3, y4)
             d == f(x4, y3)
  <2>1. a \in Int /\ b \in Int /\ c \in Int /\ d \in Int
    BY <1>6
  <2> HIDE DEF a, b, c, d
  <2>2. Long(Long(a) + Long(b) + Long(c) - Long(d)) = Long(a + b + c - d)
    BY <2>1, LongSums
  <2> QED
    BY <2>2 DEF a, b, c, d
<1>9. Long(Long(f(x1, y3)) - Long(f(x2, y4)) + Long(f(x3, y1)) + Long(f(x4, y2)))
        = Long(f(x1, y3) - f(x2, y4) + f(x3, y1) + f(x4, y2))
  <2> DEFINE a == f(x1, y3)
             b == f(x2, y4)
             c == f(x3, y1)
             d == f(x4, y2)
  <2>1. a \in Int /\ b \in Int /\ c \in Int /\ d \in Int
    BY <1>6
  <2> HIDE DEF a, b, c, d
  <2>2. Long(Long(a) - Long(b) + Long(c) + Long(d)) = Long(a - b + c + d)
    BY <2>1, LongSums
  <2> QED
    BY <2>2 DEF a, b, c, d
<1>10. Long(Long(f(x1, y4)) + Long(f(x2, y3)) - Long(f(x3, y2)) + Long(f(x4, y1)))
        = Long(f(x1, y4) + f(x2, y3) - f(x3, y2) + f(x4, y1))
  <2> DEFINE a == f(x1, y4)
             b == f(x2, y3)
             c == f(x3, y2)
             d == f(x4, y1)
  <2>1. a \in Int /\ b \in Int /\ c \in Int /\ d \in Int
    BY <1>6
  <2> HIDE DEF a, b, c, d
  <2>2. Long(Long(a) + Long(b) - Long(c) + Long(d)) = Long(a + b - c + d)
    BY <2>1, LongSums
  <2> QED
    BY <2>2 DEF a, b, c, d
<1>11. sums
        = << Long(f(x1, y1) - f(x2, y2) - f(x3, y3) - f(x4, y4)),
             Long(f(x1, y2) + f(x2, y1) + f(x3, y4) - f(x4, y3)),
             Long(f(x1, y3) - f(x2, y4) + f(x3, y1) + f(x4, y2)),
             Long(f(x1, y4) + f(x2, y3) - f(x3, y2) + f(x4, y1)) >>
  BY <1>7, <1>8, <1>9, <1>10
<1> HIDE DEF sums
<1>12. sums = Longs(inv_q_multf(x, y))
  BY <1>1, <1>2, <1>11 DEF f, Longs, inv_q_multf, Hamilton
<1> QED
  BY <1>4, <1>5, <1>12

LEMMA TurnIs ==
    ASSUME NEW q \in Turns
    PROVE  \E a \in Units : q = Times(Half, a)
<1>1. One = 2 * Half /\ Half \in Int /\ Half # 0
  BY Points
<1>2. /\ q \in [1 .. 4 -> Int]
      /\ q = <<q[1], q[2], q[3], q[4]>>
  BY <1>1 DEF Turns
<1>3. PICK s \in [1 .. 4 -> {-2, -1, 0, 1, 2}] :
        /\ \A i \in 1 .. 4 : q[i] = Half * s[i]
        /\ \/ \A i \in 1 .. 4 : s[i] \in {-1, 1}
           \/ \E i \in 1 .. 4 : s[i] \in {-2, 2} /\ \A j \in 1 .. 4 \ {i} : s[j] = 0
  <2>1. CASE q \in [1 .. 4 -> {-Half, Half}]
    <3> DEFINE s == [i \in 1 .. 4 |-> IF q[i] = Half THEN 1 ELSE -1]
    <3>1. s \in [1 .. 4 -> {-2, -1, 0, 1, 2}] /\ \A i \in 1 .. 4 : s[i] \in {-1, 1}
      OBVIOUS
    <3>2. \A i \in 1 .. 4 : q[i] = Half * s[i]
      BY <1>1, <2>1
    <3> QED
      BY <3>1, <3>2
  <2>2. CASE /\ q \in [1 .. 4 -> {-One, 0, One}]
             /\ \E i \in 1 .. 4 : \A j \in 1 .. 4 : (q[j] = 0) = (j # i)
    <3>1. PICK i \in 1 .. 4 : \A j \in 1 .. 4 : (q[j] = 0) <=> (j # i)
      BY <2>2
    <3> DEFINE s == [j \in 1 .. 4 |-> IF q[j] = 0 THEN 0 ELSE IF q[j] = One THEN 2 ELSE -2]
    <3>2. s \in [1 .. 4 -> {-2, -1, 0, 1, 2}]
      OBVIOUS
    <3>3. s[i] \in {-2, 2} /\ \A j \in 1 .. 4 \ {i} : s[j] = 0
      BY <3>1
    <3>4. \A j \in 1 .. 4 : q[j] = Half * s[j]
      BY <1>1, <2>2
    <3> QED
      BY <3>2, <3>3, <3>4
  <2> QED
    BY <2>1, <2>2 DEF Turns
<1> DEFINE a == <<s[1], s[2], s[3], s[4]>>
<1>4. s[1] \in Int /\ s[2] \in Int /\ s[3] \in Int /\ s[4] \in Int
  BY <1>3
<1>5. a \in Quads
  BY <1>4 DEF Quads
<1>6. Norm(a) = 4
  <2>1. \/ s[1] \in {-1, 1} /\ s[2] \in {-1, 1} /\ s[3] \in {-1, 1} /\ s[4] \in {-1, 1}
        \/ s[1] \in {-2, 2} /\ s[2] = 0 /\ s[3] = 0 /\ s[4] = 0
        \/ s[1] = 0 /\ s[2] \in {-2, 2} /\ s[3] = 0 /\ s[4] = 0
        \/ s[1] = 0 /\ s[2] = 0 /\ s[3] \in {-2, 2} /\ s[4] = 0
        \/ s[1] = 0 /\ s[2] = 0 /\ s[3] = 0 /\ s[4] \in {-2, 2}
    BY <1>3
  <2> QED
    BY <2>1 DEF Norm
<1>7. q = Times(Half, a)
  BY <1>2, <1>3 DEF Times
<1> QED
  BY <1>5, <1>6, <1>7 DEF Units

\* two turns make a turn
LEMMA TurnOfTurns ==
    ASSUME NEW a \in Units, NEW b \in Units
    PROVE  \E c \in Units : /\ inv_q_multf(a, b) = Times(2, c)
                            /\ inv_q_mult(Times(Half, a), Times(Half, b)) = Times(Half, c)
<1>1. PICK c \in Units : inv_q_multf(a, b) = Times(2, c)
  BY UnitsClosed
<1>2. a \in Quads /\ b \in Quads /\ c \in Quads
  BY DEF Units
<1>3. inv_q_mult(Times(Half, a), Times(Half, b)) = Longs(Times(Quarter, Times(2, c)))
  BY <1>1, <1>2, TurnByTurn
<1>4. ASSUME NEW n \in {-2, -1, 0, 1, 2}
      PROVE  Long(Quarter * (2 * n)) = Half * n
  <2>1. Quarter * (2 * n) = Half * n
    BY Points
  <2>2. Half * n \in Int /\ -7 * Quarter <= Half * n /\ Half * n <= 7 * Quarter
    BY Points
  <2> QED
    BY <2>1, <2>2, FitsLong
<1>5. c[1] \in {-2, -1, 0, 1, 2} /\ c[2] \in {-2, -1, 0, 1, 2}
      /\ c[3] \in {-2, -1, 0, 1, 2} /\ c[4] \in {-2, -1, 0, 1, 2}
  BY UnitParts
<1>6. Longs(Times(Quarter, Times(2, c))) = Times(Half, c)
  BY <1>4, <1>5 DEF Longs, Times
<1> QED
  BY <1>1, <1>3, <1>6

-----------------------------------------------------------------------------
(* The rotation of a unit: nine numbers, one other than 0 in each row.     *)

Rotation(a) ==
    << (a[2] * a[2] + a[1] * a[1] - 2) \div 2, (a[2] * a[3] - a[4] * a[1]) \div 2,
         (a[2] * a[4] + a[3] * a[1]) \div 2,
       (a[2] * a[3] + a[4] * a[1]) \div 2, (a[3] * a[3] + a[1] * a[1] - 2) \div 2,
         (a[3] * a[4] - a[2] * a[1]) \div 2,
       (a[2] * a[4] - a[3] * a[1]) \div 2, (a[3] * a[4] + a[2] * a[1]) \div 2,
         (a[4] * a[4] + a[1] * a[1] - 2) \div 2 >>

LEMMA RotationOf ==
    ASSUME NEW a \in Units
    PROVE  /\ a[2] * a[2] + a[1] * a[1] - 2 = 2 * Rotation(a)[1]
           /\ a[2] * a[3] - a[4] * a[1] = 2 * Rotation(a)[2]
           /\ a[2] * a[4] + a[3] * a[1] = 2 * Rotation(a)[3]
           /\ a[2] * a[3] + a[4] * a[1] = 2 * Rotation(a)[4]
           /\ a[3] * a[3] + a[1] * a[1] - 2 = 2 * Rotation(a)[5]
           /\ a[3] * a[4] - a[2] * a[1] = 2 * Rotation(a)[6]
           /\ a[2] * a[4] - a[3] * a[1] = 2 * Rotation(a)[7]
           /\ a[3] * a[4] + a[2] * a[1] = 2 * Rotation(a)[8]
           /\ a[4] * a[4] + a[1] * a[1] - 2 = 2 * Rotation(a)[9]
           /\ \A i \in 1 .. 9 : Rotation(a)[i] \in {-1, 0, 1}
<1>1. /\ a[1] \in {-2, -1, 0, 1, 2} /\ a[2] \in {-2, -1, 0, 1, 2}
      /\ a[3] \in {-2, -1, 0, 1, 2} /\ a[4] \in {-2, -1, 0, 1, 2}
  BY UnitParts
<1> QED
  BY UnitParts DEF Rotation

\* its columns are of length 1 and at right angles, and a row has one number other than 0
LEMMA RotationTakenBack ==
    ASSUME NEW a \in Units
    PROVE  LET r == Rotation(a)
           IN /\ r[1] * r[1] + r[4] * r[4] + r[7] * r[7] = 1
              /\ r[2] * r[2] + r[5] * r[5] + r[8] * r[8] = 1
              /\ r[3] * r[3] + r[6] * r[6] + r[9] * r[9] = 1
              /\ r[1] * r[2] + r[4] * r[5] + r[7] * r[8] = 0
              /\ r[1] * r[3] + r[4] * r[6] + r[7] * r[9] = 0
              /\ r[2] * r[3] + r[5] * r[6] + r[8] * r[9] = 0
              /\ (r[1] = 0 /\ r[2] = 0) \/ (r[1] = 0 /\ r[3] = 0) \/ (r[2] = 0 /\ r[3] = 0)
              /\ (r[4] = 0 /\ r[5] = 0) \/ (r[4] = 0 /\ r[6] = 0) \/ (r[5] = 0 /\ r[6] = 0)
              /\ (r[7] = 0 /\ r[8] = 0) \/ (r[7] = 0 /\ r[9] = 0) \/ (r[8] = 0 /\ r[9] = 0)
<1> DEFINE r == Rotation(a)
<1>1. /\ r[1] \in {-1, 0, 1} /\ r[2] \in {-1, 0, 1} /\ r[3] \in {-1, 0, 1}
      /\ r[4] \in {-1, 0, 1} /\ r[5] \in {-1, 0, 1} /\ r[6] \in {-1, 0, 1}
      /\ r[7] \in {-1, 0, 1} /\ r[8] \in {-1, 0, 1} /\ r[9] \in {-1, 0, 1}
  BY RotationOf
<1>2. /\ a[2] * a[2] + a[1] * a[1] - 2 = 2 * r[1] /\ a[2] * a[3] - a[4] * a[1] = 2 * r[2]
      /\ a[2] * a[4] + a[3] * a[1] = 2 * r[3] /\ a[2] * a[3] + a[4] * a[1] = 2 * r[4]
      /\ a[3] * a[3] + a[1] * a[1] - 2 = 2 * r[5] /\ a[3] * a[4] - a[2] * a[1] = 2 * r[6]
      /\ a[2] * a[4] - a[3] * a[1] = 2 * r[7] /\ a[3] * a[4] + a[2] * a[1] = 2 * r[8]
      /\ a[4] * a[4] + a[1] * a[1] - 2 = 2 * r[9]
  BY RotationOf
<1> HIDE DEF r
<1> DEFINE Goal == /\ r[1] * r[1] + r[4] * r[4] + r[7] * r[7] = 1
                   /\ r[2] * r[2] + r[5] * r[5] + r[8] * r[8] = 1
                   /\ r[3] * r[3] + r[6] * r[6] + r[9] * r[9] = 1
                   /\ r[1] * r[2] + r[4] * r[5] + r[7] * r[8] = 0
                   /\ r[1] * r[3] + r[4] * r[6] + r[7] * r[9] = 0
                   /\ r[2] * r[3] + r[5] * r[6] + r[8] * r[9] = 0
                   /\ (r[1] = 0 /\ r[2] = 0) \/ (r[1] = 0 /\ r[3] = 0) \/ (r[2] = 0 /\ r[3] = 0)
                   /\ (r[4] = 0 /\ r[5] = 0) \/ (r[4] = 0 /\ r[6] = 0) \/ (r[5] = 0 /\ r[6] = 0)
                   /\ (r[7] = 0 /\ r[8] = 0) \/ (r[7] = 0 /\ r[9] = 0) \/ (r[8] = 0 /\ r[9] = 0)
<1>3. ASSUME a[1] \in {-1, 1}, a[2] \in {-1, 1}, a[3] \in {-1, 1}, a[4] \in {-1, 1}
      PROVE  Goal
  <2>1. r[1] = 0 /\ r[5] = 0 /\ r[9] = 0
    BY <1>1, <1>2, <1>3
  <2>2. \/ r[2] = 0 /\ r[6] = 0 /\ r[7] = 0 /\ r[3] \in {-1, 1} /\ r[4] \in {-1, 1} /\ r[8] \in {-1, 1}
        \/ r[3] = 0 /\ r[4] = 0 /\ r[8] = 0 /\ r[2] \in {-1, 1} /\ r[6] \in {-1, 1} /\ r[7] \in {-1, 1}
    <3>1. CASE a[2] * a[3] = a[4] * a[1]
      BY <1>1, <1>2, <1>3, <3>1
    <3>2. CASE a[2] * a[3] # a[4] * a[1]
      BY <1>1, <1>2, <1>3, <3>2
    <3> QED
      BY <3>1, <3>2
  <2> QED
    BY <1>1, <2>1, <2>2
<1>4. ASSUME \/ a[1] \in {-2, 2} /\ a[2] = 0 /\ a[3] = 0 /\ a[4] = 0
             \/ a[1] = 0 /\ a[2] \in {-2, 2} /\ a[3] = 0 /\ a[4] = 0
             \/ a[1] = 0 /\ a[2] = 0 /\ a[3] \in {-2, 2} /\ a[4] = 0
             \/ a[1] = 0 /\ a[2] = 0 /\ a[3] = 0 /\ a[4] \in {-2, 2}
      PROVE  Goal
  <2>1. /\ r[1] \in {-1, 1} /\ r[5] \in {-1, 1} /\ r[9] \in {-1, 1}
        /\ r[2] = 0 /\ r[3] = 0 /\ r[4] = 0 /\ r[6] = 0 /\ r[7] = 0 /\ r[8] = 0
    BY <1>1, <1>2, <1>4
  <2> QED
    BY <1>1, <2>1
<1>5. Goal
  BY <1>3, <1>4, UnitParts
<1> QED
  BY <1>5 DEF r

\* a vector u turned by a, which is the exact rotation of a quaternion
Turned(a, u) ==
    LET r == Rotation(a)
    IN << r[1] * u[1] + r[2] * u[2] + r[3] * u[3], r[4] * u[1] + r[5] * u[2] + r[6] * u[3],
          r[7] * u[1] + r[8] * u[2] + r[9] * u[3] >>

Shorts == {u \in Int \X Int \X Int : \A i \in 1 .. 3 : u[i] \in -Quarter .. Quarter}

LEMMA TurnedIsShort ==
    ASSUME NEW a \in Units, NEW u \in Shorts
    PROVE  /\ Turned(a, u) \in Shorts
           /\ u[1] \in -Quarter .. Quarter /\ u[2] \in -Quarter .. Quarter
           /\ u[3] \in -Quarter .. Quarter
           /\ u = <<u[1], u[2], u[3]>>
<1>1. /\ u[1] \in -Quarter .. Quarter /\ u[2] \in -Quarter .. Quarter /\ u[3] \in -Quarter .. Quarter
      /\ u = <<u[1], u[2], u[3]>>
  BY DEF Shorts
<1> DEFINE r == Rotation(a)
<1>2. \A i \in 1 .. 9 : r[i] \in {-1, 0, 1}
  BY RotationOf
<1>3. /\ (r[1] = 0 /\ r[2] = 0) \/ (r[1] = 0 /\ r[3] = 0) \/ (r[2] = 0 /\ r[3] = 0)
      /\ (r[4] = 0 /\ r[5] = 0) \/ (r[4] = 0 /\ r[6] = 0) \/ (r[5] = 0 /\ r[6] = 0)
      /\ (r[7] = 0 /\ r[8] = 0) \/ (r[7] = 0 /\ r[9] = 0) \/ (r[8] = 0 /\ r[9] = 0)
  BY RotationTakenBack
<1> HIDE DEF r
<1>4. ASSUME NEW i \in {-1, 0, 1}, NEW j \in {-1, 0, 1}, NEW k \in {-1, 0, 1},
             (i = 0 /\ j = 0) \/ (i = 0 /\ k = 0) \/ (j = 0 /\ k = 0)
      PROVE  i * u[1] + j * u[2] + k * u[3] \in -Quarter .. Quarter
  BY <1>1, <1>4, Points
<1>5. /\ r[1] * u[1] + r[2] * u[2] + r[3] * u[3] \in -Quarter .. Quarter
      /\ r[4] * u[1] + r[5] * u[2] + r[6] * u[3] \in -Quarter .. Quarter
      /\ r[7] * u[1] + r[8] * u[2] + r[9] * u[3] \in -Quarter .. Quarter
  BY <1>2, <1>3, <1>4
<1> QED
  BY <1>1, <1>5, Points DEF Turned, Shorts, r

\* a turn and its inverse, four times too long as units are twice too long
LEMMA TurnedTwice ==
    ASSUME NEW a \in Units, NEW u \in Int \X Int \X Int
    PROVE  inv_q_multf(inv_q_multf(a, Pure(u)), inv_q_invert(a)) = Times(4, Pure(Turned(a, u)))
<1>1. PICK u1 \in Int, u2 \in Int, u3 \in Int : u = <<u1, u2, u3>>
  OBVIOUS
<1>2. PICK a1 \in Int, a2 \in Int, a3 \in Int, a4 \in Int : a = <<a1, a2, a3, a4>>
  BY QuadParts DEF Units
<1>3. a1 * a1 + a2 * a2 + a3 * a3 + a4 * a4 = 4
  BY <1>2 DEF Units, Norm
<1> DEFINE r == Rotation(a)
<1>4. /\ r[1] \in Int /\ r[2] \in Int /\ r[3] \in Int /\ r[4] \in Int /\ r[5] \in Int
      /\ r[6] \in Int /\ r[7] \in Int /\ r[8] \in Int /\ r[9] \in Int
  <2>1. \A i \in 1 .. 9 : r[i] \in {-1, 0, 1}
    BY RotationOf
  <2> HIDE DEF r
  <2> QED
    BY <2>1
<1>5. a[1] = a1 /\ a[2] = a2 /\ a[3] = a3 /\ a[4] = a4
  BY <1>2
<1>6. /\ a2 * a2 + a1 * a1 - 2 = 2 * r[1] /\ a2 * a3 - a4 * a1 = 2 * r[2]
      /\ a2 * a4 + a3 * a1 = 2 * r[3] /\ a2 * a3 + a4 * a1 = 2 * r[4]
      /\ a3 * a3 + a1 * a1 - 2 = 2 * r[5] /\ a3 * a4 - a2 * a1 = 2 * r[6]
      /\ a2 * a4 - a3 * a1 = 2 * r[7] /\ a3 * a4 + a2 * a1 = 2 * r[8]
      /\ a4 * a4 + a1 * a1 - 2 = 2 * r[9]
  BY <1>5, RotationOf, Zenon
<1> HIDE DEF r
<1>7. inv_q_multf(a, Pure(u))
        = << - a2 * u1 - a3 * u2 - a4 * u3, a1 * u1 + a3 * u3 - a4 * u2,
             a1 * u2 - a2 * u3 + a4 * u1, a1 * u3 + a2 * u2 - a3 * u1 >>
  BY <1>1, <1>2 DEF inv_q_multf, Hamilton, Pure
<1> DEFINE h1 == - a2 * u1 - a3 * u2 - a4 * u3
           h2 == a1 * u1 + a3 * u3 - a4 * u2
           h3 == a1 * u2 - a2 * u3 + a4 * u1
           h4 == a1 * u3 + a2 * u2 - a3 * u1
<1>8. h1 \in Int /\ h2 \in Int /\ h3 \in Int /\ h4 \in Int
  OBVIOUS
<1>9. /\ h1 * a1 + h2 * a2 + h3 * a3 + h4 * a4 = 0
      /\ h2 * a1 - h1 * a2 + h4 * a3 - h3 * a4
            = (a1 * a1 + a2 * a2 - a3 * a3 - a4 * a4) * u1 + 2 * (a2 * a3 - a4 * a1) * u2
                + 2 * (a2 * a4 + a3 * a1) * u3
      /\ h3 * a1 - h1 * a3 + h2 * a4 - h4 * a2
            = 2 * (a2 * a3 + a4 * a1) * u1 + (a1 * a1 - a2 * a2 + a3 * a3 - a4 * a4) * u2
                + 2 * (a3 * a4 - a2 * a1) * u3
      /\ h4 * a1 - h1 * a4 + h3 * a2 - h2 * a3
            = 2 * (a2 * a4 - a3 * a1) * u1 + 2 * (a3 * a4 + a2 * a1) * u2
                + (a1 * a1 - a2 * a2 - a3 * a3 + a4 * a4) * u3
  OBVIOUS
<1>10. /\ a1 * a1 + a2 * a2 - a3 * a3 - a4 * a4 = 4 * r[1]
      /\ a1 * a1 - a2 * a2 + a3 * a3 - a4 * a4 = 4 * r[5]
      /\ a1 * a1 - a2 * a2 - a3 * a3 + a4 * a4 = 4 * r[9]
  <2> DEFINE i == a1 * a1
             j == a2 * a2
             k == a3 * a3
             l == a4 * a4
  <2>1. /\ i \in Int /\ j \in Int /\ k \in Int /\ l \in Int /\ i + j + k + l = 4
        /\ j + i - 2 = 2 * r[1] /\ k + i - 2 = 2 * r[5] /\ l + i - 2 = 2 * r[9]
    BY <1>3, <1>6
  <2> HIDE DEF h1, h2, h3, h4, i, j, k, l
  <2>2. i + j - k - l = 4 * r[1] /\ i - j + k - l = 4 * r[5] /\ i - j - k + l = 4 * r[9]
    BY <1>4, <2>1
  <2> QED
    BY <2>2 DEF i, j, k, l
<1>11. inv_q_multf(inv_q_multf(a, Pure(u)), inv_q_invert(a))
        = << h1 * a1 + h2 * a2 + h3 * a3 + h4 * a4, h2 * a1 - h1 * a2 + h4 * a3 - h3 * a4,
             h3 * a1 - h1 * a3 + h2 * a4 - h4 * a2, h4 * a1 - h1 * a4 + h3 * a2 - h2 * a3 >>
  <2> HIDE DEF h1, h2, h3, h4
  <2>1. inv_q_multf(a, Pure(u)) = <<h1, h2, h3, h4>>
    BY <1>7 DEF h1, h2, h3, h4
  <2> QED
    BY <1>2, <1>8, <2>1 DEF inv_q_multf, Hamilton, inv_q_invert
<1>12. Times(4, Pure(Turned(a, u)))
        = << 0, 4 * (r[1] * u1 + r[2] * u2 + r[3] * u3), 4 * (r[4] * u1 + r[5] * u2 + r[6] * u3),
             4 * (r[7] * u1 + r[8] * u2 + r[9] * u3) >>
  BY <1>1, <1>4 DEF Turned, Times, Pure, r
<1>13. /\ 4 * (r[1] * u1 + r[2] * u2 + r[3] * u3)
             = (4 * r[1]) * u1 + 2 * (2 * r[2]) * u2 + 2 * (2 * r[3]) * u3
       /\ 4 * (r[4] * u1 + r[5] * u2 + r[6] * u3)
             = 2 * (2 * r[4]) * u1 + (4 * r[5]) * u2 + 2 * (2 * r[6]) * u3
       /\ 4 * (r[7] * u1 + r[8] * u2 + r[9] * u3)
             = 2 * (2 * r[7]) * u1 + 2 * (2 * r[8]) * u2 + (4 * r[9]) * u3
  BY <1>4
<1> QED
  <2>1. /\ h2 * a1 - h1 * a2 + h4 * a3 - h3 * a4 = 4 * (r[1] * u1 + r[2] * u2 + r[3] * u3)
        /\ h3 * a1 - h1 * a3 + h2 * a4 - h4 * a2 = 4 * (r[4] * u1 + r[5] * u2 + r[6] * u3)
        /\ h4 * a1 - h1 * a4 + h3 * a2 - h2 * a3 = 4 * (r[7] * u1 + r[8] * u2 + r[9] * u3)
    BY <1>4, <1>6, <1>9, <1>10, <1>13
  <2> HIDE DEF h1, h2, h3, h4
  <2> QED
    BY <1>9, <1>11, <1>12, <2>1

\* so turning by b and then by a is turning by the half of their product
LEMMA TurnedByProduct ==
    ASSUME NEW a \in Units, NEW b \in Units, NEW c \in Units, inv_q_multf(a, b) = Times(2, c),
           NEW u \in Shorts
    PROVE  Turned(a, Turned(b, u)) = Turned(c, u)
<1> DEFINE M(x, y) == inv_q_multf(x, y)
           I(x) == inv_q_invert(x)
           v == Turned(b, u)
<1>1. u \in Int \X Int \X Int /\ v \in Int \X Int \X Int
  <2>1. v \in Shorts
    BY TurnedIsShort
  <2> QED
    BY <2>1 DEF Shorts
<1>2. a \in Quads /\ b \in Quads /\ c \in Quads /\ Pure(u) \in Quads /\ Pure(v) \in Quads
  BY <1>1 DEF Units, Quads, Pure
<1>3. ASSUME NEW x \in Quads PROVE I(x) \in Quads
  BY InverseOfProduct
<1>4. ASSUME NEW x \in Quads, NEW y \in Quads PROVE M(x, y) \in Quads
  BY ProductParts
<1>5. M(M(Times(2, c), Pure(u)), I(Times(2, c))) = Times(2, Times(2, M(M(c, Pure(u)), I(c))))
  <2>1. M(Times(2, c), Pure(u)) = Times(2, M(c, Pure(u))) /\ I(Times(2, c)) = Times(2, I(c))
    BY <1>2, TimesProduct
  <2>2. /\ M(c, Pure(u)) \in Quads /\ I(c) \in Quads /\ Times(2, I(c)) \in Quads
    BY <1>2, <1>3, <1>4, TimesParts
  <2>3. M(Times(2, M(c, Pure(u))), Times(2, I(c))) = Times(2, M(M(c, Pure(u)), Times(2, I(c))))
    BY <2>2, TimesProduct
  <2>4. M(M(c, Pure(u)), Times(2, I(c))) = Times(2, M(M(c, Pure(u)), I(c)))
    BY <2>2, TimesProduct
  <2> QED
    BY <2>1, <2>3, <2>4
<1>6. M(M(M(a, b), Pure(u)), I(M(a, b))) = M(M(a, M(M(b, Pure(u)), I(b))), I(a))
  <2> DEFINE bu == M(b, Pure(u))
             s  == M(bu, I(b))
  <2>1. bu \in Quads /\ I(a) \in Quads /\ I(b) \in Quads /\ s \in Quads /\ M(a, bu) \in Quads
    BY <1>2, <1>3, <1>4
  <2>2. M(M(a, b), Pure(u)) = M(a, bu) /\ I(M(a, b)) = M(I(b), I(a))
    BY <1>2, Associative, InverseOfProduct
  <2>3. M(M(a, bu), M(I(b), I(a))) = M(M(M(a, bu), I(b)), I(a))
    BY <2>1, Associative
  <2>4. M(M(a, bu), I(b)) = M(a, s)
    BY <1>2, <2>1, Associative
  <2> QED
    BY <2>2, <2>3, <2>4
<1>7. M(M(a, M(M(b, Pure(u)), I(b))), I(a)) = Times(4, M(M(a, Pure(v)), I(a)))
  <2>1. M(M(b, Pure(u)), I(b)) = Times(4, Pure(v))
    BY <1>1, TurnedTwice
  <2>2. M(a, Times(4, Pure(v))) = Times(4, M(a, Pure(v)))
    BY <1>2, TimesProduct
  <2>3. M(Times(4, M(a, Pure(v))), I(a)) = Times(4, M(M(a, Pure(v)), I(a)))
    BY <1>2, <1>3, <1>4, TimesProduct
  <2> QED
    BY <2>1, <2>2, <2>3
<1>8. Times(2, Times(2, Times(4, Pure(Turned(c, u))))) = Times(4, Times(4, Pure(Turned(a, v))))
  BY <1>1, <1>5, <1>6, <1>7, TurnedTwice
<1>9. ASSUME NEW x \in Int \X Int \X Int, NEW y \in Int \X Int \X Int,
             Times(2, Times(2, Times(4, Pure(x)))) = Times(4, Times(4, Pure(y)))
      PROVE  x = y
  BY <1>9 DEF Times, Pure
<1> QED
  <2>1. /\ Turned(b, u) \in Shorts /\ Turned(a, v) \in Shorts /\ Turned(c, u) \in Shorts
    BY TurnedIsShort
  <2> QED
    BY <1>8, <1>9, <2>1 DEF Shorts

-----------------------------------------------------------------------------
(* What the library computes of a turn.                                    *)

Four(u) == <<4 * u[1], 4 * u[2], 4 * u[3]>>

\* the part of the way that does not overflow
LEMMA Halfway ==
    ASSUME NEW a \in Units, NEW u \in Shorts
    PROVE  LET h == inv_q_multf(a, Pure(u))
           IN h \in Quads /\ \A i \in 1 .. 4 : -3 * Quarter <= h[i] /\ h[i] <= 3 * Quarter
<1>1. /\ u[1] \in -Quarter .. Quarter /\ u[2] \in -Quarter .. Quarter /\ u[3] \in -Quarter .. Quarter
  BY TurnedIsShort
<1>2. a \in Quads /\ Pure(u) \in Quads
  BY <1>1, Points DEF Units, Pure, Quads
<1>3. a[1] \in Int /\ a[2] \in Int /\ a[3] \in Int /\ a[4] \in Int
  BY <1>2, QuadParts
<1> DEFINE h == inv_q_multf(a, Pure(u))
<1>4. /\ h \in Quads
      /\ h[1] = -(a[2] * u[1]) - a[3] * u[2] - a[4] * u[3]
      /\ h[2] = a[1] * u[1] + a[3] * u[3] - a[4] * u[2]
      /\ h[3] = a[1] * u[2] - a[2] * u[3] + a[4] * u[1]
      /\ h[4] = a[1] * u[3] + a[2] * u[2] - a[3] * u[1]
  <2>1. /\ h \in Quads
        /\ h[1] = a[1] * Pure(u)[1] - a[2] * Pure(u)[2] - a[3] * Pure(u)[3] - a[4] * Pure(u)[4]
        /\ h[2] = a[1] * Pure(u)[2] + a[2] * Pure(u)[1] + a[3] * Pure(u)[4] - a[4] * Pure(u)[3]
        /\ h[3] = a[1] * Pure(u)[3] - a[2] * Pure(u)[4] + a[3] * Pure(u)[1] + a[4] * Pure(u)[2]
        /\ h[4] = a[1] * Pure(u)[4] + a[2] * Pure(u)[3] - a[3] * Pure(u)[2] + a[4] * Pure(u)[1]
    BY <1>2, ProductParts, Zenon
  <2>2. Pure(u)[1] = 0 /\ Pure(u)[2] = u[1] /\ Pure(u)[3] = u[2] /\ Pure(u)[4] = u[3]
    BY DEF Pure
  <2> HIDE DEF h
  <2> QED
    BY <1>1, <1>3, <2>1, <2>2, Points
<1>5. ASSUME NEW i \in {-1, 1}, NEW x \in -Quarter .. Quarter
      PROVE  i * x \in Int /\ -Quarter <= i * x /\ i * x <= Quarter
  BY Points
<1> HIDE DEF h
<1>6. /\ -3 * Quarter <= h[1] /\ h[1] <= 3 * Quarter /\ -3 * Quarter <= h[2] /\ h[2] <= 3 * Quarter
      /\ -3 * Quarter <= h[3] /\ h[3] <= 3 * Quarter /\ -3 * Quarter <= h[4] /\ h[4] <= 3 * Quarter
  <2>1. CASE a[1] \in {-1, 1} /\ a[2] \in {-1, 1} /\ a[3] \in {-1, 1} /\ a[4] \in {-1, 1}
    <3>1. ASSUME NEW i \in 1 .. 4, NEW j \in 1 .. 3
          PROVE  a[i] * u[j] \in Int /\ -Quarter <= a[i] * u[j] /\ a[i] * u[j] <= Quarter
      <4>1. a[i] \in {-1, 1} /\ u[j] \in -Quarter .. Quarter
        BY <1>1, <2>1
      <4> QED
        BY <4>1, <1>5
    <3>2. -3 * Quarter <= h[1] /\ h[1] <= 3 * Quarter
      BY <3>1, <1>4, Points
    <3>3. -3 * Quarter <= h[2] /\ h[2] <= 3 * Quarter
      BY <3>1, <1>4, Points
    <3>4. -3 * Quarter <= h[3] /\ h[3] <= 3 * Quarter
      BY <3>1, <1>4, Points
    <3>5. -3 * Quarter <= h[4] /\ h[4] <= 3 * Quarter
      BY <3>1, <1>4, Points
    <3> QED
      BY <3>2, <3>3, <3>4, <3>5
  <2>2. CASE \/ a[1] \in {-2, 2} /\ a[2] = 0 /\ a[3] = 0 /\ a[4] = 0
             \/ a[1] = 0 /\ a[2] \in {-2, 2} /\ a[3] = 0 /\ a[4] = 0
             \/ a[1] = 0 /\ a[2] = 0 /\ a[3] \in {-2, 2} /\ a[4] = 0
             \/ a[1] = 0 /\ a[2] = 0 /\ a[3] = 0 /\ a[4] \in {-2, 2}
    BY <1>1, <1>4, <2>2, Points
  <2> QED
    BY <2>1, <2>2, UnitParts
<1> QED
  BY <1>4, <1>6 DEF h

\* inv_q_rotate turns a vector as the exact rotation does
LEMMA RotateTurns ==
    ASSUME NEW a \in Units, NEW u \in Shorts
    PROVE  inv_q_rotate(Times(Half, a), Four(u)) = Four(Turned(a, u))
<1> DEFINE h == inv_q_multf(a, Pure(u))
           w == Turned(a, u)
<1>1. w \in Shorts /\ u \in Int \X Int \X Int
  BY TurnedIsShort DEF Shorts
<1>2. /\ w[1] \in -Quarter .. Quarter /\ w[2] \in -Quarter .. Quarter /\ w[3] \in -Quarter .. Quarter
  BY <1>1 DEF Shorts
<1>3. /\ a \in Quads /\ inv_q_invert(a) \in Quads /\ Pure(u) \in Quads /\ Times(2, Pure(u)) \in Quads
      /\ h \in Quads
  <2>1. a \in Quads /\ Pure(u) \in Quads
    BY <1>1 DEF Units, Pure, Quads
  <2> QED
    BY <2>1, InverseOfProduct, TimesParts, ProductParts
<1>4. Pure(Four(u)) = Times(2, Times(2, Pure(u)))
  BY <1>1 DEF Pure, Four, Times
<1>5. inv_q_mult(Times(Half, a), Pure(Four(u))) = Longs(Times(2, h))
  <2>1. inv_q_mult(Times(Half, a), Times(2, Times(2, Pure(u))))
          = Longs(inv_q_multf(a, Times(2, Pure(u))))
    BY <1>3, TurnByVector
  <2>2. inv_q_multf(a, Times(2, Pure(u))) = Times(2, h)
    BY <1>3, TimesProduct
  <2> QED
    BY <1>4, <2>1, <2>2
<1>6. Longs(Times(2, h)) = Times(2, h)
  <2>1. \A i \in 1 .. 4 : -3 * Quarter <= h[i] /\ h[i] <= 3 * Quarter
    BY Halfway
  <2>2. h[1] \in Int /\ h[2] \in Int /\ h[3] \in Int /\ h[4] \in Int
    BY <1>3, QuadParts
  <2> HIDE DEF h
  <2>3. ASSUME NEW n \in Int, -3 * Quarter <= n, n <= 3 * Quarter
        PROVE  Long(2 * n) = 2 * n
    <3>1. 2 * n \in Int /\ -7 * Quarter <= 2 * n /\ 2 * n <= 7 * Quarter
      BY <2>3, Points
    <3> QED
      BY <3>1, FitsLong
  <2> QED
    BY <2>1, <2>2, <2>3 DEF Longs, Times
<1>7. inv_q_invert(Times(Half, a)) = Times(Half, inv_q_invert(a))
  BY <1>3, TimesProduct, Points
<1>8. inv_q_mult(Times(2, h), Times(Half, inv_q_invert(a))) = Longs(Times(4, Pure(w)))
  BY <1>1, <1>3, TurnByVector, TurnedTwice
<1>9. Rest(Longs(Times(4, Pure(w)))) = Four(w)
  <2> HIDE DEF w
  <2>1. ASSUME NEW n \in -Quarter .. Quarter
        PROVE  Long(4 * n) = 4 * n
    <3>1. 4 * n \in Int /\ -7 * Quarter <= 4 * n /\ 4 * n <= 7 * Quarter
      BY Points
    <3> QED
      BY <3>1, FitsLong
  <2> QED
    BY <1>2, <2>1 DEF Longs, Times, Rest, Pure, Four
<1> QED
  BY <1>5, <1>6, <1>7, <1>8, <1>9 DEF inv_q_rotate

Whole(n) == One * n
Ones(r)  == << Whole(r[1]), Whole(r[2]), Whole(r[3]), Whole(r[4]), Whole(r[5]), Whole(r[6]),
               Whole(r[7]), Whole(r[8]), Whole(r[9]) >>

\* inv_quaternion_to_rotation gives that rotation in fixed point
LEMMA MatrixTurns ==
    ASSUME NEW a \in Units
    PROVE  inv_quaternion_to_rotation(Times(Half, a)) = Ones(Rotation(a))
<1> DEFINE q == Times(Half, a)
           r == Rotation(a)
<1>1. /\ a[1] \in Int /\ a[2] \in Int /\ a[3] \in Int /\ a[4] \in Int
      /\ q[1] = Half * a[1] /\ q[2] = Half * a[2] /\ q[3] = Half * a[3] /\ q[4] = Half * a[4]
  BY QuadParts DEF Units, Times
<1>2. /\ a[2] * a[2] + a[1] * a[1] - 2 = 2 * r[1] /\ a[2] * a[3] - a[4] * a[1] = 2 * r[2]
      /\ a[2] * a[4] + a[3] * a[1] = 2 * r[3] /\ a[2] * a[3] + a[4] * a[1] = 2 * r[4]
      /\ a[3] * a[3] + a[1] * a[1] - 2 = 2 * r[5] /\ a[3] * a[4] - a[2] * a[1] = 2 * r[6]
      /\ a[2] * a[4] - a[3] * a[1] = 2 * r[7] /\ a[3] * a[4] + a[2] * a[1] = 2 * r[8]
      /\ a[4] * a[4] + a[1] * a[1] - 2 = 2 * r[9]
  BY RotationOf, Zenon
<1>3. /\ r[1] \in {-1, 0, 1} /\ r[2] \in {-1, 0, 1} /\ r[3] \in {-1, 0, 1}
      /\ r[4] \in {-1, 0, 1} /\ r[5] \in {-1, 0, 1} /\ r[6] \in {-1, 0, 1}
      /\ r[7] \in {-1, 0, 1} /\ r[8] \in {-1, 0, 1} /\ r[9] \in {-1, 0, 1}
  BY RotationOf
<1> HIDE DEF q, r
<1>4. ASSUME NEW n \in {-1, 0, 1} PROVE Long(Half * (2 * n)) = Whole(n)
  <2>1. /\ Half * (2 * n) \in Int /\ -7 * Quarter <= Half * (2 * n) /\ Half * (2 * n) <= 7 * Quarter
        /\ Half * (2 * n) = One * n
    BY Points
  <2> QED
    BY <2>1, FitsLong DEF Whole
<1>5. ASSUME NEW i \in 1 .. 4, NEW j \in 1 .. 4
      PROVE  /\ inv_q29_mult(q[i], q[j]) = Long(Half * (a[i] * a[j]))
             /\ Half * (a[i] * a[j]) \in Int /\ a[i] \in Int /\ a[j] \in Int
  <2>1. a[i] \in Int /\ a[j] \in Int /\ q[i] = Half * a[i] /\ q[j] = Half * a[j]
    BY <1>1
  <2>2. inv_q29_mult(Half * a[i], Half * a[j]) = Long(Half * (a[i] * a[j]))
    BY <2>1, ExactProducts, Zenon
  <2> QED
    BY <2>1, <2>2, Points
<1> DEFINE SquareIs(i, j) == Square(q[i], q[j]) = Long(Half * (a[i] * a[i] + a[j] * a[j] - 2))
           PlusIs(i, j, k, l) == Plus(q[i], q[j], q[k], q[l]) = Long(Half * (a[i] * a[j] + a[k] * a[l]))
           MinusIs(i, j, k, l) == Minus(q[i], q[j], q[k], q[l]) = Long(Half * (a[i] * a[j] - a[k] * a[l]))
<1>6. ASSUME NEW i \in 1 .. 4, NEW j \in 1 .. 4, NEW k \in 1 .. 4, NEW l \in 1 .. 4
      PROVE  PlusIs(i, j, k, l) /\ MinusIs(i, j, k, l) /\ SquareIs(i, j)
  <2> DEFINE x == Half * (a[i] * a[j])
             y == Half * (a[k] * a[l])
             s == Half * (a[i] * a[i])
             t == Half * (a[j] * a[j])
  <2>1. /\ inv_q29_mult(q[i], q[j]) = Long(x) /\ inv_q29_mult(q[k], q[l]) = Long(y)
        /\ inv_q29_mult(q[i], q[i]) = Long(s) /\ inv_q29_mult(q[j], q[j]) = Long(t)
        /\ x \in Int /\ y \in Int /\ s \in Int /\ t \in Int
    BY <1>5
  <2>2. /\ x + y = Half * (a[i] * a[j] + a[k] * a[l])
        /\ x - y = Half * (a[i] * a[j] - a[k] * a[l])
        /\ s + t - One = Half * (a[i] * a[i] + a[j] * a[j] - 2)
    <3>1. ASSUME NEW m \in Int, NEW n \in Int
          PROVE  /\ Half * m + Half * n = Half * (m + n) /\ Half * m - Half * n = Half * (m - n)
                 /\ Half * m + Half * n - One = Half * (m + n - 2)
      BY Points
    <3>2. a[i] \in Int /\ a[j] \in Int /\ a[k] \in Int /\ a[l] \in Int
      BY <1>5
    <3>3. /\ a[i] * a[j] \in Int /\ a[k] * a[l] \in Int
          /\ a[i] * a[i] \in Int /\ a[j] * a[j] \in Int
      BY <3>2
    <3> QED
      BY <3>1, <3>3, Zenon
  <2> HIDE DEF x, y, s, t
  <2>3. /\ Long(Long(x) + Long(y)) = Long(x + y) /\ Long(Long(x) - Long(y)) = Long(x - y)
    BY <2>1, LongSum
  <2>4. Long(Long(s) + Long(t) - One) = Long(s + t - One)
    BY <2>1, LongSums, Points
  <2> QED
    BY <2>1, <2>2, <2>3, <2>4 DEF Plus, Minus, Square
<1> HIDE DEF SquareIs, PlusIs, MinusIs
<1>7. SquareIs(2, 1) /\ SquareIs(3, 1) /\ SquareIs(4, 1)
  <2>1. ASSUME NEW i \in 1 .. 4, NEW j \in 1 .. 4 PROVE SquareIs(i, j)
    BY <1>6
  <2> QED
    BY <2>1
<1>8. PlusIs(2, 4, 3, 1) /\ PlusIs(2, 3, 4, 1) /\ PlusIs(3, 4, 2, 1)
  BY <1>6
<1>9. MinusIs(2, 3, 4, 1) /\ MinusIs(3, 4, 2, 1) /\ MinusIs(2, 4, 3, 1)
  BY <1>6
<1>10. /\ Square(q[2], q[1]) = Whole(r[1]) /\ Square(q[3], q[1]) = Whole(r[5])
       /\ Square(q[4], q[1]) = Whole(r[9])
  BY <1>2, <1>3, <1>4, <1>7 DEF SquareIs
<1>11. /\ Plus(q[2], q[4], q[3], q[1]) = Whole(r[3]) /\ Plus(q[2], q[3], q[4], q[1]) = Whole(r[4])
       /\ Plus(q[3], q[4], q[2], q[1]) = Whole(r[8])
  BY <1>2, <1>3, <1>4, <1>8 DEF PlusIs
<1>12. /\ Minus(q[2], q[3], q[4], q[1]) = Whole(r[2]) /\ Minus(q[3], q[4], q[2], q[1]) = Whole(r[6])
       /\ Minus(q[2], q[4], q[3], q[1]) = Whole(r[7])
  BY <1>2, <1>3, <1>4, <1>9 DEF MinusIs
<1> QED
  BY <1>10, <1>11, <1>12
     DEF inv_quaternion_to_rotation, Ones, q, r

\* by rows it turns, by columns it takes back
LEMMA RowsTurn ==
    ASSUME NEW a \in Units, NEW u \in Shorts
    PROVE  /\ inv_matrix_vector_mult(Ones(Rotation(a)), Four(u)) = Four(Turned(a, u))
           /\ mlMatrixVectorMult(Ones(Rotation(a)), Four(Turned(a, u))) = Four(u)
<1> DEFINE r == Rotation(a)
           w == Turned(a, u)
<1>1. /\ u[1] \in -Quarter .. Quarter /\ u[2] \in -Quarter .. Quarter /\ u[3] \in -Quarter .. Quarter
      /\ w[1] \in -Quarter .. Quarter /\ w[2] \in -Quarter .. Quarter /\ w[3] \in -Quarter .. Quarter
  BY TurnedIsShort, Zenon DEF Shorts
<1>2. /\ r[1] \in {-1, 0, 1} /\ r[2] \in {-1, 0, 1} /\ r[3] \in {-1, 0, 1}
      /\ r[4] \in {-1, 0, 1} /\ r[5] \in {-1, 0, 1} /\ r[6] \in {-1, 0, 1}
      /\ r[7] \in {-1, 0, 1} /\ r[8] \in {-1, 0, 1} /\ r[9] \in {-1, 0, 1}
  BY RotationOf
<1>3. /\ w[1] = r[1] * u[1] + r[2] * u[2] + r[3] * u[3]
      /\ w[2] = r[4] * u[1] + r[5] * u[2] + r[6] * u[3]
      /\ w[3] = r[7] * u[1] + r[8] * u[2] + r[9] * u[3]
  BY DEF Turned
<1>4. /\ r[1] * r[1] + r[4] * r[4] + r[7] * r[7] = 1
      /\ r[2] * r[2] + r[5] * r[5] + r[8] * r[8] = 1
      /\ r[3] * r[3] + r[6] * r[6] + r[9] * r[9] = 1
      /\ r[1] * r[2] + r[4] * r[5] + r[7] * r[8] = 0
      /\ r[1] * r[3] + r[4] * r[6] + r[7] * r[9] = 0
      /\ r[2] * r[3] + r[5] * r[6] + r[8] * r[9] = 0
  BY RotationTakenBack
<1> HIDE DEF r, w
<1>5. ASSUME NEW i \in {-1, 0, 1}, NEW j \in {-1, 0, 1}, NEW k \in {-1, 0, 1}, NEW x \in Shorts
      PROVE  Dot(Whole(i), Whole(j), Whole(k), Four(x)) = Long(4 * (i * x[1] + j * x[2] + k * x[3]))
  <2> DEFINE x1 == 4 * x[1]
             x2 == 4 * x[2]
             x3 == 4 * x[3]
             f  == i * x1
             g  == j * x2
             h  == k * x3
  <2>1. x[1] \in Int /\ x[2] \in Int /\ x[3] \in Int /\ i \in Int /\ j \in Int /\ k \in Int
    BY DEF Shorts
  <2>2. f + g + h = 4 * (i * x[1] + j * x[2] + k * x[3])
    BY <2>1
  <2>3. x1 \in Int /\ x2 \in Int /\ x3 \in Int
    BY <2>1
  <2> HIDE DEF x1, x2, x3
  <2>4. ASSUME NEW p \in Int, NEW y \in Int PROVE inv_q30_mult(Whole(p), y) = Long(p * y)
    BY ExactProducts DEF Whole
  <2>5. inv_q30_mult(Whole(i), x1) = Long(f)
    BY <2>1, <2>3, <2>4
  <2>6. inv_q30_mult(Whole(j), x2) = Long(g)
    BY <2>1, <2>3, <2>4
  <2>7. inv_q30_mult(Whole(k), x3) = Long(h)
    BY <2>1, <2>3, <2>4
  <2>8. f \in Int /\ g \in Int /\ h \in Int
    BY <2>1, <2>3
  <2> HIDE DEF f, g, h
  <2>9. Long(Long(f) + Long(g) + Long(h)) = Long(f + g + h)
    BY <2>8, LongSums
  <2> QED
    BY <2>2, <2>5, <2>6, <2>7, <2>9 DEF Dot, Four, x1, x2, x3
<1>6. ASSUME NEW n \in -Quarter .. Quarter
      PROVE  Long(4 * n) = 4 * n
  <2>1. 4 * n \in Int /\ -7 * Quarter <= 4 * n /\ 4 * n <= 7 * Quarter
    BY Points
  <2> QED
    BY <2>1, FitsLong
<1>7. /\ r[1] * w[1] + r[4] * w[2] + r[7] * w[3] = u[1]
      /\ r[2] * w[1] + r[5] * w[2] + r[8] * w[3] = u[2]
      /\ r[3] * w[1] + r[6] * w[2] + r[9] * w[3] = u[3]
  <2>1. /\ u[1] \in Int /\ u[2] \in Int /\ u[3] \in Int /\ r[1] \in Int /\ r[2] \in Int /\ r[3] \in Int
        /\ r[4] \in Int /\ r[5] \in Int /\ r[6] \in Int /\ r[7] \in Int /\ r[8] \in Int /\ r[9] \in Int
    BY <1>1, <1>2, Points
  <2>2. /\ r[1] * w[1] + r[4] * w[2] + r[7] * w[3]
             = (r[1] * r[1] + r[4] * r[4] + r[7] * r[7]) * u[1]
                 + (r[1] * r[2] + r[4] * r[5] + r[7] * r[8]) * u[2]
                 + (r[1] * r[3] + r[4] * r[6] + r[7] * r[9]) * u[3]
        /\ r[2] * w[1] + r[5] * w[2] + r[8] * w[3]
             = (r[1] * r[2] + r[4] * r[5] + r[7] * r[8]) * u[1]
                 + (r[2] * r[2] + r[5] * r[5] + r[8] * r[8]) * u[2]
                 + (r[2] * r[3] + r[5] * r[6] + r[8] * r[9]) * u[3]
        /\ r[3] * w[1] + r[6] * w[2] + r[9] * w[3]
             = (r[1] * r[3] + r[4] * r[6] + r[7] * r[9]) * u[1]
                 + (r[2] * r[3] + r[5] * r[6] + r[8] * r[9]) * u[2]
                 + (r[3] * r[3] + r[6] * r[6] + r[9] * r[9]) * u[3]
    BY <1>3, <2>1
  <2>3. /\ 1 * u[1] + 0 * u[2] + 0 * u[3] = u[1] /\ 0 * u[1] + 1 * u[2] + 0 * u[3] = u[2]
        /\ 0 * u[1] + 0 * u[2] + 1 * u[3] = u[3]
    BY <2>1
  <2> QED
    BY <1>4, <2>2, <2>3, Zenon
<1>8. u \in Shorts /\ w \in Shorts
  BY TurnedIsShort DEF w
<1>9. inv_matrix_vector_mult(Ones(r), Four(u)) = Four(w)
  <2>1. Dot(Whole(r[1]), Whole(r[2]), Whole(r[3]), Four(u)) = 4 * w[1]
    <3>1. Dot(Whole(r[1]), Whole(r[2]), Whole(r[3]), Four(u))
            = Long(4 * (r[1] * u[1] + r[2] * u[2] + r[3] * u[3]))
      BY <1>2, <1>5, <1>8
    <3> QED
      BY <1>1, <1>3, <1>6, <3>1, Zenon
  <2>2. Dot(Whole(r[4]), Whole(r[5]), Whole(r[6]), Four(u)) = 4 * w[2]
    <3>1. Dot(Whole(r[4]), Whole(r[5]), Whole(r[6]), Four(u))
            = Long(4 * (r[4] * u[1] + r[5] * u[2] + r[6] * u[3]))
      BY <1>2, <1>5, <1>8
    <3> QED
      BY <1>1, <1>3, <1>6, <3>1, Zenon
  <2>3. Dot(Whole(r[7]), Whole(r[8]), Whole(r[9]), Four(u)) = 4 * w[3]
    <3>1. Dot(Whole(r[7]), Whole(r[8]), Whole(r[9]), Four(u))
            = Long(4 * (r[7] * u[1] + r[8] * u[2] + r[9] * u[3]))
      BY <1>2, <1>5, <1>8
    <3> QED
      BY <1>1, <1>3, <1>6, <3>1, Zenon
  <2> QED
    BY <2>1, <2>2, <2>3 DEF inv_matrix_vector_mult, Ones, Four
<1>10. mlMatrixVectorMult(Ones(r), Four(w)) = Four(u)
  <2>1. Dot(Whole(r[1]), Whole(r[4]), Whole(r[7]), Four(w)) = 4 * u[1]
    <3>1. Dot(Whole(r[1]), Whole(r[4]), Whole(r[7]), Four(w))
            = Long(4 * (r[1] * w[1] + r[4] * w[2] + r[7] * w[3]))
      BY <1>2, <1>5, <1>8
    <3> QED
      BY <1>1, <1>7, <1>6, <3>1, Zenon
  <2>2. Dot(Whole(r[2]), Whole(r[5]), Whole(r[8]), Four(w)) = 4 * u[2]
    <3>1. Dot(Whole(r[2]), Whole(r[5]), Whole(r[8]), Four(w))
            = Long(4 * (r[2] * w[1] + r[5] * w[2] + r[8] * w[3]))
      BY <1>2, <1>5, <1>8
    <3> QED
      BY <1>1, <1>7, <1>6, <3>1, Zenon
  <2>3. Dot(Whole(r[3]), Whole(r[6]), Whole(r[9]), Four(w)) = 4 * u[3]
    <3>1. Dot(Whole(r[3]), Whole(r[6]), Whole(r[9]), Four(w))
            = Long(4 * (r[3] * w[1] + r[6] * w[2] + r[9] * w[3]))
      BY <1>2, <1>5, <1>8
    <3> QED
      BY <1>1, <1>7, <1>6, <3>1, Zenon
  <2> QED
    BY <2>1, <2>2, <2>3 DEF mlMatrixVectorMult, Ones, Four
<1> QED
  BY <1>9, <1>10 DEF r, w

\* a vector of the input, as the three parts that the lemmas take
LEMMA VectorIs ==
    ASSUME NEW v \in Vectors
    PROVE  LET u == <<v[1], v[2], v[3]>>
           IN /\ u \in Shorts
              /\ \A q : inv_q_rotate(q, Scaled(v)) = inv_q_rotate(q, Four(u))
              /\ \A A : inv_matrix_vector_mult(A, Scaled(v)) = inv_matrix_vector_mult(A, Four(u))
              /\ <<Scaled(v)[1], Scaled(v)[2], Scaled(v)[3]>> = Four(u)
<1>1. ASSUME NEW n \in Numbers PROVE n \in Int /\ -Quarter <= n /\ n <= Quarter
  <2>1. n \in Int /\ -One <= 4 * n /\ 4 * n <= One
    BY MathAssumption, Points
  <2> QED
    BY <2>1, Points
<1>2. v[1] \in Numbers /\ v[2] \in Numbers /\ v[3] \in Numbers
  BY DEF Vectors
<1>3. <<v[1], v[2], v[3]>> \in Shorts
  BY <1>1, <1>2, Points DEF Shorts
<1>4. Scaled(v)[1] = 4 * v[1] /\ Scaled(v)[2] = 4 * v[2] /\ Scaled(v)[3] = 4 * v[3]
  BY DEF Scaled
<1>5. /\ Four(<<v[1], v[2], v[3]>>)[1] = 4 * v[1] /\ Four(<<v[1], v[2], v[3]>>)[2] = 4 * v[2]
      /\ Four(<<v[1], v[2], v[3]>>)[3] = 4 * v[3]
      /\ Four(<<v[1], v[2], v[3]>>) = <<4 * v[1], 4 * v[2], 4 * v[3]>>
  BY DEF Four
<1> QED
  BY <1>3, <1>4, <1>5 DEF inv_q_rotate, Pure, inv_matrix_vector_mult, Dot

LEMMA HeadingTurns ==
    ASSUME NEW c \in Units, NEW v \in Vectors
    PROVE  LET q == Times(Half, c)
               down == <<0, 0, 1>>
               level == inv_get_cross_product_vec(v, down)
               seen == inv_q_rotate(q, Scaled(level))
               heading == CompassDirection(v, down, q)
           IN <<4 * heading[1], 4 * heading[2]>> = <<One * One * seen[1], One * One * seen[2]>>
<1> DEFINE q == Times(Half, c)
           u == <<v[1], v[2], v[3]>>
           level == inv_get_cross_product_vec(v, <<0, 0, 1>>)
           w == Turned(c, level)
<1>1. level = <<u[2], -u[1], 0>> /\ level \in Shorts
  <2>1. u \in Shorts
    BY VectorIs
  <2>2. /\ v[1] \in Int /\ v[2] \in Int /\ v[3] \in Int
        /\ v[1] \in -Quarter .. Quarter /\ v[2] \in -Quarter .. Quarter
    BY <2>1 DEF Shorts
  <2>3. level = <<v[2], -v[1], 0>>
    BY <2>2 DEF inv_get_cross_product_vec
  <2> QED
    BY <2>2, <2>3, Points DEF Shorts
<1>2. w \in Shorts /\ level \in Int \X Int \X Int /\ w[1] \in Int /\ w[2] \in Int
  <2>1. w \in Shorts
    BY <1>1, TurnedIsShort
  <2> QED
    BY <1>1, <2>1 DEF Shorts
<1>3. inv_q_rotate(q, Scaled(level)) = Four(w)
  <2>1. inv_q_rotate(q, Scaled(level)) = inv_q_rotate(q, Four(level))
    BY DEF inv_q_rotate, Pure, Scaled, Four
  <2> QED
    BY <1>1, <2>1, RotateTurns
<1>4. inv_q_multf(inv_q_multf(q, Pure(level)), inv_q_invert(q))
        = Times(Half, Times(Half, Times(4, Pure(w))))
  <2>1. c \in Quads /\ Pure(level) \in Quads /\ Half \in Int
    BY <1>2, Points DEF Units, Quads, Pure
  <2>2. inv_q_multf(q, Pure(level)) = Times(Half, inv_q_multf(c, Pure(level)))
        /\ inv_q_invert(q) = Times(Half, inv_q_invert(c))
    BY <2>1, TimesProduct
  <2>3. inv_q_multf(c, Pure(level)) \in Quads /\ inv_q_invert(c) \in Quads
        /\ Times(Half, inv_q_invert(c)) \in Quads
    BY <2>1, ProductParts, InverseOfProduct, TimesParts
  <2>4. inv_q_multf(Times(Half, inv_q_multf(c, Pure(level))), Times(Half, inv_q_invert(c)))
          = Times(Half, inv_q_multf(inv_q_multf(c, Pure(level)), Times(Half, inv_q_invert(c))))
    BY <2>1, <2>3, TimesProduct
  <2>5. inv_q_multf(inv_q_multf(c, Pure(level)), Times(Half, inv_q_invert(c)))
          = Times(Half, inv_q_multf(inv_q_multf(c, Pure(level)), inv_q_invert(c)))
    BY <2>1, <2>3, TimesProduct
  <2> QED
    BY <1>2, <2>2, <2>4, <2>5, TurnedTwice
<1>5. CompassDirection(v, <<0, 0, 1>>, q) = <<Half * (Half * (4 * w[1])), Half * (Half * (4 * w[2]))>>
  <2> HIDE DEF w, q
  <2>1. /\ Times(Half, Times(Half, Times(4, Pure(w))))[2] = Half * (Half * (4 * w[1]))
        /\ Times(Half, Times(Half, Times(4, Pure(w))))[3] = Half * (Half * (4 * w[2]))
    BY DEF Times, Pure
  <2> QED
    BY <1>4, <2>1 DEF CompassDirection
<1>6. ASSUME NEW n \in Int PROVE 4 * (Half * (Half * (4 * n))) = One * One * (4 * n)
  BY Points
<1> HIDE DEF w, q
<1>7. /\ 4 * (Half * (Half * (4 * w[1]))) = One * One * (4 * w[1])
      /\ 4 * (Half * (Half * (4 * w[2]))) = One * One * (4 * w[2])
  BY <1>2, <1>6
<1> QED
  BY <1>3, <1>5, <1>7 DEF Four, q

\* the four ways to turn a vector, and the vectors of gravity and of the rotation
LEMMA TurnAgrees ==
    ASSUME NEW q1 \in Turns, NEW p \in Turns, NEW v \in Vectors
    PROVE  LET twice == inv_q_rotate(q1, inv_q_rotate(p, Scaled(v)))
               q == inv_q_mult(q1, p)
               rot == inv_quaternion_to_rotation(q)
           IN /\ \E c \in Units : q = Times(Half, c)
              /\ inv_q_rotate(q, Scaled(v)) = twice
              /\ inv_matrix_vector_mult(rot, Scaled(v)) = twice
              /\ mlMatrixVectorMult(rot, twice) = <<Scaled(v)[1], Scaled(v)[2], Scaled(v)[3]>>
              /\ inv_get_gravity(q) = <<rot[7], rot[8], rot[9]>>
              /\ q[1] # 0 => inv_quaternion_to_rotation_vector([i \in 1 .. 4 |-> -q[i]])
                               = inv_quaternion_to_rotation_vector(q)
<1>1. PICK a \in Units : q1 = Times(Half, a)
  BY TurnIs
<1>2. PICK b \in Units : p = Times(Half, b)
  BY TurnIs
<1>3. PICK c \in Units : inv_q_multf(a, b) = Times(2, c) /\ inv_q_mult(q1, p) = Times(Half, c)
  BY <1>1, <1>2, TurnOfTurns
<1> DEFINE u == <<v[1], v[2], v[3]>>
           q == Times(Half, c)
           twice == inv_q_rotate(q1, inv_q_rotate(p, Scaled(v)))
<1>4. /\ u \in Shorts /\ Turned(b, u) \in Shorts
      /\ Turned(a, Turned(b, u)) = Turned(c, u)
  <2>1. u \in Shorts
    BY VectorIs
  <2>2. Turned(b, u) \in Shorts
    BY <2>1, TurnedIsShort
  <2>3. Turned(a, Turned(b, u)) = Turned(c, u)
    BY <1>3, <2>1, TurnedByProduct
  <2> QED
    BY <2>1, <2>2, <2>3
<1>5. twice = Four(Turned(c, u))
  <2>1. inv_q_rotate(p, Scaled(v)) = Four(Turned(b, u))
    BY <1>2, <1>4, VectorIs, RotateTurns
  <2>2. inv_q_rotate(q1, Four(Turned(b, u))) = Four(Turned(a, Turned(b, u)))
    BY <1>1, <1>4, RotateTurns
  <2> QED
    BY <1>4, <2>1, <2>2
<1>6. inv_q_rotate(q, Scaled(v)) = Four(Turned(c, u))
  BY <1>4, VectorIs, RotateTurns
<1>7. inv_quaternion_to_rotation(q) = Ones(Rotation(c))
  BY MatrixTurns
<1>8. inv_matrix_vector_mult(Ones(Rotation(c)), Scaled(v)) = Four(Turned(c, u))
  BY <1>4, VectorIs, RowsTurn
<1>9. mlMatrixVectorMult(Ones(Rotation(c)), Four(Turned(c, u)))
        = <<Scaled(v)[1], Scaled(v)[2], Scaled(v)[3]>>
  BY <1>4, VectorIs, RowsTurn
<1>10. inv_get_gravity(q) = << inv_quaternion_to_rotation(q)[7], inv_quaternion_to_rotation(q)[8],
                               inv_quaternion_to_rotation(q)[9] >>
  BY DEF inv_get_gravity, inv_quaternion_to_rotation
<1>11. q[1] # 0 => inv_quaternion_to_rotation_vector([i \in 1 .. 4 |-> -q[i]])
                     = inv_quaternion_to_rotation_vector(q)
  <2>1. q[1] \in Int /\ q[2] \in Int /\ q[3] \in Int /\ q[4] \in Int
    BY Points, TimesParts, QuadParts DEF Units
  <2> HIDE DEF q
  <2>2. /\ -(-q[2]) = q[2] /\ -(-q[3]) = q[3] /\ -(-q[4]) = q[4]
        /\ q[1] # 0 => (-q[1] < 0) = ~(q[1] < 0)
    BY <2>1
  <2> QED
    BY <2>1, <2>2 DEF inv_quaternion_to_rotation_vector, inv_q_invert, Rest
<1> HIDE DEF q, twice
<1> QED
  BY <1>3, <1>5, <1>6, <1>7, <1>8, <1>9, <1>10, <1>11 DEF q, twice

-----------------------------------------------------------------------------
(* The calls.                                                              *)

InputOK ==
    \/ \E q, p \in Turns, v \in Vectors : input = [to |-> "turn", q |-> q, p |-> p, v |-> v]
    \/ \E m \in Mountings, v, b \in Vectors : input = [to |-> "mount", m |-> m, v |-> v, b |-> b]
    \/ \E a, b \in Angles : input = [to |-> "steer", a |-> a, b |-> b]
    \/ \E w \in Words : input = [to |-> "store", w |-> w]

LEMMA InputParts ==
    ASSUME InputOK
    PROVE  /\ input.to = "turn" => input.q \in Turns /\ input.p \in Turns /\ input.v \in Vectors
           /\ input.to = "mount" => input.m \in Mountings /\ input.v \in Vectors /\ input.b \in Vectors
           /\ input.to = "steer" => input.a \in Angles /\ input.b \in Angles
           /\ input.to = "store" => input.w \in Words
  BY DEF InputOK

LEMMA InputStays == MathSpec => []InputOK
<1>1. MathInit => InputOK
  BY DEF MathInit, InputOK
<1>2. InputOK /\ [MathNext]_mathVars => InputOK'
  <2> SUFFICES ASSUME InputOK, [MathNext]_mathVars PROVE InputOK'
    OBVIOUS
  <2>1. input' = input
    BY DEF MathNext, Turn, Mount, Steer, Store, Done, Call, mathVars
  <2> QED
    BY <2>1 DEF InputOK
<1> QED
  BY <1>1, <1>2, PTL DEF MathSpec

\* inv_angle_diff (ml_math_func.c:518): for angles up to one turn out of range the difference
\* is right up to whole turns and never more than half a turn.
THEOREM DifferencesAreShort == MathSpec => []ShortestWay
<1>1. MathInit => ShortestWay
  BY DEF MathInit, ShortestWay, NoResult
<1>2. InputOK /\ ShortestWay /\ [MathNext]_mathVars => ShortestWay'
  <2> SUFFICES ASSUME InputOK, ShortestWay, [MathNext]_mathVars PROVE ShortestWay'
    OBVIOUS
  <2>1. CASE Turn
    BY <2>1 DEF Turn, ShortestWay
  <2>2. CASE Mount
    BY <2>2 DEF Mount, ShortestWay
  <2>3. CASE Steer
    <3>1. input' = input /\ input.a \in Angles /\ input.b \in Angles
      BY <2>3, InputParts DEF Steer, Call
    <3>2. result' = [of |-> "steer", diff |-> inv_angle_diff(input.a, input.b)]
      BY <2>3 DEF Steer
    <3> QED
      BY <3>1, <3>2, ShortWay DEF ShortestWay
  <2>4. CASE Store
    BY <2>4 DEF Store, ShortestWay
  <2>5. CASE UNCHANGED mathVars
    BY <2>5 DEF ShortestWay, mathVars
  <2> QED
    BY <2>1, <2>2, <2>3, <2>4, <2>5 DEF MathNext, Done
<1> QED
  BY <1>1, <1>2, InputStays, PTL DEF MathSpec

\* inv_int32_to_big8 and its kin, inv_checksum (ml_math_func.c:398, 542): numbers come back from
\* their bytes, and the checksum of four bytes tells a wrong one and two swapped neighbours.  A byte has to
\* hold the factor of the hash, 33; it holds 256 values.
THEOREM BytesAreChecked == ASSUME ByteSize >= 33 PROVE MathSpec => []BytesChecked
<1>1. MathInit => BytesChecked
  BY DEF MathInit, BytesChecked, NoResult
<1>2. InputOK /\ BytesChecked /\ [MathNext]_mathVars => BytesChecked'
  <2> SUFFICES ASSUME InputOK, BytesChecked, [MathNext]_mathVars PROVE BytesChecked'
    OBVIOUS
  <2>1. CASE Turn
    BY <2>1 DEF Turn, BytesChecked
  <2>2. CASE Mount
    BY <2>2 DEF Mount, BytesChecked
  <2>3. CASE Steer
    BY <2>3 DEF Steer, BytesChecked
  <2>4. CASE Store
    <3> DEFINE b == inv_int32_to_big8(input.w)
               half == Short(input.w)
               big8 == inv_int16_to_big8(half)
    <3>1. input' = input /\ input.w \in Words /\ input.w \in Int
      BY <2>4, InputParts DEF Store, Call, Words
    <3>2. result' = [of |-> "store", bytes |-> b, checksum |-> inv_checksum(b)]
      BY <2>4 DEF Store
    <3>3. inv_big8_to_int32(b) = input.w
      BY <3>1, LongComesBack
    <3>4. /\ inv_big8_to_int16(big8) = half
          /\ inv_little8_to_int16(<<big8[2], big8[1]>>) = half
      BY <3>1, ShortComesBack
    <3>5. b \in Bytes4
      <4>1. ASSUME NEW x \in Int PROVE x % ByteSize \in 0 .. ByteSize - 1
        BY Sizes
      <4>2. ASSUME NEW place \in Nat \ {0} PROVE Byte(input.w, place) \in 0 .. ByteSize - 1
        <5>1. input.w \div place \in Int
          BY <3>1, DivMod
        <5> QED
          BY <4>1, <5>1 DEF Byte
      <4>3. 1 \in Nat \ {0} /\ ByteSize * ShortSize \in Nat \ {0}
        BY Sizes
      <4> QED
        BY <4>2, <4>3, Sizes DEF inv_int32_to_big8, Bytes4
    <3> HIDE DEF b, big8, half
    <3>6. \A i \in 1 .. 4, x \in 0 .. ByteSize - 1 :
             x # b[i] => inv_checksum([b EXCEPT ![i] = x]) # inv_checksum(b)
      BY <3>5, WrongByteTold
    <3>7. \A i \in 1 .. 3 :
             b[i] # b[i + 1] =>
                 inv_checksum([b EXCEPT ![i] = b[i + 1], ![i + 1] = b[i]]) # inv_checksum(b)
      BY <3>5, SwappedBytesTold
    <3> QED
      BY <3>1, <3>2, <3>3, <3>4, <3>6, <3>7 DEF BytesChecked, big8, half
  <2>5. CASE UNCHANGED mathVars
    BY <2>5 DEF BytesChecked, mathVars
  <2> QED
    BY <2>1, <2>2, <2>3, <2>4, <2>5 DEF MathNext, Done
<1> QED
  BY <1>1, <1>2, InputStays, PTL DEF MathSpec

LEMMA MountingIs ==
    ASSUME NEW m \in Mountings
    PROVE  \E p : Permutes(p) /\ \E s \in [1 .. 3 -> {1, -1}] : m = Mounted(p, s)
<1>1. PICK p \in {f \in [1 .. 3 -> 1 .. 3] : \A k \in 1 .. 3 : \E i \in 1 .. 3 : f[i] = k},
           s \in [1 .. 3 -> {1, -1}] :
        m = [i \in 1 .. 3 |-> [k \in 1 .. 3 |-> IF k = p[i] THEN s[i] ELSE 0]]
  BY DEF Mountings
<1>2. Permutes(p) /\ m = Mounted(p, s)
  BY <1>1 DEF Permutes, Mounted
<1> QED
  BY <1>2

\* a bias that is a multiple of 2^16 comes off exactly
LEMMA BiasTakenOff ==
    ASSUME NEW o, NEW k, NEW v \in [1 .. 3 -> Int], NEW b \in [1 .. 3 -> Int]
    PROVE  inv_apply_calibration(o, k, v, [i \in 1 .. 3 |-> b[i] * ShortSize]).calibrated
             = inv_apply_calibration(o, k, [i \in 1 .. 3 |-> v[i] - b[i]], <<0, 0, 0>>).raw_scaled
<1> DEFINE h == ShortSize \div 2
           scaled == [i \in 1 .. 3 |-> Long(v[i] * h)]
           calibrated == [i \in 1 .. 3 |->
               Long(scaled[i] - (([j \in 1 .. 3 |-> b[j] * ShortSize])[i] \div 2))]
           apart == [i \in 1 .. 3 |-> Long(([j \in 1 .. 3 |-> v[j] - b[j]])[i] * h)]
<1>1. h \in Int /\ ShortSize = 2 * h
  BY Sizes
<1>2. ASSUME NEW i \in 1 .. 3 PROVE calibrated[i] = apart[i]
  <2> DEFINE x == v[i] * h
             y == b[i] * h
  <2>1. v[i] \in Int /\ b[i] \in Int
    OBVIOUS
  <2>2. x \in Int /\ y \in Int /\ x - y = (v[i] - b[i]) * h
    BY <1>1, <2>1
  <2>3. (b[i] * ShortSize) \div 2 = y
    <3>1. b[i] * ShortSize = y * 2
      BY <1>1, <2>1
    <3> HIDE DEF y
    <3>2. (y * 2) \div 2 = y
      BY <2>2
    <3> QED
      BY <3>1, <3>2
  <2>4. Long(Long(x) - y) = Long(x - y)
    <3> HIDE DEF x, y
    <3> QED
      BY <2>2, LongAdds
  <2> QED
    BY <2>2, <2>3, <2>4
<1>3. calibrated = apart
  BY <1>2
<1> QED
  BY <1>3 DEF inv_apply_calibration

\* ml_math_func.c, data_builder.c: however a chip is mounted, the nine bits of its matrix turn
\* a vector as the matrix does and back again, a mirrored mounting has determinant -1, and the
\* bias comes off in the frame of the chip.
THEOREM MountingIsUndone == MathSpec => []MountingUndone
<1>1. MathInit => MountingUndone
  BY DEF MathInit, MountingUndone, NoResult
<1>2. InputOK /\ MountingUndone /\ [MathNext]_mathVars => MountingUndone'
  <2> SUFFICES ASSUME InputOK, MountingUndone, [MathNext]_mathVars PROVE MountingUndone'
    OBVIOUS
  <2>1. CASE Turn
    BY <2>1 DEF Turn, MountingUndone
  <2>2. CASE Mount
    <3> DEFINE m == input.m
               v == input.v
               b == input.b
               o == inv_orientation_matrix_to_scalar(m)
               times(x) == [i \in 1 .. 3 |-> m[i][1] * x[1] + m[i][2] * x[2] + m[i][3] * x[3]]
    <3>1. input' = input /\ m \in Mountings /\ v \in [1 .. 3 -> Int] /\ b \in [1 .. 3 -> Int]
      <4>1. input' = input /\ m \in Mountings /\ v \in Vectors /\ b \in Vectors
        BY <2>2, InputParts DEF Mount, Call
      <4> QED
        BY <4>1, MathAssumption DEF Vectors
    <3>2. result' = [of |-> "mount", orientation |-> o, body |-> inv_convert_to_body(o, v),
             calibrated |-> inv_apply_calibration(o, Half, v,
                               [i \in 1 .. 3 |-> b[i] * ShortSize]).calibrated]
      BY <2>2 DEF Mount
    <3>3. PICK p : Permutes(p) /\ \E s \in [1 .. 3 -> {1, -1}] : m = Mounted(p, s)
      BY <3>1, MountingIs
    <3>4. PICK s \in [1 .. 3 -> {1, -1}] : m = Mounted(p, s)
      BY <3>3
    <3> DEFINE perm(x) == [i \in 1 .. 3 |-> x[p[i]] * s[i]]
    <3> HIDE DEF m, v, b, o
    <3>5. ASSUME NEW x \in [1 .. 3 -> Int]
          PROVE  inv_convert_to_body(o, x) = perm(x) /\ times(x) = perm(x)
      BY <3>3, <3>4, ToBody DEF o
    <3>6. inv_convert_to_body(o, v) = times(v)
      BY <3>1, <3>5
    <3>7. inv_convert_to_chip(o, inv_convert_to_body(o, v)) = v
      BY <3>1, <3>3, <3>4, <3>5, ToChip DEF o
    <3>8. times(inv_get_cross_product_vec(v, b))
            = [i \in 1 .. 3 |-> inv_matrix_det(m)
                 * inv_get_cross_product_vec(inv_convert_to_body(o, v), times(b))[i]]
      <4>1. inv_get_cross_product_vec(v, b) \in [1 .. 3 -> Int]
        BY <3>1 DEF inv_get_cross_product_vec
      <4>2. perm(inv_get_cross_product_vec(v, b))
              = [i \in 1 .. 3 |-> inv_matrix_det(m) * inv_get_cross_product_vec(perm(v), perm(b))[i]]
        BY <3>1, <3>3, <3>4, CrossOfMounted
      <4> QED
        BY <3>1, <3>5, <4>1, <4>2
    <3>9. inv_apply_calibration(o, Half, v, [i \in 1 .. 3 |-> b[i] * ShortSize]).calibrated
            = inv_apply_calibration(o, Half, [i \in 1 .. 3 |-> v[i] - b[i]], <<0, 0, 0>>).raw_scaled
      BY <3>1, BiasTakenOff
    <3>10. /\ input'.m = m /\ input'.v = v /\ input'.b = b
           /\ result'.orientation = o /\ result'.body = inv_convert_to_body(o, v)
           /\ result'.calibrated = inv_apply_calibration(o, Half, v,
                                     [i \in 1 .. 3 |-> b[i] * ShortSize]).calibrated
      BY <3>1, <3>2 DEF m, v, b
    <3> QED
      BY <3>6, <3>7, <3>8, <3>9, <3>10 DEF MountingUndone
  <2>3. CASE Steer
    BY <2>3 DEF Steer, MountingUndone
  <2>4. CASE Store
    BY <2>4 DEF Store, MountingUndone
  <2>5. CASE UNCHANGED mathVars
    BY <2>5 DEF MountingUndone, mathVars
  <2> QED
    BY <2>1, <2>2, <2>3, <2>4, <2>5 DEF MathNext, Done
<1> QED
  BY <1>1, <1>2, InputStays, PTL DEF MathSpec

\* ml_math_func.c, results_holder.c: a vector turned twice is turned by the product, the matrix
\* turns it by rows and takes it back by columns, gravity is its last row, a quaternion and its
\* negative have one rotation vector, and the heading turns with the rest.  Sums that overflow
\* on the way, as 2.0 does in a `long`, leave nothing wrong in what is returned.
THEOREM TurnsDoAgree == MathSpec => []TurnsAgree
<1>1. MathInit => TurnsAgree
  BY DEF MathInit, TurnsAgree, NoResult
<1>2. InputOK /\ TurnsAgree /\ [MathNext]_mathVars => TurnsAgree'
  <2> SUFFICES ASSUME InputOK, TurnsAgree, [MathNext]_mathVars PROVE TurnsAgree'
    OBVIOUS
  <2>1. CASE Turn
    <3> DEFINE q1 == input.q
               p == input.p
               v == input.v
               twice == inv_q_rotate(q1, inv_q_rotate(p, Scaled(v)))
               q == inv_q_mult(q1, p)
               rot == inv_quaternion_to_rotation(q)
               down == <<0, 0, 1>>
               level == inv_get_cross_product_vec(v, down)
               seen == inv_q_rotate(q, Scaled(level))
               heading == CompassDirection(v, down, q)
    <3>1. input' = input /\ q1 \in Turns /\ p \in Turns /\ v \in Vectors
      BY <2>1, InputParts DEF Turn, Call
    <3>2. result' = [of |-> "turn", twice |-> twice, product |-> q]
      BY <2>1 DEF Turn
    <3> HIDE DEF q1, p, v
    <3>3. /\ \E c \in Units : q = Times(Half, c)
          /\ inv_q_rotate(q, Scaled(v)) = twice
          /\ inv_matrix_vector_mult(rot, Scaled(v)) = twice
          /\ mlMatrixVectorMult(rot, twice) = <<Scaled(v)[1], Scaled(v)[2], Scaled(v)[3]>>
          /\ inv_get_gravity(q) = <<rot[7], rot[8], rot[9]>>
          /\ q[1] # 0 => inv_quaternion_to_rotation_vector([i \in 1 .. 4 |-> -q[i]])
                           = inv_quaternion_to_rotation_vector(q)
      BY <3>1, TurnAgrees
    <3> HIDE DEF twice, q
    <3>4. <<4 * heading[1], 4 * heading[2]>> = <<One * One * seen[1], One * One * seen[2]>>
      BY <3>1, <3>3, HeadingTurns
    <3>5. input'.v = v /\ result'.twice = twice /\ result'.product = q
      BY <3>1, <3>2 DEF v
    <3> QED
      BY <3>3, <3>4, <3>5 DEF TurnsAgree
  <2>2. CASE Mount
    BY <2>2 DEF Mount, TurnsAgree
  <2>3. CASE Steer
    BY <2>3 DEF Steer, TurnsAgree
  <2>4. CASE Store
    BY <2>4 DEF Store, TurnsAgree
  <2>5. CASE UNCHANGED mathVars
    BY <2>5 DEF TurnsAgree, mathVars
  <2> QED
    BY <2>1, <2>2, <2>3, <2>4, <2>5 DEF MathNext, Done
<1> QED
  BY <1>1, <1>2, InputStays, PTL DEF MathSpec

-----------------------------------------------------------------------------
(* The path of a sample.                                                   *)

USE DataBuilderAssumption, ResultsAssumption, HalAssumption

-----------------------------------------------------------------------------
(* The table.                                                              *)

\* a nonempty set of numbers has a least one
LEMMA LeastNumber ==
    ASSUME NEW T \in SUBSET Nat, T # {}
    PROVE  \E x \in T : \A y \in T : x <= y
<1>1. IsWellFoundedOn(OpToRel(<, Nat), Nat)
  BY NatLessThanWellFounded
<1>2. OpToRel(<, Nat) = {ss \in Nat \X Nat : ss[1] < ss[2]}
  BY DEF OpToRel
<1>3. IsWellFoundedOn({ss \in Nat \X Nat : ss[1] < ss[2]}, Nat)
  BY <1>1, <1>2
<1>4. PICK x \in T : \A y \in T : ~(<<y, x>> \in {ss \in Nat \X Nat : ss[1] < ss[2]})
  BY <1>3, WFMin
<1>5. ASSUME NEW y \in T PROVE x <= y
  <2>1. x \in Nat /\ y \in Nat
    OBVIOUS
  <2>2. ~(<<y, x>>[1] < <<y, x>>[2])
    BY <1>4, <2>1
  <2> QED
    BY <2>1, <2>2
<1> QED
  BY <1>5

TableOK == process \in Seq(Entry) /\ TableOrdered

\* an entry stands behind all of smaller priorities and before all of greater ones
LEMMA PlaceOK ==
    ASSUME TableOK, NEW p \in Nat
    PROVE  /\ Place(p) \in 1 .. Len(process) + 1
           /\ \A i \in 1 .. Place(p) - 1 : process[i].priority < p
           /\ \A i \in DOMAIN process : i >= Place(p) => process[i].priority >= p
<1> DEFINE T == {k \in 1 .. Len(process) + 1 : k <= Len(process) => process[k].priority >= p}
<1>1. process \in Seq(Entry) /\ Len(process) \in Nat /\ DOMAIN process = 1 .. Len(process)
  BY DEF TableOK
<1>2. \A i \in DOMAIN process : process[i].priority \in Nat
  <2>1. \A i \in DOMAIN process : process[i] \in Entry
    BY <1>1
  <2> QED
    BY <2>1 DEF Entry
<1>3. T \in SUBSET Nat /\ T # {}
  <2>1. Len(process) + 1 \in 1 .. Len(process) + 1 /\ ~(Len(process) + 1 <= Len(process))
    BY <1>1
  <2>2. Len(process) + 1 \in T
    BY <2>1
  <2>3. \A y \in T : y \in Nat
    BY <1>1
  <2> QED
    BY <2>2, <2>3
<1>4. PICK k \in T : \A y \in T : k <= y
  BY <1>3, LeastNumber
<1>5. \A i \in 1 .. k - 1 : process[i].priority < p
  <2> SUFFICES ASSUME NEW i \in 1 .. k - 1 PROVE process[i].priority < p
    OBVIOUS
  <2>1. i \in 1 .. Len(process) + 1 /\ i \notin T /\ i <= Len(process)
    BY <1>1, <1>4
  <2> QED
    BY <1>1, <1>2, <2>1
<1>6. k <= Len(process) => process[k].priority >= p
  BY <1>4
<1>7. \E j \in 1 .. Len(process) + 1 :
          /\ \A i \in 1 .. j - 1 : process[i].priority < p
          /\ j <= Len(process) => process[j].priority >= p
  BY <1>4, <1>5, <1>6
<1>8. /\ Place(p) \in 1 .. Len(process) + 1
      /\ \A i \in 1 .. Place(p) - 1 : process[i].priority < p
      /\ Place(p) <= Len(process) => process[Place(p)].priority >= p
  BY <1>7 DEF Place
<1>9. ASSUME NEW i \in DOMAIN process, i >= Place(p) PROVE process[i].priority >= p
  <2>1. CASE i = Place(p)
    BY <1>1, <1>8, <1>9, <2>1
  <2>2. CASE i > Place(p)
    <3>1. Place(p) \in DOMAIN process
      BY <1>1, <1>8, <2>2
    <3>2. process[Place(p)].priority < process[i].priority
      BY <2>2, <3>1 DEF TableOK, TableOrdered
    <3>3. process[Place(p)].priority >= p
      BY <1>1, <1>8, <3>1
    <3> QED
      BY <1>2, <3>1, <3>2, <3>3
  <2> QED
    BY <1>1, <1>8, <1>9, <2>1, <2>2
<1> QED
  BY <1>8, <1>9

LEMMA RegisterOK ==
    ASSUME TableOK, NEW e \in Entry, Register(e.func, e.priority, e.required)
    PROVE  TableOK'
<1>1. e.func \in Callback /\ e.priority \in Nat /\ e.required \in SUBSET Sensor
  BY DEF Entry
<1>2. CASE process' = process
  BY <1>2 DEF TableOK, TableOrdered
<1>3. CASE ~Taken(e.func, e.priority) /\ process' # process
  <2> DEFINE n == Len(process)
             k == Place(e.priority)
             x == [func |-> e.func, priority |-> e.priority, required |-> e.required]
  <2>1. process' = Inserted(k, x)
    BY <1>3 DEF Register
  <2>2. /\ k \in 1 .. n + 1
        /\ \A i \in 1 .. k - 1 : process[i].priority < e.priority
        /\ \A i \in DOMAIN process : i >= k => process[i].priority >= e.priority
    BY <1>1, PlaceOK
  <2>3. process \in Seq(Entry) /\ n \in Nat /\ DOMAIN process = 1 .. n
    BY DEF TableOK
  <2>4. \A i \in 1 .. n : /\ process[i] \in Entry
                          /\ process[i].func # e.func /\ process[i].priority # e.priority
    BY <1>3, <2>3 DEF Taken
  <2>5. x \in Entry /\ x.func = e.func /\ x.priority = e.priority
    BY <1>1 DEF Entry
  <2> HIDE DEF k, x
  <2>6. /\ process' \in [1 .. n + 1 -> Entry]
        /\ \A i \in 1 .. n + 1 :
              process'[i] = IF i < k THEN process[i] ELSE IF i = k THEN x ELSE process[i - 1]
    BY <2>1, <2>2, <2>3, <2>4, <2>5 DEF Inserted
  <2>7. process' \in Seq(Entry) /\ DOMAIN process' = 1 .. n + 1
    BY <2>3, <2>6
  <2>8. \A i \in 1 .. n : process[i].priority \in Nat
    BY <2>4 DEF Entry
  <2>9. ASSUME NEW i \in 1 .. n + 1, NEW j \in 1 .. n + 1, i < j
        PROVE  process'[i].priority < process'[j].priority /\ process'[i].func # process'[j].func
    <3> DEFINE ii == IF i < k THEN i ELSE i - 1
               jj == IF j < k THEN j ELSE j - 1
    <3>1. CASE i # k /\ j # k
      <4>1. ii \in 1 .. n /\ jj \in 1 .. n /\ ii < jj
        BY <2>2, <2>3, <2>9, <3>1
      <4>2. process'[i] = process[ii] /\ process'[j] = process[jj]
        BY <2>6, <3>1
      <4> QED
        BY <2>3, <4>1, <4>2 DEF TableOK, TableOrdered
    <3>2. CASE i = k
      <4>1. jj \in 1 .. n /\ jj >= k
        BY <2>2, <2>3, <2>9, <3>2
      <4>2. process'[i] = x /\ process'[j] = process[jj]
        BY <2>6, <2>9, <3>2
      <4>3. process[jj].priority >= e.priority /\ process[jj].priority # e.priority
        BY <2>2, <2>3, <2>4, <4>1
      <4> QED
        BY <1>1, <2>4, <2>5, <2>8, <4>1, <4>2, <4>3
    <3>3. CASE j = k
      <4>1. ii \in 1 .. n /\ ii \in 1 .. k - 1
        BY <2>2, <2>3, <2>9, <3>3
      <4>2. process'[i] = process[ii] /\ process'[j] = x
        BY <2>6, <2>9, <3>3
      <4> QED
        BY <1>1, <2>2, <2>4, <2>5, <2>8, <4>1, <4>2
    <3> QED
      BY <3>1, <3>2, <3>3
  <2> QED
    BY <2>7, <2>9 DEF TableOK, TableOrdered
<1> QED
  BY <1>2, <1>3 DEF Register

TableInv ==
    /\ TableOK
    /\ startCb \in Seq(Entry) /\ Len(startCb) > 0
    /\ started \in Int /\ started >= -1

LEMMA TableInit == Init => TableInv
<1> SUFFICES ASSUME Init PROVE TableInv
  OBVIOUS
<1>1. ResultsEntry \in Entry
  BY DEF ResultsEntry, Entry, Sensor, Motion
<1>2. startCb \in Seq(Entry) /\ Len(startCb) > 0
  BY <1>1 DEF Init
<1>3. process = <<>>
  BY DEF Init, DataInit
<1>4. TableOK
  BY <1>3 DEF TableOK, TableOrdered
<1> QED
  BY <1>2, <1>4 DEF Init, TableInv

LEMMA TableStep == TableInv /\ [Next]_vars => TableInv'
<1> SUFFICES ASSUME TableInv, [Next]_vars PROVE TableInv'
  OBVIOUS
<1> USE DEF TableInv
<1>1. CASE EnableFeature
  <2>1. Features[Len(startCb)] \in Entry
    BY <1>1 DEF EnableFeature
  <2>2. startCb' \in Seq(Entry) /\ Len(startCb') > 0
    BY <1>1, <2>1 DEF EnableFeature
  <2>3. TableOK'
    BY <1>1 DEF EnableFeature, dataVars, TableOK, TableOrdered
  <2> QED
    BY <1>1, <2>2, <2>3 DEF EnableFeature
<1>2. CASE StartMpl
  BY <1>2 DEF StartMpl, dataVars, TableOK, TableOrdered
<1>3. CASE StartNext
  <2> DEFINE e == startCb[started + 1]
  <2>1. e \in Entry /\ Register(e.func, e.priority, e.required)
    BY <1>3 DEF StartNext
  <2>2. TableOK'
    BY <2>1, RegisterOK
  <2> QED
    BY <1>3, <2>2 DEF StartNext
<1>4. CASE UNCHANGED <<process, startCb, started>>
  BY <1>4 DEF TableOK, TableOrdered
<1>5. ASSUME NEW s \in Sensor, Build(s) \/ TurnOff(s)
      PROVE  UNCHANGED <<process, startCb, started>>
  BY <1>5 DEF Build, TurnOff
<1>6. ASSUME \/ Begin \/ SkipCallback \/ RunQuaternion \/ RunCorrection \/ RunResults \/ RunHal
             \/ CheckNew \/ End
      PROVE  UNCHANGED <<process, startCb, started>>
  BY <1>6 DEF Begin, SkipCallback, RunQuaternion, RunCorrection, RunResults, RunHal, CheckNew, End,
              halVars
<1>7. ASSUME (\E s \in Updates : GetUpdate(s)) \/ GetMagneticField \/ GetFused \/ NotAsked
      PROVE  UNCHANGED <<process, startCb, started>>
  BY <1>7 DEF GetUpdate, GetMagneticField, GetFused, NotAsked, dataVars
<1>8. CASE UNCHANGED vars
  BY <1>4, <1>8 DEF vars, dataVars, halVars
<1> QED
  BY <1>1, <1>2, <1>3, <1>4, <1>5, <1>6, <1>7, <1>8 DEF Next

(* data_builder.c:827: for every set of features, enabled in every order,  *)
(* the callbacks stand in the order of their priorities, each once.        *)
THEOREM TableStaysOrdered == Spec => []TableOrdered
<1>1. TableInv => TableOrdered
  BY DEF TableInv, TableOK
<1> QED
  BY <1>1, TableInit, TableStep, PTL DEF Spec

-----------------------------------------------------------------------------
(* The marks of new samples.                                               *)

Called    == {"quaternion", "correction", "results", "hal"}
Execution == [kk : Nat, mode : SUBSET Sensor, called : SUBSET Called, fresh : SUBSET Sensor]

\* the fields the marks depend on are there
Fields ==
    /\ DOMAIN sensors = Sensor /\ \A s \in Sensor : "status" \in DOMAIN sensors[s]
    /\ exec \in Execution
    /\ "new" \in DOMAIN hal
    /\ asking \in Nat

\* while callbacks run, what is new is in the mode, and those the loop is past have been called
Executing ==
    exec.kk > 0 =>
        /\ started = Len(startCb) /\ asking = 0
        /\ \A s \in Sensor \ {"quat"} : IsNew(s) => s \in exec.mode
        /\ \A i \in DOMAIN process :
              (i < exec.kk /\ process[i].required \cap exec.mode # {})
                  => process[i].func \in exec.called

\* nothing is new while the outputs are asked, and a compass sample that is new or waits to be
\* reported has not been
Asking ==
    /\ asking # 0 => exec.kk = 0 /\ \A s \in Sensor : ~IsNew(s)
    /\ (IsNew("compass") \/ "compass" \in hal.new) => "compass" \notin reported

MarkInv == Fields /\ Executing /\ Asking

LEMMA MarkInit == Init => MarkInv
<1> SUFFICES ASSUME Init PROVE MarkInv
  OBVIOUS
<1>1. \A s \in Sensor : sensors[s].status = {} /\ "status" \in DOMAIN sensors[s]
  BY DEF Init, DataInit, Cleared
<1>2. "compass" \in Sensor
  BY DEF Sensor, Motion
<1>3. Fields
  BY <1>1 DEF Init, DataInit, Fields, Idle, Execution
<1>4. Executing /\ Asking
  BY <1>1, <1>2 DEF Init, DataInit, Idle, Executing, Asking, IsNew
<1> QED
  BY <1>3, <1>4 DEF MarkInv

\* a sample is built outside executeOnData, of one sensor
LEMMA BuilderOK ==
    ASSUME Fields, NEW s \in Sensor, NEW x \in Sample, Builder(s, x)
    PROVE  /\ DOMAIN sensors' = Sensor /\ \A t \in Sensor : "status" \in DOMAIN sensors'[t]
           /\ \A t \in Sensor \ {s} : sensors'[t] = sensors[t]
<1> USE DEF Fields
<1>1. s \in {"gyro", "accel", "compass", "temp", "quat"}
  BY DEF Sensor, Motion
<1>2. PICK h : sensors' = [sensors EXCEPT ![s] = h] /\ "status" \in DOMAIN h
  <2> USE DEF Builder, Fresh, FromRaw, FromOutside, Calibrated
  <2>1. CASE s = "gyro"
    BY <2>1 DEF BuildGyro
  <2>2. CASE s = "accel"
    BY <2>2 DEF BuildAccel
  <2>3. CASE s = "compass"
    BY <2>3 DEF BuildCompass, BuildCalibrated
  <2>4. CASE s = "temp"
    BY <2>4 DEF BuildTemp
  <2>5. CASE s = "quat"
    BY <2>5 DEF BuildQuat
  <2> QED
    BY <1>1, <2>1, <2>2, <2>3, <2>4, <2>5
<1> QED
  BY <1>2

LEMMA MarkStart ==
    ASSUME MarkInv, EnableFeature \/ StartMpl \/ StartNext
    PROVE  MarkInv'
<1> USE DEF MarkInv
<1>1. UNCHANGED <<sensors, exec, hal, asking, reported>> /\ started # Len(startCb)
  BY DEF EnableFeature, StartMpl, StartNext, dataVars
<1>2. exec.kk = 0
  BY <1>1 DEF Fields, Executing, Execution
<1> QED
  BY <1>1, <1>2 DEF Fields, Executing, Asking, IsNew

LEMMA MarkBuild ==
    ASSUME MarkInv, NEW s \in Sensor, Build(s)
    PROVE  MarkInv'
<1> USE DEF MarkInv
<1>1. /\ exec.kk = 0 /\ asking = 0 /\ reported' = reported \ {s}
      /\ UNCHANGED <<process, exec, startCb, started, hal, asking>>
  BY DEF Build, Ready
<1>2. /\ DOMAIN sensors' = Sensor /\ \A t \in Sensor : "status" \in DOMAIN sensors'[t]
      /\ \A t \in Sensor \ {s} : sensors'[t] = sensors[t]
  BY BuilderOK DEF Build
<1>3. s # "compass" => sensors'["compass"] = sensors["compass"]
  BY <1>2 DEF Sensor, Motion
<1> QED
  BY <1>1, <1>2, <1>3 DEF Fields, Executing, Asking, IsNew

\* the loop goes past an entry that asks for nothing there is, or calls it
LEMMA MarkExecute ==
    ASSUME MarkInv, TableInv,
           \/ Begin \/ SkipCallback \/ RunQuaternion \/ RunCorrection \/ RunResults \/ RunHal
           \/ CheckNew
    PROVE  MarkInv'
<1> USE DEF MarkInv
<1>1. UNCHANGED <<process, sensors, startCb, started, asking, reported>>
  BY DEF Begin, SkipCallback, RunQuaternion, RunCorrection, RunResults, RunHal, CheckNew, halVars
<1>2. asking' = 0 /\ \A s \in Sensor : IsNew(s)' <=> IsNew(s)
  BY <1>1 DEF Begin, SkipCallback, RunQuaternion, RunCorrection, RunResults, RunHal, CheckNew,
              Ready, Calls, Skip, ReadNew, Fields, Executing, TableInv, TableOK, IsNew
<1>3. CASE Begin
  <2>1. exec' = [Idle EXCEPT !.kk = 1, !.mode = Mode] /\ hal' = hal /\ started = Len(startCb)
    BY <1>3 DEF Begin, ExecuteBegin, halVars, Ready, Running
  <2>2. Mode \in SUBSET Sensor
    BY DEF Mode, Sensor
  <2>3. exec'.kk = 1 /\ exec'.mode = Mode
    BY <2>1 DEF Idle
  <2>4. Fields'
    BY <1>1, <2>1, <2>2 DEF Fields, Idle, Execution
  <2>5. \A s \in Sensor \ {"quat"} : IsNew(s) => s \in Mode
    BY DEF Mode
  <2>6. Executing'
    BY <1>1, <1>2, <2>1, <2>3, <2>5 DEF Executing, TableInv, TableOK
  <2> QED
    BY <1>1, <1>2, <2>1, <2>4, <2>6 DEF Asking, Sensor, Motion
<1>4. ASSUME exec.kk \in DOMAIN process,
             NEW f \in SUBSET Called, exec' = [exec EXCEPT !.kk = @ + 1, !.called = @ \cup f],
             process[exec.kk].required \cap exec.mode # {} => process[exec.kk].func \in f
      PROVE  Executing' /\ exec' \in Execution
  <2>1. exec \in Execution
    BY DEF Fields
  <2>2. exec' = [kk |-> exec.kk + 1, mode |-> exec.mode, called |-> exec.called \cup f,
                 fresh |-> exec.fresh]
    BY <1>4, <2>1 DEF Execution
  <2>3. exec.kk > 0
    BY <1>4 DEF TableInv, TableOK
  <2>4. \A i \in DOMAIN process : i < exec.kk + 1 => (i < exec.kk \/ i = exec.kk)
    BY <2>1 DEF TableInv, TableOK, Execution
  <2>5. Executing'
    BY <1>1, <1>2, <1>4, <2>2, <2>3, <2>4 DEF Executing
  <2>6. exec.kk + 1 \in Nat /\ (exec.called \cup f) \in SUBSET Called
    BY <2>1, <1>4 DEF Execution
  <2>7. exec' \in Execution
    BY <2>1, <2>2, <2>6 DEF Execution
  <2> QED
    BY <2>5, <2>7
<1>5. CASE SkipCallback
  <2>1. exec' = [exec EXCEPT !.kk = @ + 1, !.called = @ \cup {}] /\ hal' = hal
    BY <1>5 DEF SkipCallback, Skip, halVars, Fields
  <2>2. Executing' /\ Fields'
    BY <1>1, <1>4, <1>5, <2>1 DEF SkipCallback, Skip, Fields
  <2> QED
    BY <1>1, <1>2, <2>1, <2>2 DEF Asking, Sensor, Motion
<1>6. CASE RunQuaternion \/ RunCorrection \/ RunResults
  <2>1. hal' = hal
    BY <1>6 DEF RunQuaternion, RunCorrection, RunResults, halVars
  <2>2. PICK f \in {"quaternion", "correction", "results"} : Calls(f) /\ Return(f)
    BY <1>6 DEF RunQuaternion, RunCorrection, RunResults
  <2>3. {f} \in SUBSET Called /\ exec' = [exec EXCEPT !.kk = @ + 1, !.called = @ \cup {f}]
    BY <2>2 DEF Return, Called
  <2>4. Executing' /\ exec' \in Execution
    BY <1>4, <2>2, <2>3 DEF Calls
  <2>5. Fields'
    BY <1>1, <2>1, <2>4 DEF Fields
  <2> QED
    BY <1>1, <1>2, <2>1, <2>4, <2>5 DEF Asking, Sensor, Motion
<1>7. CASE RunHal
  <2>1. Calls("hal") /\ Return("hal")
    BY <1>7 DEF RunHal
  <2>2. hal'.new = {s \in Updates : IsNew(s)} /\ "new" \in DOMAIN hal'
    BY <1>7 DEF RunHal
  <2>3. {"hal"} \in SUBSET Called /\ exec' = [exec EXCEPT !.kk = @ + 1, !.called = @ \cup {"hal"}]
    BY <2>1 DEF Return, Called
  <2>4. Executing' /\ exec' \in Execution
    BY <1>4, <2>1, <2>3 DEF Calls
  <2>5. Fields'
    BY <1>1, <2>2, <2>4 DEF Fields
  <2>6. "compass" \in Sensor
    BY DEF Sensor, Motion
  <2> QED
    BY <1>1, <1>2, <2>2, <2>4, <2>5, <2>6 DEF Asking
<1>8. CASE CheckNew
  <2>1. hal' = hal /\ exec' = [exec EXCEPT !.kk = @ + 1, !.fresh = {s \in Sensor : IsNew(s)}]
    BY <1>8 DEF CheckNew, ReadNew, halVars
  <2>2. exec.kk = Len(process) + 1 /\ Len(process) \in Nat /\ DOMAIN process = 1 .. Len(process)
    BY <1>8 DEF CheckNew, ReadNew, TableInv, TableOK
  <2>3. exec \in Execution
    BY DEF Fields
  <2>4. /\ exec'.kk = exec.kk + 1 /\ exec'.mode = exec.mode /\ exec'.called = exec.called
        /\ exec' \in Execution
    <3>1. exec' = [kk |-> exec.kk + 1, mode |-> exec.mode, called |-> exec.called,
                   fresh |-> {s \in Sensor : IsNew(s)}]
      BY <2>1, <2>3 DEF Execution
    <3>2. exec.kk + 1 \in Nat /\ {s \in Sensor : IsNew(s)} \in SUBSET Sensor
      BY <2>3 DEF Execution
    <3> QED
      BY <2>3, <3>1, <3>2 DEF Execution
  <2>5. \A i \in DOMAIN process : i < exec.kk
    BY <2>2
  <2>6. Executing'
    BY <1>1, <1>2, <2>2, <2>4, <2>5 DEF Executing
  <2>7. Fields'
    BY <1>1, <2>1, <2>4 DEF Fields
  <2> QED
    BY <1>1, <1>2, <2>1, <2>6, <2>7 DEF Asking, Sensor, Motion
<1> QED
  BY <1>3, <1>5, <1>6, <1>7, <1>8

\* the marks go, and the outputs are asked
LEMMA MarkEnd ==
    ASSUME MarkInv, End
    PROVE  MarkInv'
<1> USE DEF MarkInv
<1>1. sensors' = SetContiguous(exec.fresh) /\ exec' = Idle /\ asking' = 1
  BY DEF End, ExecuteEnd
<1>2. UNCHANGED <<process, startCb, started, hal, reported>>
  BY DEF End, ExecuteEnd
<1>3. DOMAIN sensors' = Sensor
  BY <1>1 DEF SetContiguous
<1>4. \A s \in Sensor : "status" \in DOMAIN sensors'[s] /\ ~IsNew(s)'
  BY <1>1 DEF SetContiguous, IsNew, Fields
<1>5. Fields'
  BY <1>1, <1>2, <1>3, <1>4 DEF Fields, Idle, Execution
<1>6. exec'.kk = 0 /\ "compass" \in Sensor
  BY <1>1 DEF Idle, Sensor, Motion
<1> QED
  BY <1>2, <1>4, <1>5, <1>6 DEF Executing, Asking

\* a compass sample that is reported is forgotten in the same step
LEMMA MarkAsk ==
    ASSUME MarkInv, (\E s \in Updates : GetUpdate(s)) \/ GetMagneticField \/ GetFused \/ NotAsked
    PROVE  MarkInv'
<1> USE DEF MarkInv
<1>1. asking # 0 /\ UNCHANGED <<process, sensors, exec, startCb, started>>
  BY DEF GetUpdate, GetMagneticField, GetFused, NotAsked, Asks, Handlers, dataVars
<1>2. exec.kk = 0 /\ \A s \in Sensor : ~IsNew(s)
  BY <1>1 DEF Asking
<1>3. asking' \in Nat
  BY DEF GetUpdate, GetMagneticField, GetFused, NotAsked, Asked, Fields
<1>4. "new" \in DOMAIN hal' /\ ("compass" \in hal'.new => "compass" \notin reported')
  <2>1. CASE GetMagneticField
    BY <2>1 DEF GetMagneticField, Fields
  <2>2. CASE \E s \in Updates : GetUpdate(s)
    BY <2>2 DEF GetUpdate, Report, Fields, Asking
  <2>3. CASE GetFused \/ NotAsked
    BY <2>3 DEF GetFused, NotAsked, Fields, Asking
  <2> QED
    BY <2>1, <2>2, <2>3
<1>5. \A s \in Sensor : ~IsNew(s)'
  BY <1>1, <1>2 DEF IsNew
<1>6. "compass" \in Sensor
  BY DEF Sensor, Motion
<1> QED
  BY <1>1, <1>2, <1>3, <1>4, <1>5, <1>6 DEF Fields, Executing, Asking

LEMMA MarkOff ==
    ASSUME MarkInv, NEW s \in Sensor, TurnOff(s)
    PROVE  MarkInv'
<1> USE DEF MarkInv
<1>1. UNCHANGED <<process, exec, startCb, started, hal, asking, reported>>
  BY DEF TurnOff
<1>2. sensors' = [sensors EXCEPT ![s].status = {}]
  BY DEF TurnOff, WasTurnedOff
<1>3. /\ DOMAIN sensors' = Sensor /\ \A t \in Sensor : "status" \in DOMAIN sensors'[t]
      /\ \A t \in Sensor : IsNew(t)' => IsNew(t)
  BY <1>2 DEF Fields, IsNew
<1>4. "compass" \in Sensor
  BY DEF Sensor, Motion
<1> QED
  BY <1>1, <1>3, <1>4 DEF Fields, Executing, Asking

LEMMA MarkStep == MarkInv /\ TableInv /\ [Next]_vars => MarkInv'
<1> SUFFICES ASSUME MarkInv, TableInv, [Next]_vars PROVE MarkInv'
  OBVIOUS
<1>1. CASE UNCHANGED vars
  BY <1>1 DEF vars, dataVars, halVars, MarkInv, Fields, Executing, Asking, IsNew
<1>2. CASE Next
  BY <1>2, MarkStart, MarkBuild, MarkExecute, MarkEnd, MarkAsk, MarkOff DEF Next
<1> QED
  BY <1>1, <1>2

(* inv_execute_on_data: for every table, a new sample loses its mark only  *)
(* after all callbacks registered for its sensor have been called.         *)
THEOREM NoSampleMissed == Spec => SampleSeenByAll
<1>1. MarkInv /\ TableInv =>
        \A s \in Sensor \ {"quat"} :
            (IsNew(s) /\ End /\ ~IsNew(s)') =>
                \A i \in DOMAIN process :
                    s \in process[i].required => process[i].func \in exec.called
  <2> SUFFICES ASSUME MarkInv, TableInv, End, NEW s \in Sensor \ {"quat"}, IsNew(s),
                      NEW i \in DOMAIN process, s \in process[i].required
               PROVE  process[i].func \in exec.called
    OBVIOUS
  <2>1. exec.kk = Len(process) + 2 /\ Len(process) \in Nat /\ DOMAIN process = 1 .. Len(process)
    BY DEF End, ExecuteEnd, TableInv, TableOK
  <2>2. exec.kk > 0 /\ i < exec.kk
    BY <2>1
  <2>3. s \in exec.mode
    BY <2>2 DEF MarkInv, Executing
  <2> QED
    BY <2>2, <2>3 DEF MarkInv, Executing
<1> QED
  BY <1>1, TableInit, TableStep, MarkInit, MarkStep, PTL DEF Spec, SampleSeenByAll

(* inv_get_sensor_type_magnetic_field: a compass sample is an update once, *)
(* whenever the callback of the outputs runs.                              *)
THEOREM MagneticFieldOnce == Spec => MagReportedOnce
<1>1. MarkInv => ((GetMagneticField /\ "compass" \in hal.new) => "compass" \notin reported)
  BY DEF MarkInv, Asking
<1> QED
  BY <1>1, TableInit, TableStep, MarkInit, MarkStep, PTL DEF Spec, MagReportedOnce

-----------------------------------------------------------------------------
(* The quaternion of the outputs.                                          *)

\* data_builder.h:43: what stores quaternions and corrections is called before the outputs, and
\* only for sensors the outputs are called for too
Known(e) ==
    /\ e.func \in {"quaternion", "correction"} =>
          e.priority < HalEntry.priority /\ e.required \subseteq Motion \cup {"quat"}
    /\ e.func = "hal" => e = HalEntry

Current == hal.nav = Product(rh.correction, rh.gam)

\* the callback of the outputs has its turn, or has had it, in this execution
HalDone == \E j \in DOMAIN process : j < exec.kk /\ process[j].func = "hal"

\* MPLSensor builds no quaternions: "quat" is never what an execution is for
NoQuat ==
    /\ sensors["quat"].status \cap {"new", "contiguous"} = {}
    /\ "quat" \notin exec.mode /\ "quat" \notin exec.fresh

Entries ==
    /\ \A i \in DOMAIN startCb : Known(startCb[i])
    /\ \A i \in DOMAIN process : Known(process[i])

Navigation ==
    /\ {"gam", "correction", "nav", "status"} \subseteq DOMAIN rh
    /\ {"nav", "nineAxis"} \subseteq DOMAIN hal
    /\ rh.status = {} => rh.nav = Product(rh.correction, rh.gam)

\* between two executions the outputs are current; within one, until a feature is called, and
\* again from the moment the outputs have been, which come after all features
Outputs ==
    hal.nineAxis =>
        /\ started = Len(startCb)
        /\ \E j \in DOMAIN process : process[j] = HalEntry
        /\ (exec.kk = 0 \/ exec.mode \cap Motion = {} \/ HalDone) => Current

NavInv == Entries /\ NoQuat /\ Navigation /\ Outputs

LEMMA NavInit ==
    ASSUME \A i \in DOMAIN Features : Known(Features[i]), Init
    PROVE  NavInv
<1>1. Known(ResultsEntry)
  BY DEF Known, ResultsEntry
<1>2. Entries
  BY <1>1 DEF Entries, Init, DataInit
<1>3. NoQuat
  BY DEF NoQuat, Init, DataInit, Cleared, Idle, Sensor
<1>4. Navigation
  BY DEF Navigation, Init, ResultsInit
<1>5. Outputs
  BY DEF Outputs, Init
<1> QED
  BY <1>2, <1>3, <1>4, <1>5 DEF NavInv

\* nothing the quaternion depends on changes
LEMMA NavSame ==
    ASSUME NavInv,
           UNCHANGED <<process, startCb, started, exec, rh, hal>>,
           sensors'["quat"].status \cap {"new", "contiguous"} = {}
    PROVE  NavInv'
  BY DEF NavInv, Entries, Known, NoQuat, Navigation, Outputs, HalDone, Current

LEMMA NavStart ==
    ASSUME NavInv, MarkInv, TableInv, \A i \in DOMAIN Features : Known(Features[i]),
           EnableFeature \/ StartMpl \/ StartNext
    PROVE  NavInv'
<1>1. UNCHANGED <<sensors, exec, rh, hal>> /\ started # Len(startCb)
  BY DEF EnableFeature, StartMpl, StartNext, dataVars, TableInv
<1>2. ~hal.nineAxis
  BY <1>1 DEF NavInv, Outputs
<1>3. CASE EnableFeature
  <2>1. startCb' = Append(startCb, Features[Len(startCb)]) /\ process' = process
    BY <1>3 DEF EnableFeature, dataVars
  <2>2. Len(startCb) \in DOMAIN Features
    BY <1>3 DEF EnableFeature, TableInv
  <2>3. \A i \in DOMAIN startCb' : Known(startCb'[i])
    <3> SUFFICES ASSUME NEW i \in DOMAIN startCb' PROVE Known(startCb'[i])
      OBVIOUS
    <3>1. CASE i = Len(startCb) + 1
      BY <2>1, <2>2, <3>1 DEF TableInv
    <3>2. CASE i # Len(startCb) + 1
      <4>1. i \in DOMAIN startCb /\ startCb'[i] = startCb[i]
        BY <2>1, <3>2 DEF TableInv
      <4> QED
        BY <4>1 DEF NavInv, Entries
    <3> QED
      BY <3>1, <3>2
  <2>4. Entries'
    BY <2>1, <2>3 DEF NavInv, Entries, Known
  <2> QED
    BY <1>1, <1>2, <2>4 DEF NavInv, NoQuat, Navigation, Outputs
<1>4. CASE StartMpl
  <2>1. Entries'
    BY <1>4 DEF NavInv, Entries, Known, StartMpl, dataVars
  <2> QED
    BY <1>1, <1>2, <2>1 DEF NavInv, NoQuat, Navigation, Outputs
<1>5. CASE StartNext
  <2> DEFINE e == startCb[started + 1]
             x == [func |-> e.func, priority |-> e.priority, required |-> e.required]
  <2>1. Register(e.func, e.priority, e.required) /\ started + 1 \in DOMAIN startCb /\ startCb' = startCb
    BY <1>5 DEF StartNext, TableInv
  <2>2. e \in Entry
    BY <2>1 DEF TableInv
  <2>3. e = x
    BY <2>2 DEF Entry
  <2>4. Known(x)
    BY <2>1, <2>3 DEF NavInv, Entries
  <2> HIDE DEF x
  <2>5. \A i \in DOMAIN process' : process'[i] = x \/ \E j \in DOMAIN process : process'[i] = process[j]
    <3>1. CASE process' = process
      BY <3>1
    <3>2. CASE process' = Inserted(Place(e.priority), x)
      <4>1. Place(e.priority) \in 1 .. Len(process) + 1
        BY <2>2, PlaceOK DEF TableInv, Entry
      <4>2. DOMAIN process' = 1 .. Len(process) + 1 /\ DOMAIN process = 1 .. Len(process) /\ Len(process) \in Nat
        BY <3>2 DEF Inserted, TableInv, TableOK
      <4> SUFFICES ASSUME NEW i \in 1 .. Len(process) + 1
                   PROVE  process'[i] = x \/ \E j \in DOMAIN process : process'[i] = process[j]
        BY <4>2
      <4>3. process'[i] = IF i < Place(e.priority) THEN process[i]
                          ELSE IF i = Place(e.priority) THEN x ELSE process[i - 1]
        BY <3>2 DEF Inserted
      <4> QED
        BY <4>1, <4>2, <4>3
    <3> QED
      BY <2>1, <3>1, <3>2 DEF Register, x
  <2>6. \A i \in DOMAIN process : Known(process[i])
    BY DEF NavInv, Entries
  <2>7. \A i \in DOMAIN process' : Known(process'[i])
    BY <2>4, <2>5, <2>6
  <2>8. Entries'
    BY <2>1, <2>7 DEF NavInv, Entries, Known
  <2> QED
    BY <1>1, <1>2, <2>8 DEF NavInv, NoQuat, Navigation, Outputs
<1> QED
  BY <1>3, <1>4, <1>5

LEMMA NavBuild ==
    ASSUME NavInv, MarkInv, "quat" \notin Built, NEW s \in Sensor, Build(s) \/ TurnOff(s)
    PROVE  NavInv'
<1>1. UNCHANGED <<process, startCb, started, exec, rh, hal>>
  BY DEF Build, TurnOff
<1>2. s # "quat" => sensors'["quat"] = sensors["quat"]
  <2>1. CASE Build(s)
    <3>1. Fields
      BY DEF MarkInv
    <3>2. PICK x \in Sample : Builder(s, x)
      BY <2>1 DEF Build
    <3> QED
      BY <3>1, <3>2, BuilderOK DEF Sensor
  <2>2. CASE TurnOff(s)
    BY <2>2 DEF TurnOff, WasTurnedOff, MarkInv, Fields
  <2> QED
    BY <2>1, <2>2
<1>3. s # "quat"
  BY DEF Build, TurnOff
<1> QED
  BY <1>1, <1>2, <1>3, NavSame DEF NavInv, NoQuat

\* a feature is called before the outputs: they are not done, and there is something to do
LEMMA FeatureCalled ==
    ASSUME NavInv, MarkInv, TableInv, NEW f \in {"quaternion", "correction"}, Calls(f)
    PROVE  /\ exec.kk # 0
           /\ exec.mode \cap Motion # {}
           /\ hal.nineAxis =>
                 ~(\E j \in DOMAIN process : j < exec.kk + 1 /\ process[j].func = "hal")
<1> DEFINE e == process[exec.kk]
<1>1. exec.kk \in DOMAIN process /\ e.func = f /\ e.required \cap exec.mode # {}
  BY DEF Calls
<1>2. Known(e) /\ e \in Entry
  BY <1>1 DEF NavInv, Entries, TableInv, TableOK
<1>3. e.priority < HalEntry.priority /\ e.required \subseteq Motion \cup {"quat"}
  BY <1>1, <1>2 DEF Known
<1>4. exec.mode \cap Motion # {}
  BY <1>1, <1>3 DEF NavInv, NoQuat
<1>5. exec.kk # 0
  BY <1>1 DEF TableInv, TableOK
<1>6. ASSUME NEW j \in DOMAIN process, j < exec.kk + 1, process[j].func = "hal"
      PROVE  FALSE
  <2>1. process[j] = HalEntry
    BY <1>6 DEF NavInv, Entries, Known
  <2>2. j # exec.kk /\ j < exec.kk
    BY <1>1, <1>6 DEF TableInv, TableOK, MarkInv, Fields, Execution
  <2>3. process[j].priority < e.priority
    BY <1>1, <2>2 DEF TableInv, TableOK, TableOrdered
  <2> QED
    BY <1>2, <1>3, <2>1, <2>3 DEF Entry, HalEntry
<1> QED
  BY <1>4, <1>5, <1>6

LEMMA NavExecute ==
    ASSUME NavInv, MarkInv, TableInv,
           \/ Begin \/ SkipCallback \/ RunQuaternion \/ RunCorrection \/ RunResults \/ RunHal
           \/ CheckNew
    PROVE  NavInv'
<1>1. UNCHANGED <<process, sensors, startCb, started>>
  BY DEF Begin, SkipCallback, RunQuaternion, RunCorrection, RunResults, RunHal, CheckNew, halVars
<1>2. Entries'
  BY <1>1 DEF NavInv, Entries, Known
<1>3. exec \in Execution /\ DOMAIN process = 1 .. Len(process) /\ Len(process) \in Nat
  BY DEF MarkInv, Fields, TableInv, TableOK
<1>4. ASSUME NEW called, exec' = [exec EXCEPT !.kk = @ + 1, !.called = called]
      PROVE  /\ exec'.kk = exec.kk + 1 /\ exec'.mode = exec.mode /\ exec'.kk # 0
             /\ NoQuat'
  BY <1>1, <1>3, <1>4 DEF Execution, NavInv, NoQuat
<1>5. CASE Begin
  <2>1. exec' = [Idle EXCEPT !.kk = 1, !.mode = Mode] /\ exec.kk = 0 /\ UNCHANGED <<rh, hal>>
    BY <1>5 DEF Begin, ExecuteBegin, halVars
  <2>2. NoQuat'
    BY <1>1, <2>1 DEF NavInv, NoQuat, Mode, Idle
  <2>3. hal.nineAxis => Current
    BY <2>1 DEF NavInv, Outputs
  <2> QED
    BY <1>1, <1>2, <2>1, <2>2, <2>3 DEF NavInv, Navigation, Outputs, Current
<1>6. CASE SkipCallback \/ RunResults
  <2>1. UNCHANGED <<rh, hal>> /\ exec.kk \in DOMAIN process
    BY <1>6 DEF SkipCallback, Skip, RunResults, Calls, halVars
  <2>2. PICK called : exec' = [exec EXCEPT !.kk = @ + 1, !.called = called]
    <3>1. CASE SkipCallback
      <4>1. exec' = [exec EXCEPT !.kk = @ + 1, !.called = exec.called]
        BY <1>3, <3>1 DEF SkipCallback, Skip, Execution
      <4> QED
        BY <4>1
    <3>2. CASE RunResults
      <4>1. exec' = [exec EXCEPT !.kk = @ + 1, !.called = exec.called \cup {"results"}]
        BY <1>3, <3>2 DEF RunResults, Return, Execution
      <4> QED
        BY <4>1
    <3> QED
      BY <1>6, <3>1, <3>2
  <2>3. process[exec.kk].func = "hal" => exec.mode \cap Motion = {}
    <3>1. CASE SkipCallback
      <4>1. process[exec.kk].required \cap exec.mode = {}
        BY <3>1 DEF SkipCallback, Skip
      <4>2. process[exec.kk].func = "hal" => process[exec.kk].required = Motion
        BY <2>1 DEF NavInv, Entries, Known, HalEntry
      <4> QED
        BY <4>1, <4>2
    <3>2. CASE RunResults
      BY <3>2 DEF RunResults, Calls
    <3> QED
      BY <1>6, <3>1, <3>2
  <2>4. exec.kk \in Nat /\ exec'.kk = exec.kk + 1 /\ exec'.mode = exec.mode /\ NoQuat'
    BY <1>3, <1>4, <2>2 DEF Execution
  <2>5. HalDone' => HalDone \/ exec.mode \cap Motion = {}
    BY <1>1, <1>3, <2>3, <2>4 DEF HalDone
  <2>6. Outputs'
    BY <1>1, <2>1, <2>4, <2>5 DEF NavInv, Outputs, Current
  <2> QED
    BY <1>2, <2>1, <2>4, <2>6 DEF NavInv, Navigation
<1>7. CASE RunQuaternion \/ RunCorrection
  <2>1. PICK f \in {"quaternion", "correction"} : Calls(f) /\ Return(f)
    BY <1>7 DEF RunQuaternion, RunCorrection
  <2>2. hal' = hal
    BY <1>7 DEF RunQuaternion, RunCorrection, halVars
  <2>3. Navigation'
    <3>1. PICK q \in Quat : StoreGamingQuaternion(q) \/ SetCompassCorrection(q)
      BY <1>7 DEF RunQuaternion, RunCorrection
    <3>2. DOMAIN rh' = DOMAIN rh /\ rh'.status # {}
      BY <3>1 DEF StoreGamingQuaternion, SetCompassCorrection, NavInv, Navigation
    <3> QED
      BY <2>2, <3>2 DEF NavInv, Navigation
  <2>4. /\ exec.mode \cap Motion # {}
        /\ hal.nineAxis =>
              ~(\E j \in DOMAIN process : j < exec.kk + 1 /\ process[j].func = "hal")
    BY <2>1, FeatureCalled
  <2>5. exec'.kk = exec.kk + 1 /\ exec'.mode = exec.mode /\ exec'.kk # 0 /\ NoQuat'
    BY <1>4, <2>1 DEF Return
  <2>6. Outputs'
    BY <1>1, <2>2, <2>4, <2>5 DEF NavInv, Outputs, HalDone
  <2> QED
    BY <1>2, <2>3, <2>5, <2>6 DEF NavInv
<1>8. CASE RunHal
  <2>1. Calls("hal") /\ Return("hal") /\ rh' = Navigated
    BY <1>8 DEF RunHal
  <2>2. hal'.nav = rh'.nav /\ {"nav", "nineAxis"} \subseteq DOMAIN hal'
    BY <1>8 DEF RunHal
  <2>3. rh'.nav = Product(rh'.correction, rh'.gam) /\ Navigation'
    BY <2>1, <2>2 DEF Navigated, NavInv, Navigation
  <2>4. exec'.kk = exec.kk + 1 /\ exec'.mode = exec.mode /\ NoQuat'
    BY <1>4, <2>1 DEF Return
  <2>5. started = Len(startCb)
    <3>1. exec.kk > 0
      BY <1>3, <2>1 DEF Calls
    <3> QED
      BY <3>1 DEF MarkInv, Executing
  <2>6. \E j \in DOMAIN process : process[j] = HalEntry
    BY <2>1 DEF Calls, NavInv, Entries, Known
  <2>7. Outputs'
    BY <1>1, <2>2, <2>3, <2>5, <2>6 DEF Outputs, Current
  <2> QED
    BY <1>2, <2>3, <2>4, <2>7 DEF NavInv
<1>9. CASE CheckNew
  <2>1. /\ exec' = [exec EXCEPT !.kk = @ + 1, !.fresh = {s \in Sensor : IsNew(s)}]
        /\ exec.kk = Len(process) + 1 /\ UNCHANGED <<rh, hal>>
    BY <1>9 DEF CheckNew, ReadNew, halVars
  <2>2. exec'.kk = exec.kk + 1 /\ exec'.mode = exec.mode /\ exec'.fresh = {s \in Sensor : IsNew(s)}
    BY <1>3, <2>1 DEF Execution
  <2>3. NoQuat'
    BY <1>1, <2>2 DEF NavInv, NoQuat, IsNew
  <2>4. HalDone' => HalDone
    BY <1>1, <1>3, <2>1, <2>2 DEF HalDone
  <2>5. Outputs'
    BY <1>1, <1>3, <2>1, <2>2, <2>4 DEF NavInv, Outputs, Current
  <2> QED
    BY <1>2, <2>1, <2>3, <2>5 DEF NavInv, Navigation
<1> QED
  BY <1>5, <1>6, <1>7, <1>8, <1>9

LEMMA NavEnd ==
    ASSUME NavInv, MarkInv, TableInv, End
    PROVE  NavInv'
<1>1. /\ sensors' = SetContiguous(exec.fresh) /\ exec' = Idle /\ exec.kk = Len(process) + 2
      /\ UNCHANGED <<process, startCb, started, rh, hal>>
  BY DEF End, ExecuteEnd
<1>2. sensors'["quat"].status \cap {"new", "contiguous"} = {}
  <2>1. "quat" \in Sensor /\ "status" \in DOMAIN sensors["quat"]
    BY DEF Sensor, MarkInv, Fields
  <2>2. sensors'["quat"] = [sensors["quat"] EXCEPT !.status =
            (IF "quat" \in exec.fresh THEN @ \cup {"contiguous"} ELSE @) \ {"new"}]
    BY <1>1, <2>1 DEF SetContiguous
  <2>3. sensors'["quat"].status = sensors["quat"].status \ {"new"}
    BY <2>1, <2>2 DEF NavInv, NoQuat
  <2> QED
    BY <2>3 DEF NavInv, NoQuat
<1>3. NoQuat'
  BY <1>1, <1>2 DEF NoQuat, Idle
<1>4. hal.nineAxis => HalDone
  <2> SUFFICES ASSUME hal.nineAxis PROVE HalDone
    OBVIOUS
  <2>1. PICK j \in DOMAIN process : process[j] = HalEntry
    BY DEF NavInv, Outputs
  <2>2. j < exec.kk
    BY <1>1 DEF TableInv, TableOK
  <2> QED
    BY <2>1, <2>2 DEF HalDone, HalEntry
<1>5. Outputs'
  BY <1>1, <1>4 DEF NavInv, Outputs, Current
<1> QED
  BY <1>1, <1>3, <1>5 DEF NavInv, Entries, Known, Navigation

LEMMA NavAsk ==
    ASSUME NavInv, (\E s \in Updates : GetUpdate(s)) \/ GetMagneticField \/ GetFused \/ NotAsked
    PROVE  NavInv'
<1>1. UNCHANGED <<process, sensors, exec, startCb, started, rh>>
  BY DEF GetUpdate, GetMagneticField, GetFused, NotAsked, dataVars
<1>2. DOMAIN hal' = DOMAIN hal /\ hal'.nav = hal.nav /\ hal'.nineAxis = hal.nineAxis
  <2>1. hal' = hal \/ hal' = [hal EXCEPT !.new = hal.new \ {"compass"}]
    BY DEF GetUpdate, GetMagneticField, GetFused, NotAsked
  <2>2. CASE hal' = hal
    BY <2>2
  <2>3. CASE hal' = [hal EXCEPT !.new = hal.new \ {"compass"}]
    BY <2>3 DEF NavInv, Navigation
  <2> QED
    BY <2>1, <2>2, <2>3
<1> QED
  BY <1>1, <1>2 DEF NavInv, Entries, Known, NoQuat, Navigation, Outputs, HalDone, Current

LEMMA NavStep ==
    ASSUME \A i \in DOMAIN Features : Known(Features[i]), "quat" \notin Built,
           NavInv, MarkInv, TableInv, [Next]_vars
    PROVE  NavInv'
<1>1. CASE UNCHANGED vars
  BY <1>1, NavSame DEF vars, dataVars, halVars, NavInv, NoQuat
<1>2. CASE Next
  BY <1>2, NavStart, NavBuild, NavExecute, NavEnd, NavAsk DEF Next
<1> QED
  BY <1>1, <1>2

(* results_holder.c, hal_outputs.c: fused sensors are reported from what   *)
(* the features of the same execution stored, for every set of features    *)
(* with the priorities of data_builder.h, in whichever order they were     *)
(* enabled.                                                                *)
THEOREM QuaternionIsCurrent ==
    ASSUME \A i \in DOMAIN Features : Known(Features[i]), "quat" \notin Built
    PROVE  Spec => []HalQuatIsCurrent
<1>1. Init => NavInv /\ MarkInv /\ TableInv
  BY NavInit, MarkInit, TableInit
<1>2. NavInv /\ MarkInv /\ TableInv /\ [Next]_vars => NavInv' /\ MarkInv' /\ TableInv'
  BY NavStep, MarkStep, TableStep
<1>3. NavInv /\ MarkInv => HalQuatIsCurrent
  BY DEF NavInv, Outputs, Current, MarkInv, Asking, HalQuatIsCurrent
<1> QED
  BY <1>1, <1>2, <1>3, PTL DEF Spec
=============================================================================
