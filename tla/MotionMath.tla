----------------------------- MODULE MotionMath -----------------------------
(***************************************************************************)
(* The mathematics of the motion library (drivers/sensors/mlsdk/mllite/    *)
(* ml_math_func.c, and the conversions of data_builder.c and               *)
(* results_holder.c that use it): fixed point in a `long`, quaternions,    *)
(* rotations, the mounting of chips, angles, bytes and the checksum of the *)
(* calibration.                                                            *)
(*                                                                         *)
(* A word is a number of so many values, 2^32 for a `long`, 2^16 for a     *)
(* `short`; 1.0 is 2^30 of them.  TLC takes bytes of 8 values, words of    *)
(* 2^12 and 2^10 for 1.0, so that sums of products overflow as they do in  *)
(* the code: 2.0 does not fit a `long`, and what a sum passes through is   *)
(* what the processor leaves of it (in C it is undefined).  Floating point *)
(* is left to exact integers; functions with a square root or an arc       *)
(* (normalising, and the last step of a heading) are left out.  A call of  *)
(* the library takes one step, from its input to its result.               *)
(***************************************************************************)
EXTENDS Integers, FiniteSets, Sequences, FiniteSetsExt

CONSTANTS
    ByteSize,     \* 2^8; a long has four bytes, a short two
    One,          \* 2^30 is 1.0
    HalfTurn,     \* M_PI
    Numbers       \* components of vectors: as a multiple of 4 at most 1.0

ShortSize == ByteSize * ByteSize
LongSize  == ShortSize * ShortSize
Half      == One \div 2
Vectors   == [1 .. 3 -> Numbers]

ASSUME MathAssumption ==
    /\ {ByteSize, One, HalfTurn} \subseteq Nat \ {0}
    /\ ByteSize % 2 = 0 /\ One % 4 = 0
    /\ 4 * One <= LongSize
    /\ \A n \in Numbers : n \in Int /\ 4 * n \in -One .. One

\* what two's complement keeps of an integer in a word of that many values
Signed(x, size) == ((x + size \div 2) % size) - size \div 2
Long(x)  == Signed(x, LongSize)
Short(x) == Signed(x, ShortSize)

-----------------------------------------------------------------------------
(* Fixed point.  A shift to the right rounds down.                         *)

inv_q_shift_mult(a, b, point) == Long((a * b) \div point)
inv_q29_mult(a, b) == inv_q_shift_mult(a, b, Half)
inv_q30_mult(a, b) == inv_q_shift_mult(a, b, One)

-----------------------------------------------------------------------------
(* Quaternions <<w, x, y, z>>.                                             *)

\* the sums of inv_q_mult and inv_q_multf over the products they take
Hamilton(mult(_, _), q1, q2) ==
    << mult(q1[1], q2[1]) - mult(q1[2], q2[2]) - mult(q1[3], q2[3]) - mult(q1[4], q2[4]),
       mult(q1[1], q2[2]) + mult(q1[2], q2[1]) + mult(q1[3], q2[4]) - mult(q1[4], q2[3]),
       mult(q1[1], q2[3]) - mult(q1[2], q2[4]) + mult(q1[3], q2[1]) + mult(q1[4], q2[2]),
       mult(q1[1], q2[4]) + mult(q1[2], q2[3]) - mult(q1[3], q2[2]) + mult(q1[4], q2[1]) >>

inv_q_mult(q1, q2) ==
    LET q == Hamilton(inv_q30_mult, q1, q2)
    IN <<Long(q[1]), Long(q[2]), Long(q[3]), Long(q[4])>>
inv_q_multf(q1, q2) == Hamilton(LAMBDA a, b : a * b, q1, q2)

inv_q_invert(q) == <<q[1], -q[2], -q[3], -q[4]>>

\* a vector as a quaternion, and back
Pure(v) == <<0, v[1], v[2], v[3]>>
Rest(q) == <<q[2], q[3], q[4]>>

inv_q_rotate_NotInverted(q, v) == Rest(inv_q_mult(inv_q_mult(q, Pure(v)), q))
inv_q_rotate(q, v) == Rest(inv_q_mult(inv_q_mult(q, Pure(v)), inv_q_invert(q)))

\* twice a square less 1.0, and twice a sum or a difference of products
Square(a, b)      == Long(inv_q29_mult(a, a) + inv_q29_mult(b, b) - One)
Plus(a, b, c, d)  == Long(inv_q29_mult(a, b) + inv_q29_mult(c, d))
Minus(a, b, c, d) == Long(inv_q29_mult(a, b) - inv_q29_mult(c, d))

\* three rows, one after the other
inv_quaternion_to_rotation(q) ==
    << Square(q[2], q[1]), Minus(q[2], q[3], q[4], q[1]), Plus(q[2], q[4], q[3], q[1]),
       Plus(q[2], q[3], q[4], q[1]), Square(q[3], q[1]), Minus(q[3], q[4], q[2], q[1]),
       Minus(q[2], q[4], q[3], q[1]), Plus(q[3], q[4], q[2], q[1]), Square(q[4], q[1]) >>

\* the half of the quaternion that stands for both: its first part is not negative
inv_quaternion_to_rotation_vector(q) == IF q[1] < 0 THEN Rest(inv_q_invert(q)) ELSE Rest(q)

\* results_holder.c: what the world's vertical is in the body
inv_get_gravity(q) ==
    << Minus(q[2], q[4], q[3], q[1]), Plus(q[3], q[4], q[2], q[1]), Square(q[4], q[1]) >>

\* rows, and (mlMatrixVectorMult) columns
Dot(a, b, c, x) == Long(inv_q30_mult(a, x[1]) + inv_q30_mult(b, x[2]) + inv_q30_mult(c, x[3]))
inv_matrix_vector_mult(A, x) ==
    << Dot(A[1], A[2], A[3], x), Dot(A[4], A[5], A[6], x), Dot(A[7], A[8], A[9], x) >>
mlMatrixVectorMult(A, x) ==
    << Dot(A[1], A[4], A[7], x), Dot(A[2], A[5], A[8], x), Dot(A[3], A[6], A[9], x) >>

inv_get_cross_product_vec(a, b) ==
    << a[2] * b[3] - a[3] * b[2], a[3] * b[1] - a[1] * b[3], a[1] * b[2] - a[2] * b[1] >>

\* the horizontal direction whose angle inv_compass_angle returns; <<0, 0>> has none
CompassDirection(compass, grav, q) ==
    LET east == Pure(inv_get_cross_product_vec(compass, grav))
        world == inv_q_multf(inv_q_multf(q, east), inv_q_invert(q))
    IN <<world[2], world[3]>>

\* Laplace's expansion of three rows along the first; a minor leaves out row 1 and column j
inv_matrix_det(m) ==
    LET minor(j) == LET left == IF j = 1 THEN 2 ELSE 1
                        right == IF j = 3 THEN 2 ELSE 3
                    IN m[2][left] * m[3][right] - m[2][right] * m[3][left]
    IN m[1][1] * minor(1) - m[1][2] * minor(2) + m[1][3] * minor(3)

-----------------------------------------------------------------------------
(* How a chip is mounted: a matrix of 0, 1 and -1, kept as nine bits.      *)

inv_row_2_scale(row) ==
    IF \A k \in 1 .. 3 : row[k] = 0 THEN 7
    ELSE LET k == Min({i \in 1 .. 3 : row[i] # 0})
         IN k - 1 + IF row[k] < 0 THEN 4 ELSE 0

inv_orientation_matrix_to_scalar(m) ==
    inv_row_2_scale(m[1]) + 8 * inv_row_2_scale(m[2]) + 64 * inv_row_2_scale(m[3])

\* the octal digit of row i: two bits for the column, one for the sign
Digit(orientation, i) == (orientation \div <<1, 8, 64>>[i]) % 8
Column(orientation, i) == 1 + (Digit(orientation, i) % 4)
SIGNSET(orientation, i) == IF Digit(orientation, i) >= 4 THEN -1 ELSE 1

inv_convert_to_body(orientation, input) ==
    [i \in 1 .. 3 |-> input[Column(orientation, i)] * SIGNSET(orientation, i)]

inv_convert_to_chip_AsToBody(orientation, input) == inv_convert_to_body(orientation, input)
inv_convert_to_chip(orientation, input) ==
    [k \in 1 .. 3 |->
        LET i == CHOOSE j \in 1 .. 3 : Column(orientation, j) = k
        IN input[i] * SIGNSET(orientation, i)]

inv_convert_to_body_with_scale(orientation, sensitivity, input) ==
    [i \in 1 .. 3 |-> inv_q30_mult(
        Long(input[Column(orientation, i)] * SIGNSET(orientation, i)), sensitivity)]

\* inv_apply_calibration: raw_scaled, and calibrated less the bias, which is twice as fine
inv_apply_calibration(orientation, sensitivity, raw, bias) ==
    LET scaled     == [i \in 1 .. 3 |-> Long(raw[i] * (ShortSize \div 2))]
        calibrated == [i \in 1 .. 3 |-> Long(scaled[i] - (bias[i] \div 2))]
        body(v)    == inv_convert_to_body_with_scale(orientation, Long(2 * sensitivity), v)
    IN [raw_scaled |-> body(scaled), calibrated |-> body(calibrated)]

-----------------------------------------------------------------------------
(* Angles.                                                                 *)

inv_wrap_angle(ang) ==
    IF ang > HalfTurn THEN ang - 2 * HalfTurn
    ELSE IF ang <= -HalfTurn THEN ang + 2 * HalfTurn
    ELSE ang

inv_angle_diff_OneSided(ang1, ang2) ==
    LET d == inv_wrap_angle(ang1) - inv_wrap_angle(ang2)
    IN IF d > HalfTurn THEN d - 2 * HalfTurn ELSE d
inv_angle_diff(ang1, ang2) ==
    LET d == inv_wrap_angle(ang1) - inv_wrap_angle(ang2)
    IN IF d > HalfTurn THEN d - 2 * HalfTurn
       ELSE IF d < -HalfTurn THEN d + 2 * HalfTurn
       ELSE d

-----------------------------------------------------------------------------
(* Bytes.                                                                  *)

Byte(x, place) == (x \div place) % ByteSize

inv_int32_to_big8(x) ==
    << Byte(x, ByteSize * ShortSize), Byte(x, ShortSize), Byte(x, ByteSize), Byte(x, 1) >>
inv_int16_to_big8(x) == <<Byte(x, ByteSize), Byte(x, 1)>>

inv_big8_to_int32(big8) ==
    Long(big8[1] * (ByteSize * ShortSize) + big8[2] * ShortSize + big8[3] * ByteSize + big8[4])
inv_big8_to_int16(big8)       == Short(big8[1] * ByteSize + big8[2])
inv_little8_to_int16(little8) == Short(little8[2] * ByteSize + little8[1])

\* hash * 33 + c, in a word as long as a long
Hash(hash, c) == (33 * hash + c) % LongSize
inv_checksum_Sum(bytes) ==
    LET hash[i \in 0 .. Len(bytes)] == IF i = 0 THEN 5381 ELSE (hash[i - 1] + bytes[i]) % LongSize
    IN hash[Len(bytes)]
inv_checksum(bytes) ==
    LET hash[i \in 0 .. Len(bytes)] == IF i = 0 THEN 5381 ELSE Hash(hash[i - 1], bytes[i])
    IN hash[Len(bytes)]

-----------------------------------------------------------------------------
(* Calls.                                                                  *)

VARIABLES input, result
mathVars == <<input, result>>

\* the 24 quaternions of unit length made of halves; their products are exact
Turns ==
    {q \in [1 .. 4 -> {-One, 0, One}] : \E i \in 1 .. 4 : \A j \in 1 .. 4 : (q[j] = 0) = (j # i)}
        \cup [1 .. 4 -> {-Half, Half}]

\* two turns by halves leave no fractions
Scaled(v) == [i \in 1 .. 3 |-> 4 * v[i]]

\* the matrices a driver gives: one number other than 0 in each row and column
Mountings ==
    {[i \in 1 .. 3 |-> [k \in 1 .. 3 |-> IF k = p[i] THEN s[i] ELSE 0]] :
        p \in {f \in [1 .. 3 -> 1 .. 3] : \A k \in 1 .. 3 : \E i \in 1 .. 3 : f[i] = k},
        s \in [1 .. 3 -> {1, -1}]}

Angles == -3 * HalfTurn + 1 .. 3 * HalfTurn       \* once round too far, at most
Words  == -(LongSize \div 2) .. LongSize \div 2 - 1

NoResult == [of |-> "nothing"]

MathInit ==
    /\ result = NoResult
    /\ \/ \E q, p \in Turns, v \in Vectors : input = [to |-> "turn", q |-> q, p |-> p, v |-> v]
       \/ \E m \in Mountings, v, b \in Vectors : input = [to |-> "mount", m |-> m, v |-> v, b |-> b]
       \/ \E a, b \in Angles : input = [to |-> "steer", a |-> a, b |-> b]
       \/ \E w \in Words : input = [to |-> "store", w |-> w]

Call(name) == input.to = name /\ result = NoResult /\ UNCHANGED input

\* a vector is turned by p and then by q
Turn ==
    /\ Call("turn")
    /\ result' = [of |-> "turn",
           twice   |-> inv_q_rotate(input.q, inv_q_rotate(input.p, Scaled(input.v))),
           product |-> inv_q_mult(input.q, input.p)]

Mount ==
    /\ Call("mount")
    /\ LET orientation == inv_orientation_matrix_to_scalar(input.m)
       IN result' = [of |-> "mount", orientation |-> orientation,
              body       |-> inv_convert_to_body(orientation, input.v),
              calibrated |-> inv_apply_calibration(orientation, Half, input.v,
                                [i \in 1 .. 3 |-> input.b[i] * ShortSize]).calibrated]

Steer ==
    /\ Call("steer")
    /\ result' = [of |-> "steer", diff |-> inv_angle_diff(input.a, input.b)]

Store ==
    /\ Call("store")
    /\ LET bytes == inv_int32_to_big8(input.w)
       IN result' = [of |-> "store", bytes |-> bytes, checksum |-> inv_checksum(bytes)]

Done == result # NoResult /\ UNCHANGED mathVars

MathNext == Turn \/ Mount \/ Steer \/ Store \/ Done

MathSpec == MathInit /\ [][MathNext]_mathVars

-----------------------------------------------------------------------------
(* Properties.                                                             *)

\* ml_math_func.c, results_holder.c: the four ways to turn a vector agree.  Turning it by two
\* quaternions is turning it by their product; the rotation matrix of the product does the
\* same, by rows, and takes it back, by columns; gravity is its last row; a quaternion and its
\* negative have one rotation vector; and inv_compass_angle turns as they all do.
TurnsAgree ==
    result.of = "turn" =>
        LET v == Scaled(input.v)
            q == result.product
            rot == inv_quaternion_to_rotation(q)
            down == <<0, 0, 1>>
            level == inv_get_cross_product_vec(input.v, down)
            seen == inv_q_rotate(q, Scaled(level))
            heading == CompassDirection(input.v, down, q)
        IN /\ inv_q_rotate(q, v) = result.twice
           /\ inv_matrix_vector_mult(rot, v) = result.twice
           /\ mlMatrixVectorMult(rot, result.twice) = <<v[1], v[2], v[3]>>
           /\ inv_get_gravity(q) = <<rot[7], rot[8], rot[9]>>
           /\ q[1] # 0 => inv_quaternion_to_rotation_vector([i \in 1 .. 4 |-> -q[i]])
                            = inv_quaternion_to_rotation_vector(q)
           /\ <<4 * heading[1], 4 * heading[2]>> = <<One * One * seen[1], One * One * seen[2]>>

\* ml_math_func.c, data_builder.c: however a chip is mounted, the nine bits of its matrix turn
\* a vector as the matrix does and back again, a mirrored mounting is the one with determinant
\* -1, and a bias is taken off in the frame of the chip.
MountingUndone ==
    result.of = "mount" =>
        LET o == result.orientation
            times(v) == [i \in 1 .. 3 |-> input.m[i][1] * v[1] + input.m[i][2] * v[2]
                                            + input.m[i][3] * v[3]]
        IN /\ result.body = times(input.v)
           /\ inv_convert_to_chip(o, result.body) = input.v
           /\ times(inv_get_cross_product_vec(input.v, input.b))
                = [i \in 1 .. 3 |-> inv_matrix_det(input.m)
                     * inv_get_cross_product_vec(result.body, times(input.b))[i]]
           /\ result.calibrated = inv_apply_calibration(o, Half,
                  [i \in 1 .. 3 |-> input.v[i] - input.b[i]], <<0, 0, 0>>).raw_scaled

\* ml_math_func.c:518: for angles up to one turn out of range the difference is the right one,
\* up to whole turns, and the shortest way round.
ShortestWay ==
    result.of = "steer" =>
        /\ (result.diff - (input.a - input.b)) % (2 * HalfTurn) = 0
        /\ result.diff \in -HalfTurn .. HalfTurn

\* ml_math_func.c:398, 542: numbers, also negative ones, come back from their bytes, and the
\* checksum of four bytes tells any one byte that is wrong and any two neighbours that are
\* swapped.
BytesChecked ==
    result.of = "store" =>
        LET b == result.bytes
            half == Short(input.w)
        IN /\ inv_big8_to_int32(b) = input.w
           /\ inv_big8_to_int16(inv_int16_to_big8(half)) = half
           /\ LET big8 == inv_int16_to_big8(half)
              IN inv_little8_to_int16(<<big8[2], big8[1]>>) = half
           /\ \A i \in 1 .. 4, x \in 0 .. ByteSize - 1 :
                x # b[i] => inv_checksum([b EXCEPT ![i] = x]) # result.checksum
           /\ \A i \in 1 .. 3 :
                b[i] # b[i + 1] =>
                    inv_checksum([b EXCEPT ![i] = b[i + 1], ![i + 1] = b[i]]) # result.checksum
=============================================================================
