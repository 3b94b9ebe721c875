------------------------------- MODULE BigInt -------------------------------
(***************************************************************************)
(* The arithmetic of cas::BigInt.  A magnitude is a natural number, seen   *)
(* in limbs where an algorithm cuts it: carries of additions and shifts    *)
(* are exact and left out, words of two limbs wrap.  The thresholds that   *)
(* choose the algorithms are small when they are checked.                  *)
(***************************************************************************)
EXTENDS Integers

CONSTANTS
    LimbBits,              \* 32 in the code
    KaratsubaThreshold,    \* 32 limbs
    ToomThreshold,         \* 64 limbs
    ToomMaxLimbs,          \* 4096 limbs: from there on Karatsuba again
    BzThreshold            \* 64 limbs, kBzThreshold

\* Pieces must be shorter than what they are cut from, and the divisor of Algorithm D
\* has two limbs.
ASSUME BigIntAssumption ==
    /\ LimbBits \in Nat /\ LimbBits >= 2
    /\ KaratsubaThreshold \in Nat /\ KaratsubaThreshold >= 2
    /\ ToomThreshold \in Nat /\ ToomMaxLimbs \in Nat
    /\ BzThreshold \in Nat /\ BzThreshold >= 3

TwoTo(n) ==
    LET power[i \in 0 .. n] == IF i = 0 THEN 1 ELSE 2 * power[i - 1]
    IN  power[n]

Beta(n) == TwoTo(n * LimbBits)        \* n limbs
B       == Beta(1)
Word    == B * B

\* The digits of a number in a base.
Digits(a, base) ==
    LET count[x \in 0 .. a] == IF x = 0 THEN 0 ELSE 1 + count[x \div base]
    IN  count[a]

BitLength(a) == Digits(a, 2)
LimbCount(a) == Digits(a, B)

\* extract_limbs, limb_slice: the limbs from first on, n of them.
Limbs(a, first, n) == (a \div Beta(first)) % Beta(n)

Abs(a)       == IF a < 0 THEN -a ELSE a
Larger(a, b) == IF a > b THEN a ELSE b

\* The shift that sets the top bit of the top limb.
NormalizeShift(v) == LimbCount(v) * LimbBits - BitLength(v)

-----------------------------------------------------------------------------
(* Multiplication under a limit of limbs (0: none): [value, exhausted].     *)

Multiplied(value) == [value |-> value, exhausted |-> FALSE]

\* Fault: a product that is too long is zero, and nobody is told.
QuietlyZero == Multiplied(0)

TooLong == [value |-> 0, exhausted |-> TRUE]

\* A result made of other results.
Together(value, parts) == [value |-> value, exhausted |-> \E r \in parts : r.exhausted]

\* A magnitude subtracted from a smaller one keeps the borrow out of its limbs.
SubtractMagnitude(a, b) == (a - b) % Beta(LimbCount(a))

\* Division of a signed number without remainder, by magnitude.
DivideExact(a, d) == IF a < 0 THEN -((-a) \div d) ELSE a \div d

\* In the two algorithms times is multiply_magnitude, for their smaller products.
Karatsuba(times, a, b) ==
    LET half == (Larger(LimbCount(a), LimbCount(b)) + 1) \div 2
        high(x) == x \div Beta(half)
        low(x)  == SubtractMagnitude(x, high(x) * Beta(half))
        z0  == times[<<low(a), low(b)>>]
        z2  == times[<<high(a), high(b)>>]
        z1  == times[<<low(a) + high(a), low(b) + high(b)>>]
        mid == SubtractMagnitude(z1.value, z2.value + z0.value)
    IN  Together(z2.value * Beta(2 * half) + mid * Beta(half) + z0.value, {z0, z1, z2})

\* multiply_magnitude_toom3: three pieces, evaluated at 0, 1, -1, 2 and infinity.
Toom3(times, a, b) ==
    LET k == (Larger(LimbCount(a), LimbCount(b)) + 2) \div 3
        piece(x, i) == Limbs(x, i * k, k)
        at(x, w)    == piece(x, 0) + piece(x, 1) * w + piece(x, 2) * w * w
        product(w)  == times[<<Abs(at(a, w)), Abs(at(b, w))>>]
        m1   == product(-1)
        p0   == product(0)
        p1   == product(1)
        p2   == product(2)
        inf  == times[<<piece(a, 2), piece(b, 2)>>]
        r0   == p0.value
        r1   == p1.value
        rm1  == IF (at(a, -1) < 0) # (at(b, -1) < 0) THEN -m1.value ELSE m1.value
        r2   == p2.value
        s1   == DivideExact(r1 + rm1, 2) - r0
        s2   == DivideExact(r1 - rm1, 2)
        c2   == s1 - inf.value
        c3   == DivideExact(DivideExact(r2 - r0 - 2 * s2, 2) - 2 * c2 - 8 * inf.value, 3)
        c1   == s2 - c3
    IN  Together(Abs(r0 + c1 * Beta(k) + c2 * Beta(2 * k) + c3 * Beta(3 * k)
                     + inf.value * Beta(4 * k)),
                 {p0, p1, m1, p2, inf})

\* multiply_magnitude, by the length of the longer operand.
MultiplyMagnitude(times, a, b, max) ==
    LET n == Larger(LimbCount(a), LimbCount(b))
    IN  IF a = 0 \/ b = 0 THEN Multiplied(0)
        ELSE IF max > 0 /\ LimbCount(a) + LimbCount(b) > max THEN TooLong
        ELSE IF n < KaratsubaThreshold THEN Multiplied(a * b)
        ELSE IF n >= ToomThreshold /\ n < ToomMaxLimbs THEN Toom3(times, a, b)
        ELSE Karatsuba(times, a, b)

Multiply(a, b, max) ==
    LET m == Larger(a, b)
        times[p \in (0 .. m) \X (0 .. m)] == MultiplyMagnitude(times, p[1], p[2], max)
    IN  times[<<a, b>>]

-----------------------------------------------------------------------------
(* Division: pairs of a quotient and a remainder.  The limit of limbs,      *)
(* which the product in Bz3By2 is under, is left out.                       *)

\* The correction of an estimate: one less while it is too large for two limbs.
Refine(q, r, v1, v2, next) ==
    LET TooLarge(k) == /\ r + k * v1 < B
                       /\ (q - k >= B \/ (q - k) * v2 > (r + k * v1) * B + next)
    IN  q - CHOOSE k \in 0 .. q : ~TooLarge(k) /\ \A i \in 0 .. k - 1 : TooLarge(i)

\* The estimate from three limbs of the dividend and two of the divisor.
Estimate(three, two) ==
    LET v1  == two \div B
        num == three \div B
        q0  == IF num \div B >= v1 THEN B - 1 ELSE num \div v1
    IN  Refine(q0, (num - q0 * v1) % Word, v1, two % B, three % B)

\* Fault: the divisor is not added back after a borrow.
NeverAddBack(q, old, v, n) == <<q, (old - q * v) % Beta(n + 1)>>

\* The window of the dividend after q times the divisor is subtracted from it; a
\* borrow says that q is one too large, and the divisor is added back.
Subtracted(q, old, v, n) ==
    IF old < q * v THEN <<q - 1, (old - q * v + v) % Beta(n + 1)>>
    ELSE <<q, (old - q * v) % Beta(n + 1)>>

\* One quotient limb of Algorithm D: s is the rest of the dividend and the quotient
\* so far, v the normalized divisor of n limbs, j the place of the limb.
KnuthStep(s, v, n, j) ==
    LET old  == Limbs(s.u, j, n + 1)
        q    == Estimate(Limbs(s.u, j + n - 2, 3), Limbs(v, n - 2, 2))
        Next(done) == [u |-> s.u + (done[2] - old) * Beta(j), q |-> s.q + (done[1] % B) * Beta(j)]
    IN  Next(Subtracted(q, old, v, n))

DivideKnuthD(u, v) ==
    LET n == LimbCount(v)
        m == LimbCount(u) - n
        d == TwoTo(NormalizeShift(v))
        after[i \in 0 .. m + 1] ==
            IF i = 0 THEN [u |-> u * d, q |-> 0] ELSE KnuthStep(after[i - 1], v * d, n, m - i + 1)
        Result(end) == <<end.q, Limbs(end.u, 0, n) \div d>>
    IN  Result(after[m + 1])

\* At most two additions of the divisor to a remainder that is negative.
Corrected(q, r, v) ==
    IF r >= 0 THEN <<q, r>>
    ELSE IF r + v >= 0 THEN <<q - 1, r + v>>
    ELSE <<q - 2, Abs(r + v + v)>>

\* halves is bz_div_2by1 for a divisor of n limbs.
Bz3By2(halves, a, v, n) ==
    LET a2 == a \div Beta(2 * n)
        v1 == Limbs(v, n, n)
        v0 == Limbs(v, 0, n)
        top == a \div Beta(n)
        Result(qr) == Corrected(qr[1], qr[2] * Beta(n) + Limbs(a, 0, n) - qr[1] * v0, v)
    IN  IF a2 < v1 THEN Result(halves[<<top, v1>>])
        ELSE Result(<<Beta(n) - 1, (a2 - v1) * Beta(n) + Limbs(a, n, n) + v1>>)

\* The two halves of a quotient of 2 * k limbs.
TwoHalves(halves, a, v, k) ==
    LET Low(high)       == Bz3By2(halves, high[2] * Beta(k) + Limbs(a, 0, k), v, k)
        Both(high, low) == <<high[1] * Beta(k) + low[1], low[2]>>
        Result(high)    == Both(high, Low(high))
    IN  Result(Bz3By2(halves, Limbs(a, k, 3 * k), v, k))

Bz2By1(a, v, n) ==
    LET divide[k \in 1 .. n] == [p \in Nat \X Nat |->
            IF p[1] < p[2] THEN <<0, p[1]>>
            ELSE IF k < BzThreshold \/ k % 2 = 1 THEN DivideKnuthD(p[1], p[2])
            ELSE TwoHalves(divide[k \div 2], p[1], p[2], k \div 2)]
    IN  divide[n][<<a, v>>]

\* divide_burnikel_ziegler: chunks of the length of the divisor, from the top.
DivideBurnikelZiegler(u, v) ==
    LET d == TwoTo(NormalizeShift(v))
        n == LimbCount(v)
        chunks == (LimbCount(u * d) + n - 1) \div n
        Next(q, qr) == <<q * Beta(n) + qr[1], qr[2]>>
        Step(s, i)  == Next(s[1], Bz2By1(s[2] * Beta(n) + Limbs(u * d, (chunks - i) * n, n), v * d, n))
        after[i \in 0 .. chunks] == IF i = 0 THEN <<0, 0>> ELSE Step(after[i - 1], i)
        Result(end) == <<end[1], end[2] \div d>>
    IN  Result(after[chunks])

\* divide_magnitude, then the sign: the quotient is rounded down.
DivideMagnitude(u, v) ==
    IF u < v THEN <<0, u>>
    ELSE IF LimbCount(v) = 1 THEN <<u \div v, u % v>>
    ELSE IF LimbCount(v) >= BzThreshold THEN DivideBurnikelZiegler(u, v)
    ELSE DivideKnuthD(u, v)

DivideWithRemainder(u, v) ==
    LET differ == (u < 0) # (v < 0)
        Floored(qr) == IF differ /\ qr[2] # 0 THEN <<qr[1] + 1, Abs(v) - qr[2]>> ELSE qr
        Signed(qr)  == <<IF differ THEN -qr[1] ELSE qr[1], IF v < 0 THEN -qr[2] ELSE qr[2]>>
    IN  IF u = 0 THEN <<0, 0>> ELSE Signed(Floored(DivideMagnitude(Abs(u), Abs(v))))
=============================================================================
