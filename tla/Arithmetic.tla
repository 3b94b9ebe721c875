------------------------------ MODULE Arithmetic ------------------------------
(***************************************************************************)
(* A client of the arithmetic of BigInt: it takes two numbers, one after   *)
(* the other, and the properties judge what the operations make of them.   *)
(***************************************************************************)
EXTENDS Gcd, Sequences

CONSTANTS Divisors, Dividends,   \* the numbers to take first and second
          LimbLimits             \* limits of limbs to multiply under

ASSUME OperandsAssumption ==
    /\ Divisors \subseteq Nat \ {0} /\ Dividends \subseteq Nat
    /\ LimbLimits \subseteq Nat

VARIABLE operands

AInit == operands = <<>>

TakeDivisor  == operands = <<>> /\ \E d \in Divisors : operands' = <<d>>
TakeDividend == Len(operands) = 1 /\ \E n \in Dividends : operands' = <<operands[1], n>>

ANext == TakeDivisor \/ TakeDividend

ASpec == AInit /\ [][ANext]_operands

-----------------------------------------------------------------------------

\* The quotient is rounded down and the remainder completes it, with its sign that of
\* the divisor.
Divided(n, d, qr) ==
    /\ n = qr[1] * d + qr[2]
    /\ Abs(qr[2]) < Abs(d)
    /\ qr[2] # 0 => (qr[2] < 0) = (d < 0)

\* Whichever algorithm divides and whatever the signs, the division is exact: the
\* estimates of the limbs and of the halves of a quotient are corrected by just as much
\* as they are off.
DivisionExact == Len(operands) = 2 =>
    \A s, t \in {1, -1} :
        \A qr \in {DivideWithRemainder(s * operands[2], t * operands[1])} :
            Divided(s * operands[2], t * operands[1], qr)

\* Two numbers made of the operands, for the lengths that the algorithms choose by.
Factors == {operands[1] * 7, operands[1] + (operands[2] % 1000), operands[1] * 8 + 1}

\* Whichever algorithm multiplies, by recursion or not, the product is right, or its
\* zero stands for the exhaustion of the limbs, which is reported.
ProductRightOrFlagged == Len(operands) = 2 =>
    \A a \in Factors, max \in LimbLimits :
        \A p \in {Multiply(a, operands[2] % 32768, max)} :
            p.value = a * (operands[2] % 32768) \/ (max > 0 /\ p.exhausted)

\* The algorithm of Euclid, for reference.
Common[p \in Nat \X Nat] == IF p[2] = 0 THEN p[1] ELSE Common[<<p[2], p[1] % p[2]>>]

\* The three algorithms for the greatest common divisor agree with Euclid's, and the steps
\* that Lehmer's simulates on leading words are steps of Euclid's on the numbers.
GcdRight == Len(operands) = 2 =>
    \A b \in {operands[1], operands[1] * (operands[2] % 61)} :
        Gcd(operands[2], b) = Common[<<operands[2], b>>]
=============================================================================
