-------------------------------- MODULE Gcd --------------------------------
(***************************************************************************)
(* The greatest common divisors of cas::BigInt: Stein's, Euclid's and      *)
(* Lehmer's algorithms, on the division of BigInt.  A loop is a function   *)
(* of the values its next round starts with.                               *)
(***************************************************************************)
EXTENDS BigInt

CONSTANT LehmerThreshold    \* 16 limbs, kLehmerThreshold

ASSUME LehmerAssumption == LehmerThreshold \in Nat

\* A number without its factors of two.
OddPart[x \in Nat \ {0}] == IF x % 2 = 0 THEN OddPart[x \div 2] ELSE x

\* Both odd: the difference, without its factors of two, replaces the larger.
SteinLoop[p \in (Nat \ {0}) \X (Nat \ {0})] ==
    IF p[1] = p[2] THEN p[1]
    ELSE IF p[1] > p[2] THEN SteinLoop[<<p[2], OddPart[p[1] - p[2]]>>]
    ELSE SteinLoop[<<p[1], OddPart[p[2] - p[1]]>>]

\* Fault: the common factors of two are taken from one operand.
TwosOfTheFirst(u, v) ==
    IF u = 0 \/ v = 0 THEN u + v
    ELSE SteinLoop[<<OddPart[u], OddPart[v]>>] * (u \div OddPart[u])

BinaryGcd(u, v) ==
    LET twos(x) == x \div OddPart[x]
    IN  IF u = 0 \/ v = 0 THEN u + v
        ELSE SteinLoop[<<OddPart[u], OddPart[v]>>]
                 * (IF twos(u) < twos(v) THEN twos(u) ELSE twos(v))

Euclid[p \in Nat \X Nat] ==
    IF p[2] = 0 THEN p[1] ELSE Euclid[<<p[2], DivideWithRemainder(p[1], p[2])[2]>>]

\* A signed word of two limbs.
Fits(n) == -(Word \div 2) <= n /\ n < Word \div 2

\* The leading words of the two numbers and the matrix of the steps made on them.
Simulation == [a : Int, b : Int, A : Int, B : Int, C : Int, D : Int]

\* The next step of the simulation, by the quotient q.
Stepped(s, q) ==
    [a |-> s.b, b |-> s.a - q * s.b, A |-> s.C, B |-> s.D, C |-> s.A - q * s.C, D |-> s.B - q * s.D]

\* Step L3: both brackets are defined and give the same quotient, not zero.
QuotientKnown(s) ==
    /\ s.b + s.C > 0 /\ s.b + s.D > 0 /\ s.a + s.A >= 0 /\ s.a + s.B >= 0
    /\ Fits(s.b + s.C) /\ Fits(s.b + s.D) /\ Fits(s.a + s.A) /\ Fits(s.a + s.B)
    /\ (s.a + s.A) \div (s.b + s.C) = (s.a + s.B) \div (s.b + s.D)
    /\ (s.a + s.A) \div (s.b + s.C) # 0

\* The step does not overflow.
StepFits(s, q) ==
    \A n \in {q * s.C, q * s.D, q * s.b, s.A - q * s.C, s.B - q * s.D, s.a - q * s.b} : Fits(n)

\* The simulated division steps.
Simulated[s \in Simulation] ==
    LET q == (s.a + s.A) \div (s.b + s.C)
    IN  IF ~QuotientKnown(s) THEN s
        ELSE IF ~StepFits(s, q) THEN s
        ELSE IF s.a - q * s.b = 0 THEN Stepped(s, q)
        ELSE Simulated[Stepped(s, q)]

\* One round of lehmer_gcd, for a >= b: the simulated steps made at once, or one division.
LehmerStep(a, b) ==
    LET shift   == TwoTo(BitLength(a) - 2 * LimbBits)
        half    == IF a \div shift >= Word \div 2 THEN 2 ELSE 1
        lead(x) == ((x \div shift) % Word) \div half
        divided == <<b, DivideWithRemainder(a, b)[2]>>
        Sorted(x, y) == <<Larger(x, y), IF x < y THEN x ELSE y>>
        Applied(s)   == IF s.B = 0 THEN divided
                        ELSE Sorted(Abs(s.A * a + s.B * b), Abs(s.C * a + s.D * b))
    IN  IF lead(b) = 0 THEN divided
        ELSE Applied(Simulated[[a |-> lead(a), b |-> lead(b), A |-> 1, B |-> 0, C |-> 0, D |-> 1]])

Ordered == {p \in Nat \X Nat : p[1] >= p[2]}

\* lehmer_gcd, once the first number is not the smaller.
LehmerGcd[p \in Ordered] ==
    IF LimbCount(p[2]) < 2 \/ BitLength(p[1]) <= 2 * LimbBits THEN Euclid[p]
    ELSE LehmerGcd[LehmerStep(p[1], p[2])]

\* gcd: the algorithm by the longer operand.
Gcd(a, b) ==
    LET x == Abs(a)
        y == Abs(b)
        n == Larger(LimbCount(x), LimbCount(y))
    IN  IF x = 0 \/ y = 0 THEN x + y
        ELSE IF n < 2 THEN Euclid[<<x, y>>]
        ELSE IF n < LehmerThreshold THEN BinaryGcd(x, y)
        ELSE LehmerGcd[<<Larger(x, y), IF x < y THEN x ELSE y>>]
=============================================================================
