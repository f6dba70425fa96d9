------------------------- MODULE ModularArithmetic -------------------------
(***************************************************************************)
(* Facts about % with a symbolic divisor, which the SMT backend does not   *)
(* find by itself, for the proofs about the clocks of the protocol.        *)
(***************************************************************************)
EXTENDS Integers, TLAPS

\* Euclidean division: the remainder is in range and there is a quotient.
LEMMA DivisionExists ==
  ASSUME NEW a \in Int, NEW s \in Nat \ {0}
  PROVE  /\ a % s \in 0 .. s - 1
         /\ \E q \in Int : a = q * s + (a % s)
<1>1. a % s \in 0 .. s - 1
  BY SMT
<1>2. a \div s \in Int
  BY SMT
<1>3. a = s * (a \div s) + (a % s)
  BY SMT
<1>4. s * (a \div s) = (a \div s) * s
  BY <1>2, SMT
<1>. QED
  BY <1>1, <1>2, <1>3, <1>4

\* Quotients that differ put the remainders at least one divisor apart.
LEMMA QuotientGap ==
  ASSUME NEW s \in Nat \ {0}, NEW p \in Int, NEW q \in Int, p < q
  PROVE  q * s >= p * s + s
<1>1. PICK k \in Nat : q = p + 1 + k
  BY SMT
<1>2. q * s = p * s + s + k * s
  BY <1>1, SMT
<1>3. k * s >= 0
  BY SMT
<1>. QED
  BY <1>2, <1>3, SMT

\* Whatever satisfies the division equation is the remainder.
LEMMA RemainderUnique ==
  ASSUME NEW a \in Int, NEW s \in Nat \ {0}, NEW q \in Int,
         NEW r \in 0 .. s - 1, a = q * s + r
  PROVE  a % s = r
<1>1. PICK p \in Int : a = p * s + (a % s)
  BY DivisionExists
<1>2. a % s \in 0 .. s - 1
  BY DivisionExists
<1>3. CASE q = p
  BY <1>1, <1>2, <1>3, SMT
<1>4. CASE q < p
  <2>1. p * s >= q * s + s
    BY <1>4, QuotientGap
  <2>. QED
    BY <1>1, <1>2, <2>1, SMT
<1>5. CASE p < q
  <2>1. q * s >= p * s + s
    BY <1>5, QuotientGap
  <2>. QED
    BY <1>1, <1>2, <2>1, SMT
<1>. QED
  BY <1>3, <1>4, <1>5, SMT

\* Whole multiples of the divisor do not change the remainder.
LEMMA ModAddMultiple ==
  ASSUME NEW a \in Int, NEW s \in Nat \ {0}, NEW k \in Int
  PROVE  (a + k * s) % s = a % s
<1>1. PICK p \in Int : a = p * s + (a % s)
  BY DivisionExists
<1>2. a % s \in 0 .. s - 1
  BY DivisionExists
<1>3. a + k * s = (p + k) * s + (a % s) /\ p + k \in Int /\ a + k * s \in Int
  BY <1>1, SMT
<1>. QED
  BY <1>2, <1>3, RemainderUnique

\* Counting modulo s may reduce at every step.
LEMMA ModSuccessor ==
  ASSUME NEW a \in Int, NEW s \in Nat \ {0}
  PROVE  (a + 1) % s = ((a % s) + 1) % s
<1>1. PICK p \in Int : a = p * s + (a % s)
  BY DivisionExists
<1>2. a % s \in Int
  BY DivisionExists
<1>3. a + 1 = ((a % s) + 1) + p * s /\ (a % s) + 1 \in Int
  BY <1>1, <1>2, SMT
<1>. QED
  BY <1>3, ModAddMultiple

\* A number and its remainder differ by a whole multiple of the divisor.
LEMMA ModOfDifference ==
  ASSUME NEW a \in Int, NEW s \in Nat \ {0}
  PROVE  (a - (a % s)) % s = 0
<1>1. PICK p \in Int : a = p * s + (a % s)
  BY DivisionExists
<1>2. a % s \in Int /\ 0 \in 0 .. s - 1
  BY DivisionExists, SMT
<1>3. a - (a % s) = p * s + 0 /\ a - (a % s) \in Int
  BY <1>1, <1>2, SMT
<1>. QED
  BY <1>2, <1>3, RemainderUnique
=============================================================================
