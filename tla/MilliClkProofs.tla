--------------------------- MODULE MilliClkProofs ---------------------------
(***************************************************************************)
(* Theorems about MilliClk, for every range of the clock and every length  *)
(* of a second and of a millisecond.                                       *)
(***************************************************************************)
EXTENDS MilliClk, ModularArithmetic

\* Equal up to a multiple of s: equal after the cut.
LEMMA SameRemainder ==
  ASSUME NEW s \in Nat \ {0}, NEW a \in Int, NEW b \in Int, NEW k \in Int,
         a = b + k * s
  PROVE  a % s = b % s
<1>1. PICK q \in Int : b = q * s + (b % s)
  BY DivisionExists
<1>2. b % s \in 0 .. s - 1
  BY DivisionExists
<1>3. q + k \in Int
  BY <1>1
<1>4. (q + k) * s = q * s + k * s
  BY <1>1, SMT
<1>5. a = (q + k) * s + (b % s)
  BY <1>1, <1>2, <1>4
<1>. QED
  BY <1>2, <1>3, <1>5, RemainderUnique

\* A difference of remainders, cut, is the difference cut.
LEMMA RemainderOfDifference ==
  ASSUME NEW s \in Nat \ {0}, NEW a \in Int, NEW b \in Int
  PROVE  ((a % s) - (b % s)) % s = (a - b) % s
<1>. DEFINE x == a % s
            y == b % s
<1>1. PICK p \in Int : a = p * s + x
  BY DivisionExists
<1>2. PICK q \in Int : b = q * s + y
  BY DivisionExists
<1>3. x \in Int /\ y \in Int
  BY DivisionExists
<1>. HIDE DEF x, y
<1>4. (q - p) * s = q * s - p * s
  BY <1>1, <1>2, SMT
<1>5. x - y = (a - b) + (q - p) * s
  BY <1>1, <1>2, <1>3, <1>4
<1>6. q - p \in Int /\ a - b \in Int /\ x - y \in Int
  BY <1>1, <1>2, <1>3
<1>7. (x - y) % s = (a - b) % s
  BY <1>5, <1>6, SameRemainder
<1>. QED
  BY <1>7 DEF x, y

\* Division by a positive number, as the prover does not know it.
LEMMA Division ==
  ASSUME NEW t \in Nat, NEW m \in Nat \ {0}
  PROVE  /\ t \div m \in Nat
         /\ t = m * (t \div m) + (t % m)
         /\ t % m \in 0 .. m - 1
<1>1. t \div m \in Int /\ t = m * (t \div m) + (t % m) /\ t % m \in 0 .. m - 1
  BY SMT
<1>2. t \div m >= 0
  <2>1. SUFFICES ASSUME t \div m <= -1 PROVE FALSE
    BY <1>1
  <2>2. (t \div m) * m + m <= (-1) * m + m
    <3>1. -1 * m >= (t \div m) * m
      BY <1>1, <2>1, SMT
    <3>. QED
      BY <3>1, <1>1
  <2>. QED
    BY <1>1, <2>2, SMT
<1>. QED
  BY <1>1, <1>2

\* The milliseconds are those of the whole seconds and those of the rest.
LEMMA MillisecondsSplit ==
  ASSUME NEW t \in Nat
  PROVE  /\ tv_sec(t) \in Nat
         /\ tv_usec(t) \div PerMilli \in 0 .. PerSecond - 1
         /\ milliseconds(t) = tv_sec(t) * PerSecond + (tv_usec(t) \div PerMilli)
<1>1. PerSecond \in Nat \ {0} /\ PerMilli \in Nat \ {0}
  BY MilliClkConstants
<1>. DEFINE d == PerSecond * PerMilli
            s == tv_sec(t)
            u == tv_usec(t)
            w == u \div PerMilli
            r == u % PerMilli
<1>2. d \in Nat \ {0}
  BY <1>1, SMT
<1>3. s \in Nat /\ u \in 0 .. d - 1 /\ t = d * s + u
  <2>1. s = t \div d /\ u = t % d
    BY DEF tv_sec, tv_usec
  <2>. HIDE DEF s, u, d
  <2>2. /\ t \div d \in Nat /\ t = d * (t \div d) + (t % d)
        /\ t % d \in 0 .. d - 1
    BY <1>2, Division
  <2>. QED
    BY <2>1, <2>2
<1>4. w \in Nat /\ u = PerMilli * w + r /\ r \in 0 .. PerMilli - 1
  <2>. HIDE DEF u, d
  <2>1. u \in Nat
    BY <1>2, <1>3
  <2>2. /\ u \div PerMilli \in Nat
        /\ u = PerMilli * (u \div PerMilli) + (u % PerMilli)
        /\ u % PerMilli \in 0 .. PerMilli - 1
    BY <1>1, <2>1, Division
  <2>. QED
    BY <2>2
<1>. HIDE DEF s, u, w, r
<1>5. w < PerSecond
  <2>1. SUFFICES ASSUME w >= PerSecond PROVE FALSE
    BY <1>1, <1>4
  <2>2. PICK k \in Nat : w = PerSecond + k
    BY <1>1, <1>4, <2>1, SMT
  <2>3. PerMilli * w = PerSecond * PerMilli + PerMilli * k
    BY <1>1, <2>2, SMT
  <2>4. PerMilli * k >= 0
    BY <1>1, SMT
  <2>. QED
    BY <1>1, <1>2, <1>3, <1>4, <2>3, <2>4
<1>6. t = PerMilli * (s * PerSecond + w) + r
  <2>1. PerMilli * (s * PerSecond + w) = (PerSecond * PerMilli) * s + PerMilli * w
    BY <1>1, <1>3, <1>4, SMT
  <2>. QED
    BY <1>1, <1>2, <1>3, <1>4, <2>1
<1>7. t \div PerMilli = s * PerSecond + w
  <2>. DEFINE x == s * PerSecond + w
              y == t \div PerMilli
  <2>1. x \in Nat
    BY <1>1, <1>3, <1>4
  <2>2. y \in Nat /\ t = PerMilli * y + (t % PerMilli) /\ t % PerMilli \in 0 .. PerMilli - 1
    BY <1>1, Division
  <2>3. x * PerMilli = PerMilli * x /\ y * PerMilli = PerMilli * y
    BY <1>1, <2>1, <2>2, SMT
  <2>4. t = PerMilli * x + r
    BY <1>6
  <2>. HIDE DEF x, y
  <2>5. ~ (x < y)
    <3>1. x < y => y * PerMilli >= x * PerMilli + PerMilli
      BY <1>1, <2>1, <2>2, QuotientGap
    <3>. QED
      BY <1>1, <1>4, <2>1, <2>2, <2>3, <2>4, <3>1
  <2>6. ~ (y < x)
    <3>1. y < x => x * PerMilli >= y * PerMilli + PerMilli
      BY <1>1, <2>1, <2>2, QuotientGap
    <3>. QED
      BY <1>1, <1>4, <2>1, <2>2, <2>3, <2>4, <3>1
  <2>7. x = y
    BY <2>1, <2>2, <2>5, <2>6
  <2>. QED
    BY <2>7 DEF x, y
<1>. QED
  BY <1>1, <1>3, <1>4, <1>5, <1>7 DEF milliseconds, s, w, u

-----------------------------------------------------------------------------
\* What fits is only cut.
LEMMA ConvertType ==
  ASSUME NEW n \in Nat
  PROVE  Convert(n) \in 0 .. ClockMod - 1
<1>1. (IF n < IntRange THEN n ELSE IntRange - 1) \in Int
  BY MilliClkConstants
<1>. QED
  BY <1>1, MilliClkConstants, DivisionExists DEF Convert

\* A reading is the milliseconds, cut to the clock's range, while they fit.
LEMMA Reading ==
  ASSUME NEW t \in Nat
  PROVE  /\ eyeotine_milliclk(t) \in 0 .. ClockMod - 1
         /\ milliseconds(t) < IntRange =>
              eyeotine_milliclk(t) = milliseconds(t) % ClockMod
<1>. DEFINE s == tv_sec(t) * PerSecond
            w == tv_usec(t) \div PerMilli
            r == Convert(s)
<1>1. s \in Nat /\ w \in 0 .. PerSecond - 1 /\ milliseconds(t) = s + w
  <2>1. /\ tv_sec(t) \in Nat /\ w \in 0 .. PerSecond - 1
        /\ milliseconds(t) = s + w
    BY MillisecondsSplit
  <2>2. \A n, m \in Nat : n * m \in Nat
    BY SMT
  <2>. QED
    BY <2>1, <2>2, MilliClkConstants
<1>. HIDE DEF s, w
<1>2. r \in 0 .. ClockMod - 1
  BY <1>1, ConvertType
<1>3. r + w \in Nat /\ r + w < IntRange
  BY <1>1, <1>2, MilliClkConstants
<1>4. eyeotine_milliclk(t) = Convert(r + w)
  BY DEF eyeotine_milliclk, s, w
<1>5. eyeotine_milliclk(t) \in 0 .. ClockMod - 1
  BY <1>3, <1>4, ConvertType
<1>6. ASSUME milliseconds(t) < IntRange
      PROVE  eyeotine_milliclk(t) = milliseconds(t) % ClockMod
  <2>1. s < IntRange
    BY <1>1, <1>6, MilliClkConstants
  <2>2. r = s % ClockMod
    BY <2>1 DEF Convert
  <2>3. PICK q \in Int : s = q * ClockMod + (s % ClockMod)
    <3>1. s \in Int /\ ClockMod \in Nat \ {0}
      BY <1>1, MilliClkConstants
    <3>. QED
      BY <3>1, DivisionExists
  <2>4. Convert(r + w) = (r + w) % ClockMod
    BY <1>3 DEF Convert
  <2>. HIDE DEF r
  <2>5. s + w = (r + w) + q * ClockMod
    <3>. DEFINE z == q * ClockMod
    <3>1. z \in Int /\ s = z + r
      BY <2>2, <2>3, MilliClkConstants, SMT
    <3>. HIDE DEF z
    <3>2. s + w = (r + w) + z
      BY <1>1, <1>2, <3>1
    <3>. QED
      BY <3>2 DEF z
  <2>6. (s + w) % ClockMod = (r + w) % ClockMod
    <3>1. s + w \in Int /\ r + w \in Int /\ ClockMod \in Nat \ {0}
      BY <1>1, <1>3, MilliClkConstants
    <3>. QED
      BY <2>3, <2>5, <3>1, SameRemainder
  <2>. QED
    BY <1>1, <1>4, <2>4, <2>6
<1>. QED
  BY <1>5, <1>6

\* The milliseconds that fit now did so before.
LEMMA MillisecondsGrow ==
  ASSUME NEW t \in Nat, NEW u \in Nat, t <= u
  PROVE  /\ milliseconds(t) \in Nat /\ milliseconds(u) \in Nat
         /\ milliseconds(t) <= milliseconds(u)
<1>. DEFINE x == milliseconds(t)
            y == milliseconds(u)
            m == PerMilli
<1>1. m \in Nat \ {0}
  BY MilliClkConstants
<1>2. /\ x \in Nat /\ t = m * x + (t % m) /\ t % m \in 0 .. m - 1
      /\ y \in Nat /\ u = m * y + (u % m) /\ u % m \in 0 .. m - 1
  BY <1>1, Division DEF milliseconds
<1>3. x * m = m * x /\ y * m = m * y
  BY <1>1, <1>2, SMT
<1>. HIDE DEF x, y, m
<1>4. y < x => x * m >= y * m + m
  BY <1>1, <1>2, QuotientGap
<1>5. x <= y
  BY <1>1, <1>2, <1>3, <1>4
<1>. QED
  BY <1>2, <1>5 DEF x, y

\* The invariant: the last reading was right for its time.
ReadingKept ==
  /\ now \in 0 .. MaxTime
  /\ clk = eyeotine_milliclk(now)

LEMMA ReadingStep ==
  ASSUME ReadingKept, [Next]_vars
  PROVE  ReadingKept'
<1>1. CASE Next
  <2>1. now' \in now .. MaxTime /\ clk' = eyeotine_milliclk(now')
    BY <1>1 DEF Next, Call
  <2>2. now' \in 0 .. MaxTime
    BY <2>1, MilliClkConstants DEF ReadingKept
  <2>. QED
    BY <2>1, <2>2 DEF ReadingKept, eyeotine_milliclk, Convert, tv_sec, tv_usec
<1>2. CASE UNCHANGED vars
  BY <1>2 DEF vars, ReadingKept, eyeotine_milliclk, Convert, tv_sec, tv_usec
<1>. QED
  BY <1>1, <1>2

\* The last reading is the clock's value for the time at which it was made.
THEOREM ClockInvariant == Spec => []ReadingKept
<1>1. Init => ReadingKept
  BY DEF Init, ReadingKept
<1>2. ReadingKept /\ [Next]_vars => ReadingKept'
  BY ReadingStep
<1>. QED
  BY <1>1, <1>2, PTL DEF Spec

\* Every reading is a value of the uint16_t, whatever the time
\* (eyeotine.c:99-105).
THEOREM ClockTypeCorrect == Spec => []TypeOK
<1>1. ReadingKept => TypeOK
  BY Reading DEF ReadingKept, TypeOK
<1>. QED
  BY <1>1, ClockInvariant, PTL

\* The library's differences of readings are the time between them, as long
\* as the board's time in milliseconds fits the integer of the conversion
\* (eyeotine.c:99-105; ep_impl.c:112, 130, 144).
THEOREM ClockDifferenceIsTime == Spec => DifferenceIsTime
<1>1. ASSUME ReadingKept, Next, milliseconds(now') < IntRange
      PROVE  (clk' - clk) % ClockMod = (milliseconds(now') - milliseconds(now)) % ClockMod
  <2>. DEFINE x == milliseconds(now)
              y == milliseconds(now')
  <2>1. now \in Nat /\ now' \in Nat /\ now <= now' /\ clk' = eyeotine_milliclk(now')
    BY <1>1, MilliClkConstants DEF ReadingKept, Next, Call
  <2>2. x \in Nat /\ y \in Nat /\ x <= y
    BY <2>1, MillisecondsGrow
  <2>3. x < IntRange /\ y < IntRange
    BY <1>1, <2>2, MilliClkConstants
  <2>4. clk = x % ClockMod /\ clk' = y % ClockMod
    BY <1>1, <2>1, <2>3, Reading DEF ReadingKept
  <2>. HIDE DEF x, y
  <2>5. ((y % ClockMod) - (x % ClockMod)) % ClockMod = (y - x) % ClockMod
    <3>1. x \in Int /\ y \in Int /\ ClockMod \in Nat \ {0}
      BY <2>2, MilliClkConstants
    <3>. QED
      BY <3>1, RemainderOfDifference
  <2>. QED
    BY <2>4, <2>5 DEF x, y
<1>2. ReadingKept /\ [Next]_vars =>
        [milliseconds(now') < IntRange =>
           (clk' - clk) % ClockMod = (milliseconds(now') - milliseconds(now)) % ClockMod]_vars
  BY <1>1
<1>. QED
  BY <1>2, ClockInvariant, PTL DEF Spec, DifferenceIsTime
=============================================================================
