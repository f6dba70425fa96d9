------------------------------- MODULE MilliClk -------------------------------
(***************************************************************************)
(* The clock of a board, eyeotine_milliclk() of src/esp32/main/eyeotine.c: *)
(* the seconds and microseconds of gettimeofday(), which count from the    *)
(* start of the board, as a double of milliseconds in a uint16_t.  C does  *)
(* not define the conversion of a double that does not fit.  The build     *)
(* converts to a 32-bit integer, which saturates, and keeps the lower half.*)
(***************************************************************************)
EXTENDS Integers

CONSTANTS
  ClockMod,   \* range of a uint16_t: 65536
  IntRange,   \* range of the integer converted to: 2^32
  PerSecond,  \* milliseconds: 1000
  PerMilli,   \* microseconds: 1000
  MaxTime     \* bound: the last microsecond looked at

ASSUME MilliClkConstants ==
  /\ ClockMod \in Nat \ {0}
  /\ IntRange \in Nat \ {0}
  /\ PerSecond \in Nat \ {0}
  /\ PerMilli \in Nat \ {0}
  /\ MaxTime \in Nat
  /\ ClockMod + PerSecond <= IntRange

VARIABLES
  now,  \* the time of the call, in microseconds
  clk   \* what the call returned

vars == <<now, clk>>

TypeOK == now \in 0 .. MaxTime /\ clk \in 0 .. ClockMod - 1

-----------------------------------------------------------------------------
tv_sec(t) == t \div (PerSecond * PerMilli)

tv_usec(t) == t % (PerSecond * PerMilli)

\* Mutant: a number that does not fit becomes the greatest one that does.
Convert_Saturates(n) == IF n < ClockMod THEN n ELSE ClockMod - 1

\* Mutant: what fits the integer is not cut to 16 bits.
Convert_Uncut(n) == IF n < IntRange THEN n ELSE IntRange - 1

\* A double to uint16_t; the fraction has been cut off.
Convert(n) == (IF n < IntRange THEN n ELSE IntRange - 1) % ClockMod

eyeotine_milliclk(t) ==
  LET r == Convert(tv_sec(t) * PerSecond)
  IN  Convert(r + (tv_usec(t) \div PerMilli))

-----------------------------------------------------------------------------
Init ==
  /\ now \in 0 .. MaxTime
  /\ clk = eyeotine_milliclk(now)

\* The clock is read again, any time later.
Call ==
  /\ now' \in now .. MaxTime
  /\ clk' = eyeotine_milliclk(now')

Next == Call

Spec == Init /\ [][Next]_vars

-----------------------------------------------------------------------------
(* Properties. *)

milliseconds(t) == t \div PerMilli

(***************************************************************************)
(* The difference of two readings, cut to 16 bits as the library does, is  *)
(* the time between them, across every overflow of the uint16_t and every  *)
(* new second, as long as the milliseconds fit the integer in between      *)
(* (eyeotine.c:99-105; ep_impl.c:112, 130, 144).                           *)
(***************************************************************************)
DifferenceIsTime ==
  [][milliseconds(now') < IntRange =>
       (clk' - clk) % ClockMod = (milliseconds(now') - milliseconds(now)) % ClockMod]_vars
=============================================================================
