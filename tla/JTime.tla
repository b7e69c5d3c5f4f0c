-------------------------------- MODULE JTime --------------------------------
(***************************************************************************)
(* The arithmetic of Instant and Duration (JTime.cpp): seconds and a       *)
(* nanosecond field, meant to be in 0..999999999.  Seconds are integers    *)
(* here; the code keeps 64 bits of them, and 32 of the nanoseconds, which  *)
(* two normalised fields cannot exceed when they are added.                *)
(***************************************************************************)
EXTENDS Integers

NANO_BOUND == 1000000000

Time(s, n) == [seconds |-> s, nanos |-> n]

(* Any value of the two classes, and those that respect the range.         *)
Times == [seconds : Int, nanos : Int]
Normalised == {t \in Times : 0 <= t.nanos /\ t.nanos < NANO_BOUND}

(* The nanoseconds a value stands for.                                     *)
Value(t) == t.seconds * NANO_BOUND + t.nanos

(* Division of C++ truncates.                                              *)
Quotient(a, b) == IF a >= 0 THEN a \div b ELSE -((-a) \div b)
Remainder(a, b) == a - b * Quotient(a, b)

ChronoUnit == {"NANOSECONDS", "MICROSECONDS", "MILISECONDS", "SECONDS",
               "MINUTES", "HOURS"}

(* The length of a unit, in nanoseconds or in seconds.                     *)
InNanos == [NANOSECONDS |-> 1, MICROSECONDS |-> 1000, MILISECONDS |-> 1000000]
InSeconds == [SECONDS |-> 1, MINUTES |-> 60, HOURS |-> 3600]
PerSecond(u) == NANO_BOUND \div InNanos[u]

-----------------------------------------------------------------------------
(* Both classes.                                                           *)

(* Instant::fromEpochSecond and Duration::ofSeconds.                       *)
ofSeconds(s, n) ==
    IF n >= NANO_BOUND \/ n < 0
    THEN Time(s + Quotient(n, NANO_BOUND), Remainder(n, NANO_BOUND))
    ELSE Time(s, n)

isBefore(i, j) ==
    \/ i.seconds < j.seconds
    \/ i.seconds = j.seconds /\ i.nanos < j.nanos

isAfter(i, j) ==
    \/ i.seconds > j.seconds
    \/ i.seconds = j.seconds /\ i.nanos > j.nanos

compareTo(i, j) == IF isAfter(i, j) THEN 1 ELSE IF isBefore(i, j) THEN -1 ELSE 0

truncateTo(t, u) ==
    IF u = "NANOSECONDS" THEN t
    ELSE IF u \in DOMAIN InNanos
    THEN ofSeconds(t.seconds, Quotient(t.nanos, InNanos[u]) * InNanos[u])
    ELSE Time(Quotient(t.seconds, InSeconds[u]) * InSeconds[u], 0)

-----------------------------------------------------------------------------
(* Instant                                                                 *)

addToInstant(i, d) == Time(i.seconds + d.seconds, i.nanos + d.nanos)

get(i, u) ==
    IF u \in DOMAIN InNanos
    THEN i.seconds * PerSecond(u) + Quotient(i.nanos, InNanos[u])
    ELSE Quotient(i.seconds, InSeconds[u])

-----------------------------------------------------------------------------
(* Duration                                                                *)

(* The loop adds whole seconds until the nanoseconds are not negative.     *)
between(i, j) ==
    LET n == i.nanos - j.nanos
        k == CHOOSE k \in Nat : /\ n + k * NANO_BOUND >= 0
                                /\ k = 0 \/ n + (k - 1) * NANO_BOUND < 0
    IN Time(i.seconds - j.seconds - k, n + k * NANO_BOUND)

of(val, u) ==
    IF u \in DOMAIN InNanos
    THEN Time(Quotient(val, PerSecond(u)),
              Remainder(val, PerSecond(u)) * InNanos[u])
    ELSE Time(val * InSeconds[u], 0)

negate(d) ==
    IF d.nanos # 0 THEN Time(-d.seconds + 1, NANO_BOUND - d.nanos)
    ELSE Time(-d.seconds, 0)

isNegative(d) == d.seconds < 0
abs(d) == IF isNegative(d) THEN negate(d) ELSE d

addDuration(d, e) == ofSeconds(d.seconds + e.seconds, d.nanos + e.nanos)
subtractDuration(d, e) == addDuration(d, negate(e))
subtractFromInstant(i, d) == addToInstant(i, negate(d))
=============================================================================
