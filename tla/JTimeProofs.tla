----------------------------- MODULE JTimeProofs -----------------------------
(***************************************************************************)
(* What the arithmetic of JTime.cpp computes, for all values.              *)
(***************************************************************************)
EXTENDS JTime, TLAPS

(* What a value in range provides.                                         *)
InRange(t) ==
    /\ t.seconds \in Int
    /\ t.nanos \in Int
    /\ 0 <= t.nanos
    /\ t.nanos < NANO_BOUND

(* The divisors of JTime.cpp.                                              *)
Divisor == {60, 1000, 3600, 1000000, NANO_BOUND}

(* Truncating division by a positive number, as C++ divides.               *)
LEMMA QuotientBounds ==
    ASSUME NEW a \in Int, NEW b \in Divisor
    PROVE  /\ Quotient(a, b) \in Int
           /\ Remainder(a, b) \in Int
           /\ a = b * Quotient(a, b) + Remainder(a, b)
           /\ a >= 0 => Quotient(a, b) >= 0
                       /\ 0 <= Remainder(a, b) /\ Remainder(a, b) < b
           /\ a < 0 => Quotient(a, b) <= 0
                      /\ -b < Remainder(a, b) /\ Remainder(a, b) <= 0
  <1>1. CASE b = 60 BY <1>1, SMT DEF Quotient, Remainder
  <1>2. CASE b = 1000 BY <1>2, SMT DEF Quotient, Remainder
  <1>3. CASE b = 3600 BY <1>3, SMT DEF Quotient, Remainder
  <1>4. CASE b = 1000000 BY <1>4, SMT DEF Quotient, Remainder
  <1>5. CASE b = NANO_BOUND BY <1>5, SMT DEF Quotient, Remainder, NANO_BOUND
  <1> QED BY <1>1, <1>2, <1>3, <1>4, <1>5, SMT DEF InRange, Divisor

(* fromEpochSecond and ofSeconds keep the value they are given; they bring *)
(* a nanosecond adjustment into range if it is not negative (JTime.cpp:171)*)
THEOREM AdjustmentExact ==
    ASSUME NEW s \in Int, NEW n \in Int
    PROVE  /\ ofSeconds(s, n) \in Times
           /\ Value(ofSeconds(s, n)) = Value(Time(s, n))
           /\ n >= 0 => ofSeconds(s, n) \in Normalised
           /\ n < 0 => /\ -NANO_BOUND < ofSeconds(s, n).nanos
                       /\ ofSeconds(s, n).nanos <= 0
  <1>1. CASE n >= NANO_BOUND \/ n < 0
    <2> DEFINE q == Quotient(n, NANO_BOUND)  r == Remainder(n, NANO_BOUND)
    <2>1. ofSeconds(s, n) = [seconds |-> s + q, nanos |-> r]
      BY <1>1 DEF ofSeconds, Time
    <2>2. /\ q \in Int /\ r \in Int /\ n = NANO_BOUND * q + r
          /\ n >= 0 => 0 <= r /\ r < NANO_BOUND
          /\ n < 0 => -NANO_BOUND < r /\ r <= 0
      <3>1. NANO_BOUND \in Divisor BY SMT DEF Divisor
      <3> QED BY <3>1, QuotientBounds
    <2> HIDE DEF q, r
    <2> QED BY <2>1, <2>2, SMT DEF Times, Normalised, Value, Time, NANO_BOUND
  <1>2. CASE ~(n >= NANO_BOUND \/ n < 0)
    BY <1>2, SMT DEF ofSeconds, Time, Times, Normalised, Value, NANO_BOUND
  <1> QED BY <1>1, <1>2

(* compareTo orders values that are in range as the times they stand for.  *)
THEOREM CompareOrdersTime ==
    ASSUME NEW i \in Normalised, NEW j \in Normalised
    PROVE  /\ compareTo(i, j) = 1 <=> Value(i) > Value(j)
           /\ compareTo(i, j) = -1 <=> Value(i) < Value(j)
           /\ compareTo(i, j) = 0 <=> i = j
  <1>1. /\ InRange(i)
        /\ InRange(j)
    BY DEF Normalised, Times, InRange
  <1>2. i = j <=> i.seconds = j.seconds /\ i.nanos = j.nanos
    BY DEF Normalised, Times, InRange
  <1> QED
    BY <1>1, <1>2, SMT DEF InRange, compareTo, isAfter, isBefore, Value, NANO_BOUND

(* The sum of two durations in range is exact and in range.                *)
THEOREM DurationAddExact ==
    ASSUME NEW d \in Normalised, NEW e \in Normalised
    PROVE  /\ addDuration(d, e) \in Normalised
           /\ Value(addDuration(d, e)) = Value(d) + Value(e)
  <1>1. /\ InRange(d)
        /\ InRange(e)
    BY DEF Normalised, Times, InRange
  <1> DEFINE s == d.seconds + e.seconds  n == d.nanos + e.nanos
  <1>2. s \in Int /\ n \in Int /\ n >= 0
    BY <1>1, SMT DEF InRange, NANO_BOUND
  <1>3. /\ ofSeconds(s, n) \in Normalised
        /\ Value(ofSeconds(s, n)) = Value(Time(s, n))
    BY <1>2, AdjustmentExact
  <1>4. Value(Time(s, n)) = Value(d) + Value(e)
    BY <1>1, SMT DEF InRange, Value, Time, NANO_BOUND
  <1> QED BY <1>3, <1>4 DEF addDuration

(* Instant::add is exact but does not carry: the result is in range only   *)
(* if the nanoseconds do not overflow, so that it may compare wrongly with *)
(* another instant (JTime.cpp:33 builds the Instant as it is).             *)
THEOREM InstantAddDoesNotCarry ==
    ASSUME NEW i \in Normalised, NEW d \in Normalised
    PROVE  /\ Value(addToInstant(i, d)) = Value(i) + Value(d)
           /\ addToInstant(i, d) \in Normalised
                <=> i.nanos + d.nanos < NANO_BOUND
  <1>1. /\ InRange(i)
        /\ InRange(d)
    BY DEF Normalised, Times, InRange
  <1> QED
    BY <1>1, SMT DEF InRange, addToInstant, Normalised, Times, Value, Time, NANO_BOUND

(* between(i,j) is the time from j to i, exactly and in range.             *)
THEOREM BetweenExact ==
    ASSUME NEW i \in Normalised, NEW j \in Normalised
    PROVE  /\ between(i, j) \in Normalised
           /\ Value(between(i, j)) = Value(i) - Value(j)
  <1>1. /\ InRange(i)
        /\ InRange(j)
    BY DEF Normalised, Times, InRange
  <1> DEFINE n == i.nanos - j.nanos
             Enough(k) == /\ n + k * NANO_BOUND >= 0
                          /\ k = 0 \/ n + (k - 1) * NANO_BOUND < 0
             k == CHOOSE k \in Nat : Enough(k)
  <1>2. n \in Int /\ n > -NANO_BOUND /\ n < NANO_BOUND
    BY <1>1, SMT DEF InRange, NANO_BOUND
  <1>3. \E m \in Nat : Enough(m)
    <2>1. CASE n >= 0
      <3>1. Enough(0) BY <2>1, <1>2, SMT DEF NANO_BOUND
      <3> QED BY <3>1
    <2>2. CASE n < 0
      <3>1. Enough(1) BY <2>2, <1>2, SMT DEF NANO_BOUND
      <3> QED BY <3>1
    <2> QED BY <1>2, <2>1, <2>2
  <1>4. k \in Nat /\ Enough(k)
    BY <1>3
  <1>5. between(i, j) = [seconds |-> i.seconds - j.seconds - k,
                         nanos |-> n + k * NANO_BOUND]
    BY DEF between, Time
  <1> HIDE DEF k
  <1>6. n + k * NANO_BOUND < NANO_BOUND
    BY <1>2, <1>4, SMT DEF NANO_BOUND
  <1> QED
    BY <1>1, <1>2, <1>4, <1>5, <1>6, SMT DEF InRange, Normalised, Times, Value, NANO_BOUND

(* negate, whose seconds should go down for the nanoseconds they give, go  *)
(* up: the result is two seconds too large unless nanos is 0, though it is *)
(* in range and negating twice gives the duration back (JTime.cpp:219;     *)
(* JTime.hpp:240 has between(i,j).negate() equal to between(j,i)).         *)
THEOREM NegateTwoSecondsOff ==
    ASSUME NEW d \in Normalised
    PROVE  /\ negate(d) \in Normalised
           /\ Value(negate(d)) = -Value(d) + (IF d.nanos = 0 THEN 0
                                              ELSE 2 * NANO_BOUND)
           /\ negate(negate(d)) = d
  <1>1. /\ InRange(d)
        /\ d = [seconds |-> d.seconds, nanos |-> d.nanos]
    BY DEF Normalised, Times, InRange
  <1>2. CASE d.nanos = 0
    BY <1>1, <1>2, SMT DEF InRange, negate, Normalised, Times, Value, Time, NANO_BOUND
  <1>3. CASE d.nanos # 0
    <2> DEFINE m == [seconds |-> -d.seconds + 1, nanos |-> NANO_BOUND - d.nanos]
    <2>1. negate(d) = m
      BY <1>3 DEF negate, Time
    <2>2. m \in Normalised /\ m.nanos # 0
      BY <1>1, <1>3, SMT DEF InRange, Normalised, Times, NANO_BOUND
    <2>3. Value(m) = -Value(d) + 2 * NANO_BOUND
      BY <1>1, SMT DEF InRange, Value, NANO_BOUND
    <2>4. negate(m) = [seconds |-> -(-d.seconds + 1) + 1,
                       nanos |-> NANO_BOUND - (NANO_BOUND - d.nanos)]
      BY <2>2 DEF negate, Time
    <2>5. negate(m) = d
      BY <1>1, <2>4, SMT DEF InRange, NANO_BOUND
    <2> QED BY <1>3, <2>1, <2>2, <2>3, <2>5
  <1> QED BY <1>2, <1>3

(* Truncating to a multiple of b and counting in b loses nothing more.     *)
LEMMA QuotientOfMultiple ==
    ASSUME NEW a \in Int, NEW b \in {1, 60, 1000, 3600, 1000000}
    PROVE  Quotient(Quotient(a, b) * b, b) = Quotient(a, b)
  <1>1. CASE b = 1 BY <1>1, SMT DEF Quotient
  <1>2. CASE b = 60 BY <1>2, SMT DEF Quotient
  <1>3. CASE b = 1000 BY <1>3, SMT DEF Quotient
  <1>4. CASE b = 3600 BY <1>4, SMT DEF Quotient
  <1>5. CASE b = 1000000 BY <1>5, SMT DEF Quotient
  <1> QED BY <1>1, <1>2, <1>3, <1>4, <1>5, SMT

(* An instant got in a unit is the same after it is truncated to that unit *)
(* (JTime.hpp:153), whatever the sign of its seconds.                      *)
THEOREM GetTruncates ==
    ASSUME NEW i \in Normalised, NEW u \in ChronoUnit
    PROVE  get(truncateTo(i, u), u) = get(i, u)
  <1>1. InRange(i)
    BY DEF Normalised, Times, InRange
  <1>2. CASE u = "NANOSECONDS"
    BY <1>2 DEF truncateTo
  <1>3. CASE u \in {"MICROSECONDS", "MILISECONDS"}
    <2> DEFINE n == Quotient(i.nanos, InNanos[u]) * InNanos[u]
    <2>1. u \in DOMAIN InNanos /\ u # "NANOSECONDS"
      BY <1>3, SMT DEF InNanos
    <2>2. InNanos[u] \in {1000, 1000000}
      BY <1>3, SMT DEF InNanos
    <2>3. n \in Int /\ 0 <= n /\ n < NANO_BOUND
      BY <1>1, <2>2, SMT DEF InRange, Quotient, NANO_BOUND
    <2>4. Quotient(n, InNanos[u]) = Quotient(i.nanos, InNanos[u])
      BY <1>1, <2>2, QuotientOfMultiple, SMT DEF InRange, NANO_BOUND
    <2> HIDE DEF n
    <2>5. ofSeconds(i.seconds, n) = [seconds |-> i.seconds, nanos |-> n]
      BY <2>3, SMT DEF ofSeconds, Time, NANO_BOUND
    <2>6. truncateTo(i, u) = [seconds |-> i.seconds, nanos |-> n]
      BY <2>1, <2>5, Zenon DEF truncateTo, n
    <2> DEFINE t == [seconds |-> i.seconds, nanos |-> n]
    <2>7. t.seconds = i.seconds /\ t.nanos = n
      OBVIOUS
    <2> HIDE DEF t
    <2>8. get(t, u) = i.seconds * PerSecond(u) + Quotient(i.nanos, InNanos[u])
      BY <2>1, <2>4, <2>7, Zenon DEF get
    <2>9. get(i, u) = i.seconds * PerSecond(u) + Quotient(i.nanos, InNanos[u])
      BY <2>1, Zenon DEF get
    <2> QED BY <2>6, <2>8, <2>9, Zenon DEF t
  <1>4. CASE u \in {"SECONDS", "MINUTES", "HOURS"}
    <2>1. u \notin DOMAIN InNanos /\ u # "NANOSECONDS"
      BY <1>4, SMT DEF InNanos
    <2>2. InSeconds[u] \in {1, 60, 3600}
      BY <1>4, SMT DEF InSeconds
    <2>3. Quotient(Quotient(i.seconds, InSeconds[u]) * InSeconds[u],
                   InSeconds[u])
             = Quotient(i.seconds, InSeconds[u])
      <3>1. i.seconds \in Int
        BY <1>1 DEF InRange
      <3>2. InSeconds[u] \in {1, 60, 1000, 3600, 1000000}
        BY <2>2, SMT
      <3> QED BY <3>1, <3>2, QuotientOfMultiple
    <2> DEFINE q == Quotient(i.seconds, InSeconds[u]) * InSeconds[u]
    <2>4. truncateTo(i, u) = [seconds |-> q, nanos |-> 0]
      BY <2>1, Zenon DEF truncateTo, Time
    <2>5. truncateTo(i, u).seconds = q
      BY <2>4
    <2>6. /\ get(truncateTo(i, u), u)
               = Quotient(truncateTo(i, u).seconds, InSeconds[u])
          /\ get(i, u) = Quotient(i.seconds, InSeconds[u])
      BY <2>1, Zenon DEF get
    <2> QED BY <2>3, <2>5, <2>6, Zenon
  <1> QED BY <1>2, <1>3, <1>4 DEF ChronoUnit
=============================================================================
