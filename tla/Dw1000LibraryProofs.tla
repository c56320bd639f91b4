-------------------------- MODULE Dw1000LibraryProofs --------------------------
(***************************************************************************)
(* The DW1000 library, part by part, for every value of its constants: its *)
(* arithmetic of times (Dw1000Time), the radio with its interrupt handler  *)
(* (Dw1000Radio), the configuration of one chip (Dw1000Config), the table  *)
(* of devices (DeviceTable) and the exchanges of a tag with any number of  *)
(* anchors (Dw1000Ranging).                                                *)
(***************************************************************************)
EXTENDS Dw1000Library, FiniteSetTheorems, SequenceTheorems, WellFoundedInduction, TLAPS

----------------------------------------------------------------------------
(* Arithmetic.                                                             *)

(* Division with a remainder.                                              *)
LEMMA Division ==
  ASSUME NEW a \in Int, NEW n \in Nat \ {0}
  PROVE  /\ a % n \in 0 .. n - 1
         /\ a \div n \in Int
         /\ a = n * (a \div n) + (a % n)
  BY SMT

(* A quotient is at least a number if so many times the divisor is no      *)
(* more, and at most one if one more is too much.                          *)
LEMMA DivBounds ==
  ASSUME NEW a \in Int, NEW n \in Nat \ {0}, NEW k \in Int
  PROVE  /\ n * k <= a => k <= a \div n
         /\ a < n * (k + 1) => a \div n <= k
<1> DEFINE q == a \div n
           r == a % n
<1>1. r \in 0 .. n - 1 /\ q \in Int /\ a = n * q + r
  BY Division
<1> HIDE DEF q, r
<1>2. ASSUME n * k <= a PROVE k <= q
  <2>1. n * (k - q) <= r BY <1>1, <1>2, SMT
  <2>2. CASE k >= q + 1
    <3>1. n * (k - q) >= n BY <1>1, <2>2, SMT
    <3> QED BY <1>1, <2>1, <3>1
  <2> QED BY <1>1, <2>2
<1>3. ASSUME a < n * (k + 1) PROVE q <= k
  <2>1. r < n * (k + 1 - q) BY <1>1, <1>3, SMT
  <2>2. CASE k + 1 - q <= 0
    <3>1. n * (k + 1 - q) <= 0 BY <1>1, <2>2, SMT
    <3> QED BY <1>1, <2>1, <3>1
  <2> QED BY <1>1, <2>2
<1> QED BY <1>2, <1>3 DEF q

(* A number that is so many times another is divided by it.                *)
LEMMA ExactQuotient ==
  ASSUME NEW q \in Int, NEW n \in Nat \ {0}
  PROVE  (n * q) \div n = q /\ (n * q) % n = 0
<1>1. /\ (n * q) % n \in 0 .. n - 1
      /\ (n * q) \div n \in Int
      /\ n * q = n * ((n * q) \div n) + ((n * q) % n)
  <2>1. n * q \in Int
    OBVIOUS
  <2> QED BY <2>1, Division
<1> DEFINE k == q - ((n * q) \div n)
<1>2. k \in Int /\ n * k = (n * q) % n
  BY <1>1, SMT
<1>3. k = 0
  <2>1. CASE k >= 1
    <3>1. n * k >= n BY <1>2, <2>1, SMT
    <3> QED BY <3>1, <1>1, <1>2
  <2>2. CASE k <= -1
    <3>1. n * k <= -n BY <1>2, <2>2, SMT
    <3> QED BY <3>1, <1>1, <1>2
  <2> QED BY <1>2, <2>1, <2>2
<1>4. n * k = 0
  BY <1>3, SMT
<1> QED BY <1>1, <1>2, <1>3, <1>4

(* What is left when the low part of a number is cut off has no low part.  *)
LEMMA CutOff ==
  ASSUME NEW a \in Int, NEW g \in Nat \ {0}
  PROVE  (a - (a % g)) % g = 0 /\ a - (a % g) \in Int
<1>1. a % g \in 0 .. g - 1 /\ a \div g \in Int /\ a = g * (a \div g) + (a % g)
  BY Division
<1>2. a - (a % g) = g * (a \div g)
  BY <1>1
<1>3. (g * (a \div g)) % g = 0
  BY <1>1, ExactQuotient
<1> QED BY <1>1, <1>2, <1>3

(* The difference of two times of one clock, corrected once, is the time   *)
(* that has passed.                                                        *)
LEMMA WrapIsElapsed ==
  ASSUME NEW o \in Int, NEW x \in Int, NEW y \in Int, 0 <= x - y, x - y < Overflow
  PROVE  Wrap(((o + x) % Overflow) - ((o + y) % Overflow)) = x - y
<1> DEFINE n == Overflow
           a == (o + x) % n
           b == (o + y) % n
           p == (o + x) \div n
           q == (o + y) \div n
           k == p - q
<1>0. n \in Nat \ {0}
  BY TimeAssumption DEF TimeAssumption
<1>1. a \in 0 .. n - 1 /\ p \in Int /\ o + x = n * p + a
  <2>1. o + x \in Int OBVIOUS
  <2> QED BY <2>1, <1>0, Division
<1>2. b \in 0 .. n - 1 /\ q \in Int /\ o + y = n * q + b
  <2>1. o + y \in Int OBVIOUS
  <2> QED BY <2>1, <1>0, Division
<1> HIDE DEF a, b, p, q
<1>3. n * k = (x - y) - (a - b)
  BY <1>0, <1>1, <1>2, SMT
<1>4. k \in {0, 1}
  <2>1. CASE k >= 2
    <3>1. n * k >= 2 * n BY <1>0, <1>1, <1>2, <2>1, SMT
    <3> QED BY <3>1, <1>0, <1>1, <1>2, <1>3
  <2>2. CASE k <= -1
    <3>1. n * k <= -n BY <1>0, <1>1, <1>2, <2>2, SMT
    <3> QED BY <3>1, <1>0, <1>1, <1>2, <1>3
  <2> QED BY <1>1, <1>2, <2>1, <2>2
<1>5. CASE k = 0
  <2>1. n * k = 0 BY <1>0, <1>5, SMT
  <2>2. a - b = x - y /\ a - b >= 0 BY <2>1, <1>1, <1>2, <1>3
  <2> QED BY <2>2, <1>1, <1>2 DEF Wrap, a, b
<1>6. CASE k = 1
  <2>1. n * k = n BY <1>0, <1>6, SMT
  <2>2. a - b = (x - y) - n /\ a - b < 0 BY <2>1, <1>0, <1>1, <1>2, <1>3
  <2> QED BY <2>2, <1>0, <1>1, <1>2 DEF Wrap, a, b
<1> QED BY <1>4, <1>5, <1>6

(* The asymmetric formula: two rounds that are longer than the replies in  *)
(* them by twice the time of flight.                                       *)
LEMMA AsymmetricFormula ==
  ASSUME NEW t \in Nat, NEW p \in Nat \ {0}, NEW q \in Nat
  PROVE  Quotient((p + 2 * t) * (q + 2 * t) - p * q, (p + 2 * t) + (q + 2 * t) + p + q) = t
<1> DEFINE n == (p + 2 * t) * (q + 2 * t) - p * q
           d == (p + 2 * t) + (q + 2 * t) + p + q
<1>1. d \in Nat \ {0}
  OBVIOUS
<1>2. n = d * t
  BY SMT
<1>3. n >= 0 /\ n \in Int
  <2>1. d * t >= 0 BY <1>1, SMT
  <2> QED BY <2>1, <1>2
<1>4. (d * t) \div d = t
  BY <1>1, ExactQuotient
<1> HIDE DEF n, d
<1>5. Quotient(n, d) = t
  BY <1>1, <1>2, <1>3, <1>4 DEF Quotient
<1> QED BY <1>5 DEF n, d

(* What a clock that gains a tick in g gains between two moments: at most  *)
(* what passes, and a g-th of it up to one tick.                           *)
LEMMA Gained ==
  ASSUME NEW g \in Nat \ {0}, NEW x \in Nat, NEW y \in Nat, y <= x
  PROVE  LET e == (x \div g) - (y \div g) IN
         e \in 0 .. x - y /\ g * e < (x - y) + g /\ (x - y) - g < g * e
<1> DEFINE p == x \div g  r == x % g  q == y \div g  s == y % g  e == p - q
<1>1. r \in 0 .. g - 1 /\ p \in Int /\ x = g * p + r
  BY Division
<1>2. s \in 0 .. g - 1 /\ q \in Int /\ y = g * q + s
  BY Division
<1> HIDE DEF p, q, r, s
<1>3. g * e = (x - y) - (r - s)
  BY <1>1, <1>2, SMT
<1>4. g * e < (x - y) + g /\ (x - y) - g < g * e
  BY <1>1, <1>2, <1>3
<1>5. e >= 0
  <2>1. CASE e <= -1
    <3>1. g * e <= -g BY <1>1, <1>2, <2>1, SMT
    <3> QED BY <3>1, <1>1, <1>2, <1>4
  <2> QED BY <1>1, <1>2, <2>1
<1>6. e <= x - y
  <2> DEFINE m == x - y
  <2>1. CASE e >= m + 1
    <3>1. g * (m + 1) <= g * e BY <1>1, <1>2, <2>1, SMT
    <3>2. g * (m + 1) = g * m + g /\ m <= g * m BY SMT
    <3> QED BY <3>1, <3>2, <1>1, <1>2, <1>4
  <2> QED BY <1>1, <1>2, <2>1
<1> QED BY <1>1, <1>2, <1>4, <1>5, <1>6 DEF p, q

(* The two parts of the asymmetric formula, where the anchor's clock       *)
(* gained e1 in its reply p and e2 in its round: the time of flight, and   *)
(* what the gains put on it.                                               *)
LEMMA Numerator ==
  ASSUME NEW t \in Nat, NEW p \in Nat, NEW q \in Nat, NEW e1 \in Nat, NEW e2 \in Nat
  PROVE  LET u == p + t  v == q + t
             den == (p + 2 * t) + (q + 2 * t + e2) + (p + e1) + q
         IN  /\ (p + 2 * t) * (q + 2 * t + e2) - (p + e1) * q = t * den + (u * e2 - v * e1)
             /\ den = 2 * (u + v) + e1 + e2
  BY SMT

(* What the gains put on it: less than half the denominator is taken away, *)
(* and no more added than half of the gain in the time of flight.          *)
LEMMA DriftError ==
  ASSUME NEW g \in Nat \ {0}, NEW t \in Nat, NEW p \in Nat \ {0}, NEW q \in Nat,
         NEW e1 \in Nat, g * e1 < p + g, p - g < g * e1,
         NEW e2 \in Nat, g * e2 < q + 2 * t + g, q + 2 * t - g < g * e2
  PROVE  LET u == p + t  v == q + t  x == u * e2 - v * e1 IN
         /\ -(u + v) < x
         /\ g * x <= (t + g) * (u + v)
<1> DEFINE u == p + t
           v == q + t
           x == u * e2 - v * e1
           a == g * e1 - p
           b == g * e2 - (q + 2 * t)
<1>1. /\ u \in Nat \ {0} /\ v \in Nat /\ x \in Int /\ a \in Int /\ b \in Int
      /\ -g < a /\ a < g /\ -g < b /\ b < g
  <2>1. u * e2 \in Int /\ v * e1 \in Int /\ g * e1 \in Int /\ g * e2 \in Int OBVIOUS
  <2> QED BY <2>1
<1>2. g * x = t * (u + v) + (u * b - v * a)
  BY SMT
<1> HIDE DEF u, v, x, a, b
<1>3. u * b <= u * g /\ -(u * g) <= u * b
  BY <1>1, SMT
<1>4. v * a <= v * g /\ -(v * g) <= v * a
  BY <1>1, SMT
<1>5. u * b >= -(u * g) + u
  <2>1. u * (b + g - 1) >= 0 BY <1>1, SMT
  <2>2. u * (b + g - 1) = u * b + u * g - u BY <1>1, SMT
  <2> QED BY <2>1, <2>2, <1>1, SMT
<1>6. g * x <= (t + g) * (u + v)
  <2>1. (t + g) * (u + v) = t * (u + v) + (u * g + v * g) BY <1>1, SMT
  <2> QED BY <2>1, <1>1, <1>2, <1>3, <1>4, SMT
<1>7. -(u + v) < x
  <2>1. t * (u + v) >= 0 BY <1>1, SMT
  <2>2. g * x > -(u * g + v * g)
    BY <2>1, <1>1, <1>2, <1>4, <1>5, SMT
  <2>3. g * (x + (u + v)) > 0
    <3>1. g * (x + (u + v)) = g * x + (u * g + v * g) BY <1>1, SMT
    <3> QED BY <2>2, <3>1, <1>1, SMT
  <2>4. CASE x + (u + v) <= 0
    <3>1. g * (x + (u + v)) <= 0 BY <1>1, <2>4, SMT
    <3> QED BY <3>1, <2>3, <1>1
  <2> QED BY <2>4, <1>1
<1> QED BY <1>6, <1>7 DEF u, v, x

(* The asymmetric formula with an anchor's clock that gains a tick in g.   *)
LEMMA CloseFormula ==
  ASSUME NEW g \in Nat \ {0}, NEW t \in Nat, NEW p \in Nat \ {0}, NEW q \in Nat,
         NEW e1 \in Nat, g * e1 < p + g, p - g < g * e1,
         NEW e2 \in Nat, g * e2 < q + 2 * t + g, q + 2 * t - g < g * e2
  PROVE  LET n == (p + 2 * t) * (q + 2 * t + e2) - (p + e1) * q
             den == (p + 2 * t) + (q + 2 * t + e2) + (p + e1) + q
         IN  /\ Quotient(n, den) \in Int
             /\ Quotient(n, den) - t \in -1 .. (g + t) \div (2 * g)
<1> DEFINE n == (p + 2 * t) * (q + 2 * t + e2) - (p + e1) * q
           den == (p + 2 * t) + (q + 2 * t + e2) + (p + e1) + q
           w == (p + t) + (q + t)
           x == (p + t) * e2 - (q + t) * e1
<1>1. n = t * den + x /\ den = 2 * w + e1 + e2
  BY Numerator
<1>2. -w < x /\ g * x <= (t + g) * w
  BY DriftError
<1>3. /\ w \in Nat \ {0} /\ x \in Int /\ den \in Nat \ {0} /\ n \in Int
  <2>1. (p + t) * e2 \in Int /\ (q + t) * e1 \in Int /\ (p + 2 * t) * (q + 2 * t + e2) \in Int /\ (p + e1) * q \in Int OBVIOUS
  <2> QED BY <2>1
<1> HIDE DEF n, den, w, x
<1> DEFINE h == (g + t) \div (2 * g)
<1>4. h \in Nat
  <2>1. h \in Int /\ (2 * g) * 0 <= g + t => 0 <= h BY DivBounds, Division
  <2> QED BY <2>1
<1>5. CASE n < 0
  <2>1. t = 0
    <3>1. CASE t >= 1
      <4>1. t * den >= den BY <3>1, <1>3, SMT
      <4> QED BY <4>1, <1>1, <1>2, <1>3, <1>5
    <3> QED BY <3>1
  <2>2. t * den = 0 BY <2>1, <1>3, SMT
  <2>3. 0 <= -n /\ -n < den BY <2>2, <1>1, <1>2, <1>3, <1>5
  <2>4. (-n) \div den = 0
    <3>1. -n \in Int /\ den * 0 <= -n /\ -n < den * (0 + 1) BY <2>3, <1>3
    <3>2. 0 <= (-n) \div den /\ (-n) \div den <= 0 BY <3>1, <1>3, DivBounds
    <3>3. (-n) \div den \in Int BY <3>1, <1>3, Division
    <3> QED BY <3>2, <3>3
  <2>5. Quotient(n, den) = 0 BY <2>4, <1>5 DEF Quotient
  <2> QED BY <2>1, <2>5, <1>4 DEF n, den, h
<1>6. CASE n >= 0
  <2> DEFINE c == n \div den
             k == c - t
             r == n % den
  <2>1. c \in Int /\ r \in 0 .. den - 1 /\ n = den * c + r
    BY <1>3, Division
  <2>2. Quotient(n, den) = c
    BY <1>3, <1>6 DEF Quotient
  <2> HIDE DEF c, r
  <2>3. den * k + r = x
    <3>1. den * k = den * c - t * den BY <1>3, <2>1, SMT
    <3> QED BY <3>1, <1>1, <1>3, <2>1, SMT
  <2>4. k >= -1
    <3>1. CASE k <= -2
      <4>1. den * k <= -2 * den BY <3>1, <1>3, <2>1, SMT
      <4> QED BY <4>1, <2>1, <2>3, <1>1, <1>2, <1>3
    <3> QED BY <3>1, <2>1
  <2>5. k <= h
    <3>1. CASE k <= 0
      BY <3>1, <1>4, <2>1
    <3>2. CASE k >= 1
      <4>1. 2 * w * k <= x
        <5>1. (e1 + e2) * k >= 0 BY <3>2, <2>1, SMT
        <5>2. den * k = 2 * w * k + (e1 + e2) * k BY <1>1, <1>3, <2>1, SMT
        <5>3. 2 * w * k \in Int /\ (e1 + e2) * k \in Int BY <1>3, <2>1
        <5> QED BY <5>1, <5>2, <5>3, <1>3, <2>1, <2>3
      <4>2. g * (2 * w * k) <= (t + g) * w
        <5>1. g * (2 * w * k) <= g * x BY <4>1, <1>3, <2>1, SMT
        <5> QED BY <5>1, <1>2, <1>3, <2>1, SMT
      <4>3. w * ((t + g) - 2 * g * k) >= 0
        <5>1. w * ((t + g) - 2 * g * k) = (t + g) * w - g * (2 * w * k) BY <1>3, <2>1, SMT
        <5>2. (t + g) * w \in Int /\ g * (2 * w * k) \in Int BY <1>3, <2>1
        <5> QED BY <5>1, <5>2, <4>2
      <4>4. (2 * g) * k <= g + t
        <5> DEFINE z == (t + g) - 2 * g * k
        <5>1. z \in Int BY <2>1
        <5> HIDE DEF z
        <5>2. CASE z <= -1
          <6>1. w * z <= -w BY <5>1, <5>2, <1>3, SMT
          <6> QED BY <6>1, <1>3, <4>3, <5>1 DEF z
        <5>3. CASE z >= 0 BY <5>3, <2>1 DEF z
        <5> QED BY <5>1, <5>2, <5>3
      <4> QED BY <4>4, <2>1, DivBounds, SMTT(30)
    <3> QED BY <3>1, <3>2, <2>1
  <2> QED BY <2>1, <2>2, <2>4, <2>5, <1>4 DEF n, den, h
<1> QED BY <1>3, <1>5, <1>6

----------------------------------------------------------------------------
(* The invariant: what is known of an exchange at each of its frames.      *)

Reply == MaxLatency + ReplyDelay + AntennaDelay

Recorded(e, d) == stamps[e] = Clock(d, at[e])

SincePoll == {"poll", "answering", "pollAck", "reporting", "range"}

Progress ==
    /\ phase \in SincePoll => Recorded("pollSent", "tag")
    /\ phase = "poll" => now = at.pollSent
    /\ phase \in SincePoll \ {"poll"} =>
         Recorded("pollReceived", "anchor") /\ at.pollReceived = at.pollSent + tof
    /\ phase = "answering" => now = at.pollReceived
    /\ phase \in {"pollAck", "reporting", "range"} =>
         Recorded("pollAckSent", "anchor") /\ at.pollAckSent - at.pollReceived \in 1 .. Reply
    /\ phase = "pollAck" => now = at.pollAckSent
    /\ phase \in {"reporting", "range"} =>
         Recorded("pollAckReceived", "tag") /\ at.pollAckReceived = at.pollAckSent + tof
    /\ phase = "reporting" => now = at.pollAckReceived
    /\ phase = "range" =>
         /\ Recorded("rangeSent", "tag") /\ at.rangeSent - at.pollAckReceived \in 1 .. Reply
         /\ now = at.rangeSent

Inv == TypeOK /\ Progress

RangeHolds == Exact /\ CloseWithDrift

(* What a clock shows is five octets wide.                                 *)
LEMMA ClockShows ==
  ASSUME TypeOK, NEW d \in Devices, NEW t \in Nat
  PROVE  /\ Drift(d, t) \in Nat
         /\ Clock(d, t) = (offset[d] + (t + Drift(d, t))) % Overflow
         /\ Clock(d, t) \in 0 .. Overflow - 1
<1>1. gain \in Nat /\ offset[d] \in Int /\ Overflow \in Nat \ {0}
  BY TimeAssumption DEF TypeOK, TimeAssumption
<1>2. Drift(d, t) \in Nat
  <2>1. CASE d = "tag" \/ gain = 0
    BY <2>1 DEF Drift
  <2>2. CASE d # "tag" /\ gain # 0
    <3>1. gain \in Nat \ {0} /\ t \in Int /\ gain * 0 <= t BY <1>1, <2>2
    <3>2. t \div gain \in Int /\ 0 <= t \div gain BY <3>1, Division, DivBounds
    <3> QED BY <2>2, <3>2 DEF Drift
  <2> QED BY <2>1, <2>2
<1>3. Clock(d, t) = (offset[d] + (t + Drift(d, t))) % Overflow
  <2>1. offset[d] + t + Drift(d, t) = offset[d] + (t + Drift(d, t)) BY <1>1, <1>2
  <2> QED BY <2>1 DEF Clock
<1>4. offset[d] + (t + Drift(d, t)) \in Int
  BY <1>1, <1>2
<1> QED BY <1>1, <1>2, <1>3, <1>4, Division

(* What a clock may have gained over n.                                    *)
Drifted(e, n) ==
    /\ gain = 0 => e = 0
    /\ gain # 0 => gain * e < n + gain /\ n - gain < gain * e

(* The difference of two stamps of one clock is the time that has passed,  *)
(* and what the clock has gained, which is nothing for the tag.            *)
LEMMA Elapsed ==
  ASSUME TypeOK, NEW d \in Devices, NEW x \in Nat, NEW y \in Nat, y <= x, 2 * (x - y) < Overflow
  PROVE  \E e \in Nat :
           /\ Wrap(Clock(d, x) - Clock(d, y)) = (x - y) + e
           /\ d = "tag" => e = 0
           /\ d # "tag" => Drifted(e, x - y)
<1> DEFINE e == Drift(d, x) - Drift(d, y)
<1>0. gain \in Nat /\ offset[d] \in Int /\ Overflow \in Nat \ {0}
  BY TimeAssumption DEF TypeOK, TimeAssumption
<1>1. Drift(d, x) \in Nat /\ Drift(d, y) \in Nat
  BY ClockShows
<1>2. /\ e \in 0 .. x - y
      /\ d = "tag" => e = 0
      /\ d # "tag" => Drifted(e, x - y)
  <2>1. CASE d = "tag" \/ gain = 0
    <3>1. e = 0 BY <2>1 DEF Drift
    <3> QED BY <2>1, <3>1 DEF Drifted
  <2>2. CASE d # "tag" /\ gain # 0
    <3>1. Drift(d, x) = x \div gain /\ Drift(d, y) = y \div gain /\ gain \in Nat \ {0}
      BY <1>0, <2>2 DEF Drift
    <3>2. e = (x \div gain) - (y \div gain) BY <3>1
    <3> HIDE DEF e
    <3>3. e \in 0 .. x - y /\ gain * e < (x - y) + gain /\ (x - y) - gain < gain * e
      BY <3>1, <3>2, Gained
    <3> QED BY <2>2, <3>3 DEF Drifted
  <2> QED BY <2>1, <2>2
<1>3. Wrap(Clock(d, x) - Clock(d, y)) = (x - y) + e
  <2>1. /\ Clock(d, x) = (offset[d] + (x + Drift(d, x))) % Overflow
        /\ Clock(d, y) = (offset[d] + (y + Drift(d, y))) % Overflow
    BY ClockShows
  <2>2. PICK a \in Int, b \in Int : a = x + Drift(d, x) /\ b = y + Drift(d, y)
    BY <1>1
  <2>3. a - b = (x - y) + e /\ 0 <= a - b /\ a - b < Overflow
    BY <1>0, <1>1, <1>2, <2>2
  <2>4. Wrap(((offset[d] + a) % Overflow) - ((offset[d] + b) % Overflow)) = a - b
    BY <1>0, <2>3, WrapIsElapsed
  <2> QED BY <2>1, <2>2, <2>3, <2>4
<1>4. e \in Nat
  BY <1>2
<1> QED BY <1>2, <1>3, <1>4

(* The same for each of the two.                                           *)
LEMMA TagElapsed ==
  ASSUME TypeOK, NEW x \in Nat, NEW y \in Nat, y <= x, 2 * (x - y) < Overflow
  PROVE  Wrap(Clock("tag", x) - Clock("tag", y)) = x - y
<1>1. "tag" \in Devices
  BY DEF Devices
<1>2. PICK e \in Nat : Wrap(Clock("tag", x) - Clock("tag", y)) = (x - y) + e /\ e = 0
  BY <1>1, Elapsed
<1> QED BY <1>2

LEMMA AnchorElapsed ==
  ASSUME TypeOK, NEW x \in Nat, NEW y \in Nat, y <= x, 2 * (x - y) < Overflow
  PROVE  \E e \in Nat : Wrap(Clock("anchor", x) - Clock("anchor", y)) = (x - y) + e /\ Drifted(e, x - y)
<1>1. "anchor" \in Devices /\ "anchor" # "tag"
  BY DEF Devices
<1> QED BY <1>1, Elapsed

(* A frame of the tag leaves when its clock shows the programmed time.     *)
LEMMA TagLeaves ==
  ASSUME TypeOK, NEW register \in Int, NEW from \in Nat, NEW t \in Nat, t >= 1, Leaves("tag", register, from, t)
  PROVE  Clock("tag", t) = (register - (register % Grain) + AntennaDelay) % Overflow
<1> DEFINE start == (register - (register % Grain) + AntennaDelay) % Overflow
           c == Clock("tag", t)
<1>0. Overflow \in Nat \ {0} /\ Grain \in Nat \ {0} /\ AntennaDelay \in Nat
  BY TimeAssumption DEF TimeAssumption
<1>1. start \in 0 .. Overflow - 1
  <2>1. register - (register % Grain) + AntennaDelay \in Int BY <1>0, CutOff
  <2> QED BY <2>1, <1>0, Division
<1>2. c \in 0 .. Overflow - 1
  BY ClockShows DEF Devices
<1>3. (c - start) % Overflow <= 0
  BY DEF Leaves, Drift
<1> HIDE DEF c, start
<1>4. /\ (c - start) % Overflow \in 0 .. Overflow - 1
      /\ (c - start) \div Overflow \in Int
      /\ c - start = Overflow * ((c - start) \div Overflow) + ((c - start) % Overflow)
  <2>1. c - start \in Int BY <1>0, <1>1, <1>2
  <2> QED BY <2>1, <1>0, Division
<1> DEFINE k == (c - start) \div Overflow
<1>5. c - start = Overflow * k /\ k \in Int
  <2>1. (c - start) % Overflow = 0 BY <1>0, <1>3, <1>4
  <2>2. Overflow * k \in Int BY <1>0, <1>4
  <2> QED BY <2>1, <2>2, <1>4
<1> HIDE DEF k
<1>6. k = 0
  <2>1. CASE k >= 1
    <3>1. Overflow * k >= Overflow BY <1>0, <1>5, <2>1, SMT
    <3> QED BY <3>1, <1>0, <1>1, <1>2, <1>5
  <2>2. CASE k <= -1
    <3>1. Overflow * k <= -Overflow BY <1>0, <1>5, <2>2, SMT
    <3> QED BY <3>1, <1>0, <1>1, <1>2, <1>5
  <2> QED BY <1>5, <2>1, <2>2
<1>7. Overflow * k = 0
  BY <1>0, <1>6, SMT
<1> QED BY <1>1, <1>2, <1>5, <1>7 DEF c, start

(* What SetDelay promises is what the chip's clock shows when the frame    *)
(* leaves.                                                                 *)
LEMMA PromiseKept ==
  ASSUME NEW clock \in Int
  PROVE  LET delay == SetDelay(clock) IN
         /\ delay.register \in Int
         /\ Octets(delay.expected)
              = (delay.register - (delay.register % Grain) + AntennaDelay) % Overflow
         /\ Octets(delay.expected) \in 0 .. Overflow - 1
<1> DEFINE future == (clock + ReplyDelay) % Overflow
           rounded == future - (future % Grain)
<1>1. Grain \in Nat \ {0} /\ Overflow \in Nat \ {0} /\ ReplyDelay \in Nat /\ AntennaDelay \in Nat
  BY TimeAssumption DEF TimeAssumption
<1>2. future \in Int
  <2>1. clock + ReplyDelay \in Int BY <1>1
  <2> QED BY <2>1, <1>1, Division
<1>3. rounded % Grain = 0 /\ rounded \in Int
  BY <1>1, <1>2, CutOff
<1>4. SetDelay(clock) = [register |-> rounded, expected |-> rounded + AntennaDelay]
  BY DEF SetDelay, Octets
<1> HIDE DEF future, rounded
<1>5. rounded - (rounded % Grain) = rounded
  BY <1>3
<1>6. rounded + AntennaDelay \in Int
  BY <1>1, <1>3
<1>7. (rounded + AntennaDelay) % Overflow \in 0 .. Overflow - 1
  BY <1>1, <1>6, Division
<1> QED BY <1>3, <1>4, <1>5, <1>7 DEF Octets

----------------------------------------------------------------------------
(* The initial states.                                                     *)
LEMMA InitInv == Init => Inv /\ RangeHolds
<1> SUFFICES ASSUME Init PROVE Inv /\ RangeHolds
  OBVIOUS
<1> USE TimeAssumption DEF TimeAssumption, Init
<1>1. offset \in [Devices -> 0 .. Overflow - 1]
  OBVIOUS
<1>2. TypeOK
  <2>1. at \in [Events -> Nat] /\ stamps \in [Events -> 0 .. Overflow - 1]
    OBVIOUS
  <2>2. range \in [computed : Int, true : 0 .. MaxTof]
    OBVIOUS
  <2> QED BY <1>1, <2>1, <2>2 DEF TypeOK
<1>3. Progress
  BY DEF Progress, SincePoll
<1>4. CloseWithDrift
  <2> SUFFICES ASSUME gain > 0 PROVE 0 \in -1 .. gain \div (2 * gain)
    BY <1>2 DEF CloseWithDrift, TypeOK
  <2>1. gain \in Nat \ {0} /\ 2 * gain \in Nat \ {0} /\ (2 * gain) * 0 <= gain BY <1>2 DEF TypeOK
  <2>2. gain \div (2 * gain) \in Int /\ 0 <= gain \div (2 * gain) BY <2>1, Division, DivBounds
  <2> QED BY <2>2
<1>5. Exact
  BY DEF Exact
<1> QED BY <1>2, <1>3, <1>4, <1>5 DEF Inv, RangeHolds

----------------------------------------------------------------------------
(* The steps.                                                              *)

(* An event that happens at a later time is recorded with the value the    *)
(* clock of its device shows, and nothing else is touched.                 *)
LEMMA HappensRecords ==
  ASSUME TypeOK, NEW e \in Events, NEW d \in Devices, NEW t \in Nat,
         Happens(e, d, t), UNCHANGED <<offset, tof, gain, range>>,
         phase' \in {"idle", "poll", "answering", "pollAck", "reporting", "range", "done"}
  PROVE  /\ TypeOK'
         /\ Recorded(e, d)' /\ at'[e] = t /\ now' = t
         /\ \A f \in Events \ {e} : at'[f] = at[f] /\ stamps'[f] = stamps[f]
<1>1. Clock(d, t) \in 0 .. Overflow - 1
  BY ClockShows
<1>2. at' = [at EXCEPT ![e] = t] /\ stamps' = [stamps EXCEPT ![e] = Clock(d, t)] /\ now' = t
  BY DEF Happens
<1>3. at'[e] = t /\ stamps'[e] = Clock(d, t)
  BY <1>2 DEF TypeOK
<1>4. \A f \in Events \ {e} : at'[f] = at[f] /\ stamps'[f] = stamps[f]
  BY <1>2 DEF TypeOK
<1>5. TypeOK'
  <2>1. at' \in [Events -> Nat] BY <1>2 DEF TypeOK
  <2>2. stamps' \in [Events -> 0 .. Overflow - 1] BY <1>1, <1>2 DEF TypeOK
  <2> QED BY <1>2, <2>1, <2>2 DEF TypeOK
<1>6. Recorded(e, d)'
  BY <1>3 DEF Recorded, Clock, Drift
<1> QED BY <1>2, <1>3, <1>4, <1>5, <1>6

(* What was recorded stays so.                                             *)
LEMMA StaysRecorded ==
  ASSUME NEW e, NEW d, Recorded(e, d), UNCHANGED <<offset, gain>>,
         at'[e] = at[e], stamps'[e] = stamps[e]
  PROVE  Recorded(e, d)'
BY DEF Recorded, Clock, Drift

(* A frame leaves within the time a reply may take.                        *)
LEMMA LeavesInTime ==
  ASSUME TypeOK, NEW d, NEW register, NEW h \in Latency, NEW t \in Int, Leaves(d, register, now + h, t)
  PROVE  t \in Nat /\ t - now \in 1 .. Reply
<1>1. /\ now \in Nat /\ h \in Nat /\ h <= MaxLatency
      /\ MaxLatency \in Nat /\ ReplyDelay \in Nat /\ AntennaDelay \in Nat
  BY TimeAssumption DEF TypeOK, Latency, TimeAssumption
<1>2. now + h + 1 <= t /\ t <= now + h + ReplyDelay + AntennaDelay
  BY <1>1 DEF Leaves
<1> QED BY <1>1, <1>2 DEF Reply

(* The last event: the range is computed from six recorded times.          *)
LEMMA RangeIsClose ==
  ASSUME Inv, RangeReceived, at' \in [Events -> Nat],
         stamps'["rangeReceived"] = Clock("anchor", at'["rangeReceived"]),
         at'["rangeReceived"] = now + tof,
         \A f \in Events \ {"rangeReceived"} : at'[f] = at[f] /\ stamps'[f] = stamps[f]
  PROVE  LET r == RangeAsymmetric(stamps') IN
         /\ r \in Int
         /\ gain = 0 => r = tof
         /\ gain > 0 => r - tof \in -1 .. (gain + tof) \div (2 * gain)
<1>0. /\ TypeOK /\ "tag" \in Devices /\ "anchor" \in Devices /\ "anchor" # "tag"
      /\ MaxTof \in Nat /\ Reply \in Nat /\ Overflow \in Nat /\ 2 * (Reply + 2 * MaxTof) < Overflow
  BY TimeAssumption DEF Inv, TimeAssumption, Reply, Devices
<1>1. PICK f : f = tof
  OBVIOUS
<1>2. f \in Nat /\ f <= MaxTof /\ gain \in Nat
  BY <1>0, <1>1, TimeAssumption DEF TypeOK, TimeAssumption
<1>3. PICK t1 \in Nat, t2 \in Nat, t3 \in Nat, t4 \in Nat, t5 \in Nat, t6 \in Nat :
        /\ t1 = at'["pollSent"] /\ t2 = at'["pollReceived"] /\ t3 = at'["pollAckSent"]
        /\ t4 = at'["pollAckReceived"] /\ t5 = at'["rangeSent"] /\ t6 = at'["rangeReceived"]
  BY DEF Events
<1>4. /\ stamps'["pollSent"] = Clock("tag", t1)
      /\ stamps'["pollReceived"] = Clock("anchor", t2)
      /\ stamps'["pollAckSent"] = Clock("anchor", t3)
      /\ stamps'["pollAckReceived"] = Clock("tag", t4)
      /\ stamps'["rangeSent"] = Clock("tag", t5)
      /\ stamps'["rangeReceived"] = Clock("anchor", t6)
  BY <1>3 DEF Inv, Progress, Recorded, SincePoll, RangeReceived, Events
<1>5. /\ t2 = t1 + f /\ t3 - t2 \in 1 .. Reply /\ t4 = t3 + f
      /\ t5 - t4 \in 1 .. Reply /\ t6 = t5 + f
  BY <1>1, <1>3 DEF Inv, Progress, SincePoll, RangeReceived, Events
<1>6. PICK p \in Nat \ {0}, q \in Nat : p = t3 - t2 /\ q = t5 - t4 /\ p <= Reply /\ q <= Reply
  BY <1>0, <1>5
<1>7. /\ t4 - t1 = p + 2 * f /\ t3 - t2 = p /\ t6 - t3 = q + 2 * f /\ t5 - t4 = q
      /\ t1 <= t4 /\ 2 * (t4 - t1) < Overflow /\ t2 <= t3 /\ 2 * (t3 - t2) < Overflow
      /\ t3 <= t6 /\ 2 * (t6 - t3) < Overflow /\ t4 <= t5 /\ 2 * (t5 - t4) < Overflow
  BY <1>0, <1>2, <1>5, <1>6
<1>8. Wrap(Clock("tag", t4) - Clock("tag", t1)) = p + 2 * f
  BY <1>0, <1>2, <1>7, TagElapsed
<1>9. Wrap(Clock("tag", t5) - Clock("tag", t4)) = q
  BY <1>0, <1>7, TagElapsed
<1>10. PICK e1 \in Nat : Wrap(Clock("anchor", t3) - Clock("anchor", t2)) = p + e1 /\ Drifted(e1, p)
  BY <1>0, <1>7, AnchorElapsed
<1>11. PICK e2 \in Nat :
         Wrap(Clock("anchor", t6) - Clock("anchor", t3)) = q + 2 * f + e2 /\ Drifted(e2, q + 2 * f)
  BY <1>0, <1>7, AnchorElapsed
<1>12. PICK r : r = RangeAsymmetric(stamps')
  OBVIOUS
<1>13. r = Quotient((p + 2 * f) * (q + 2 * f + e2) - (p + e1) * q,
                    (p + 2 * f) + (q + 2 * f + e2) + (p + e1) + q)
  BY <1>4, <1>8, <1>9, <1>10, <1>11, <1>12 DEF RangeAsymmetric
<1>14. PICK g \in Nat : g = gain
  BY <1>2
<1>15. CASE g = 0
  <2>1. e1 = 0 /\ e2 = 0 BY <1>10, <1>11, <1>14, <1>15 DEF Drifted
  <2>2. r = Quotient((p + 2 * f) * (q + 2 * f) - p * q, (p + 2 * f) + (q + 2 * f) + p + q)
    <3>1. q + 2 * f + e2 = q + 2 * f /\ p + e1 = p BY <2>1, <1>2, <1>6
    <3> QED BY <3>1, <1>13
  <2>3. r = f BY <2>2, <1>2, <1>6, AsymmetricFormula
  <2> QED BY <2>3, <1>1, <1>2, <1>12, <1>14, <1>15
<1>16. CASE g # 0
  <2>1. g \in Nat \ {0} BY <1>14, <1>16
  <2>2. g * e1 < p + g /\ p - g < g * e1
    <3>1. Drifted(e1, p) /\ gain # 0 BY <1>10, <1>14, <1>16
    <3>2. gain * e1 < p + gain /\ p - gain < gain * e1 BY <3>1 DEF Drifted
    <3> QED BY <3>2, <1>14
  <2>3. g * e2 < q + 2 * f + g /\ q + 2 * f - g < g * e2
    <3>1. PICK m \in Nat : m = q + 2 * f BY <1>2, <1>6
    <3>2. Drifted(e2, m) /\ gain # 0 BY <3>1, <1>11, <1>14, <1>16
    <3>3. gain * e2 < m + gain /\ m - gain < gain * e2 BY <3>2 DEF Drifted
    <3>4. g * e2 < m + g /\ m - g < g * e2 BY <3>3, <1>14
    <3> QED BY <3>1, <3>4, <1>2
  <2>4. r \in Int /\ r - f \in -1 .. (g + f) \div (2 * g)
    BY <2>1, <2>2, <2>3, <1>2, <1>6, <1>13, CloseFormula
  <2> QED BY <2>4, <1>1, <1>12, <1>14, <1>16
<1> QED BY <1>15, <1>16

(* What was said of the range holds on while it stays.                     *)
LEMMA RangeKept ==
  ASSUME RangeHolds, UNCHANGED <<gain, range>>
  PROVE  RangeHolds'
BY DEF RangeHolds, Exact, CloseWithDrift

(* Every step preserves the invariant and what it says of the range.       *)
LEMMA NextInv ==
  ASSUME Inv, RangeHolds, [Next]_vars
  PROVE  Inv' /\ RangeHolds'
<1> USE DEF SincePoll
<1>0. /\ TypeOK /\ now \in Nat /\ tof \in 0 .. MaxTof /\ MaxTof \in Nat /\ MaxLatency \in Nat
      /\ "tag" \in Devices /\ "anchor" \in Devices
  BY TimeAssumption DEF Inv, TypeOK, TimeAssumption, Devices
<1>1. CASE SendPoll
  <2>1. PICK h \in Latency : Happens("pollSent", "tag", now + h)
    BY <1>1 DEF SendPoll
  <2>2. now + h \in Nat /\ UNCHANGED <<offset, tof, gain, range>> /\ phase' = "poll"
    BY <1>0, <1>1 DEF SendPoll, Latency
  <2>3. TypeOK' /\ Recorded("pollSent", "tag")' /\ now' = at'["pollSent"]
    BY <1>0, <2>1, <2>2, HappensRecords DEF Events
  <2> QED BY <2>2, <2>3, RangeKept DEF Inv, Progress
<1>2. CASE PollReceived
  <2>1. /\ Happens("pollReceived", "anchor", now + tof) /\ now + tof \in Nat
        /\ UNCHANGED <<offset, tof, gain, range>> /\ phase = "poll" /\ phase' = "answering"
    BY <1>0, <1>2 DEF PollReceived
  <2>2. /\ TypeOK' /\ Recorded("pollReceived", "anchor")' /\ now' = at'["pollReceived"]
        /\ at'["pollReceived"] = now + tof
        /\ \A f \in Events \ {"pollReceived"} : at'[f] = at[f] /\ stamps'[f] = stamps[f]
    BY <1>0, <2>1, HappensRecords DEF Events
  <2>3. Recorded("pollSent", "tag")' /\ now = at'["pollSent"]
    BY <2>1, <2>2, StaysRecorded DEF Inv, Progress, Events
  <2> QED BY <2>1, <2>2, <2>3, RangeKept DEF Inv, Progress
<1>3. CASE SendPollAck
  <2>1. PICK h \in Latency, t \in now .. now + MaxLatency + ReplyDelay + AntennaDelay :
          /\ Leaves("anchor", SetDelay(Clock("anchor", now + h)).register, now + h, t)
          /\ Happens("pollAckSent", "anchor", t)
    BY <1>3 DEF SendPollAck
  <2>2. t \in Nat /\ t - now \in 1 .. Reply
    <3>1. t \in Int BY <1>0, TimeAssumption DEF TimeAssumption
    <3> QED BY <1>0, <2>1, <3>1, LeavesInTime
  <2>3. UNCHANGED <<offset, tof, gain, range>> /\ phase = "answering" /\ phase' = "pollAck"
    BY <1>3 DEF SendPollAck
  <2>4. /\ TypeOK' /\ Recorded("pollAckSent", "anchor")' /\ now' = at'["pollAckSent"]
        /\ at'["pollAckSent"] = t
        /\ \A f \in Events \ {"pollAckSent"} : at'[f] = at[f] /\ stamps'[f] = stamps[f]
    BY <1>0, <2>1, <2>2, <2>3, HappensRecords DEF Events
  <2>5. Recorded("pollSent", "tag")' /\ Recorded("pollReceived", "anchor")'
    BY <2>3, <2>4, StaysRecorded DEF Inv, Progress, Events
  <2>6. at'["pollReceived"] = at'["pollSent"] + tof' /\ now = at'["pollReceived"]
    BY <2>3, <2>4 DEF Inv, Progress, Events
  <2> QED BY <2>2, <2>3, <2>4, <2>5, <2>6, RangeKept DEF Inv, Progress
<1>4. CASE PollAckReceived
  <2>1. /\ Happens("pollAckReceived", "tag", now + tof) /\ now + tof \in Nat
        /\ UNCHANGED <<offset, tof, gain, range>> /\ phase = "pollAck" /\ phase' = "reporting"
    BY <1>0, <1>4 DEF PollAckReceived
  <2>2. /\ TypeOK' /\ Recorded("pollAckReceived", "tag")' /\ now' = at'["pollAckReceived"]
        /\ at'["pollAckReceived"] = now + tof
        /\ \A f \in Events \ {"pollAckReceived"} : at'[f] = at[f] /\ stamps'[f] = stamps[f]
    BY <1>0, <2>1, HappensRecords DEF Events
  <2>3. /\ Recorded("pollSent", "tag")' /\ Recorded("pollReceived", "anchor")'
        /\ Recorded("pollAckSent", "anchor")'
    BY <2>1, <2>2, StaysRecorded DEF Inv, Progress, Events
  <2>4. /\ at'["pollReceived"] = at'["pollSent"] + tof' /\ now = at'["pollAckSent"]
        /\ at'["pollAckSent"] - at'["pollReceived"] \in 1 .. Reply
    BY <2>1, <2>2 DEF Inv, Progress, Events
  <2> QED BY <2>1, <2>2, <2>3, <2>4, RangeKept DEF Inv, Progress
<1>5. CASE SendRange
  <2>1. PICK h \in Latency, t \in now .. now + MaxLatency + ReplyDelay + AntennaDelay :
          LET delay == SetDelay(Clock("tag", now + h)) IN
          /\ Leaves("tag", delay.register, now + h, t)
          /\ now' = t
          /\ at' = [at EXCEPT !.rangeSent = t]
          /\ stamps' = [stamps EXCEPT !.rangeSent = Octets(delay.expected)]
    BY <1>5 DEF SendRange
  <2> DEFINE delay == SetDelay(Clock("tag", now + h))
  <2>2. t \in Nat /\ t - now \in 1 .. Reply
    <3>1. t \in Int BY <1>0, TimeAssumption DEF TimeAssumption
    <3> QED BY <1>0, <2>1, <3>1, LeavesInTime
  <2>3. UNCHANGED <<offset, tof, gain, range>> /\ phase = "reporting" /\ phase' = "range"
    BY <1>5 DEF SendRange
  <2>4. now + h \in Nat
    BY <1>0 DEF Latency
  <2>5. /\ delay.register \in Int
        /\ Octets(delay.expected) = (delay.register - (delay.register % Grain) + AntennaDelay) % Overflow
        /\ Octets(delay.expected) \in 0 .. Overflow - 1
    <3>1. Clock("tag", now + h) \in 0 .. Overflow - 1
      BY <1>0, <2>4, ClockShows
    <3>2. Clock("tag", now + h) \in Int
      BY <3>1
    <3> QED BY <3>2, PromiseKept
  <2>6. Octets(delay.expected) = Clock("tag", t)
    <3>1. t >= 1 /\ Leaves("tag", delay.register, now + h, t)
      BY <1>0, <2>1, <2>2
    <3> HIDE DEF delay
    <3> QED BY <1>0, <2>2, <2>4, <2>5, <3>1, TagLeaves
  <2> HIDE DEF delay
  <2>7. /\ at' = [at EXCEPT !["rangeSent"] = t]
        /\ stamps' = [stamps EXCEPT !["rangeSent"] = Octets(delay.expected)]
    BY <2>1 DEF delay
  <2>8. /\ at'["rangeSent"] = t /\ stamps'["rangeSent"] = Clock("tag", t)
        /\ \A f \in Events \ {"rangeSent"} : at'[f] = at[f] /\ stamps'[f] = stamps[f]
    BY <1>0, <2>6, <2>7 DEF TypeOK, Events
  <2>9. TypeOK'
    <3>1. at' \in [Events -> Nat] BY <1>0, <2>2, <2>7 DEF TypeOK
    <3>2. stamps' \in [Events -> 0 .. Overflow - 1] BY <1>0, <2>5, <2>7 DEF TypeOK
    <3>3. now' \in Nat BY <2>1, <2>2
    <3> QED BY <1>0, <2>3, <3>1, <3>2, <3>3 DEF TypeOK
  <2>10. /\ Recorded("pollSent", "tag")' /\ Recorded("pollReceived", "anchor")'
         /\ Recorded("pollAckSent", "anchor")' /\ Recorded("pollAckReceived", "tag")'
    BY <2>3, <2>8, StaysRecorded DEF Inv, Progress, Events
  <2>11. /\ at'["pollReceived"] = at'["pollSent"] + tof'
         /\ at'["pollAckReceived"] = at'["pollAckSent"] + tof' /\ now = at'["pollAckReceived"]
         /\ at'["pollAckSent"] - at'["pollReceived"] \in 1 .. Reply
    BY <2>3, <2>8 DEF Inv, Progress, Events
  <2>12. Recorded("rangeSent", "tag")' /\ now' = at'["rangeSent"]
    BY <2>1, <2>3, <2>8 DEF Recorded, Clock, Drift
  <2> QED BY <2>2, <2>3, <2>8, <2>9, <2>10, <2>11, <2>12, RangeKept DEF Inv, Progress
<1>6. CASE RangeReceived
  <2>1. /\ Happens("rangeReceived", "anchor", now + tof) /\ now + tof \in Nat
        /\ UNCHANGED <<offset, tof, gain>> /\ phase = "range" /\ phase' = "done"
        /\ range' = [computed |-> RangeAsymmetric(stamps'), true |-> tof]
    BY <1>0, <1>6 DEF RangeReceived
  <2>2. /\ at' = [at EXCEPT !["rangeReceived"] = now + tof]
        /\ stamps' = [stamps EXCEPT !["rangeReceived"] = Clock("anchor", now + tof)]
        /\ now' = now + tof
    BY <2>1 DEF Happens
  <2>3. Clock("anchor", now + tof) \in 0 .. Overflow - 1
    BY <1>0, <2>1, ClockShows
  <2>4. /\ at' \in [Events -> Nat] /\ stamps' \in [Events -> 0 .. Overflow - 1]
        /\ at'["rangeReceived"] = now + tof /\ stamps'["rangeReceived"] = Clock("anchor", now + tof)
        /\ \A f \in Events \ {"rangeReceived"} : at'[f] = at[f] /\ stamps'[f] = stamps[f]
    BY <1>0, <2>1, <2>2, <2>3 DEF TypeOK, Events
  <2>5. PICK r : r = RangeAsymmetric(stamps')
    OBVIOUS
  <2>6. /\ r \in Int
        /\ gain = 0 => r = tof
        /\ gain > 0 => r - tof \in -1 .. (gain + tof) \div (2 * gain)
    BY <1>6, <2>4, <2>5, RangeIsClose
  <2>7. range' = [computed |-> r, true |-> tof] /\ gain' = gain
    BY <2>1, <2>5
  <2>8. range' \in [computed : Int, true : 0 .. MaxTof] /\ RangeHolds'
    BY <1>0, <2>6, <2>7 DEF RangeHolds, Exact, CloseWithDrift
  <2>9. TypeOK'
    BY <1>0, <2>1, <2>2, <2>4, <2>8 DEF TypeOK
  <2> QED BY <2>1, <2>8, <2>9 DEF Inv, Progress
<1>7. CASE Again
  <2>1. \A d \in Devices : Clock(d, now) \in 0 .. Overflow - 1
    BY <1>0, ClockShows
  <2>2. TypeOK'
    BY <1>0, <1>7, <2>1 DEF TypeOK, Again
  <2>3. RangeHolds'
    BY <1>7 DEF Again, RangeHolds, Exact, CloseWithDrift
  <2> QED BY <1>7, <2>2, <2>3 DEF Again, Inv, Progress
<1>8. CASE UNCHANGED vars
  <2>1. Progress'
    BY <1>8 DEF vars, Inv, Progress, Recorded, Clock, Drift
  <2>2. TypeOK'
    BY <1>0, <1>8 DEF vars, TypeOK
  <2> QED BY <1>8, <2>1, <2>2, RangeKept DEF vars, Inv
<1> QED BY <1>1, <1>2, <1>3, <1>4, <1>5, <1>6, <1>7, <1>8 DEF Next

----------------------------------------------------------------------------
(* Theorems.                                                               *)

(* The invariant holds, and the range is as good as it says.               *)
LEMMA TimesInvariance == Spec => [](Inv /\ RangeHolds)
<1>1. Init => Inv /\ RangeHolds
  BY InitInv
<1>2. (Inv /\ RangeHolds) /\ [Next]_vars => (Inv /\ RangeHolds)'
  BY NextInv
<1> QED BY <1>1, <1>2, PTL DEF Spec

(* Every time that is exchanged is true, and with clocks of one rate the   *)
(* range made of them is, for every width of the timestamps and every      *)
(* position of the two clocks: no wrap of either clock, no latency and no  *)
(* rounding of a delay shows in it.  The time in a RANGE message is the    *)
(* one its frame leaves at, whatever the anchor's clock gains.             *)
THEOREM TimesAreTrue == Spec => []TimesTrue
<1>1. Inv => Predicted
  BY DEF Inv, Progress, Recorded, Predicted
<1>2. Inv /\ RangeHolds => TimesTrue
  BY <1>1 DEF Inv, RangeHolds, TimesTrue
<1> QED BY <1>2, TimesInvariance, PTL

(* Whatever tick in how many the anchor's clock gains, and however long    *)
(* the replies take, the computed range is at most one tick too short, and *)
(* longer only by half of what the clock gains in the time of flight.      *)
THEOREM RangeIsCloseToTrue == Spec => []CloseWithDrift
<1>1. Inv /\ RangeHolds => CloseWithDrift
  BY DEF RangeHolds
<1> QED BY <1>1, TimesInvariance, PTL

----------------------------------------------------------------------------
(* The radio: the handler against the main program.                        *)

RadioTypes ==
  /\ sysctrl \subseteq {"TRXOFF", "TXSTRT", "TXDLYS", "RXENAB", "RXDLYS"}
  /\ sysstatus \subseteq Radio!Event /\ status \subseteq Radio!Event
  /\ owed \subseteq Radio!Handled /\ late \subseteq Radio!Event
  /\ mode \in {"IDLE", "RX", "TX"}
  /\ radio \in {"idle", "waits", "sends", "receives"}
  /\ rxAfter \in BOOLEAN /\ pending \in BOOLEAN
  /\ pc \in {"idle1", "idle2", "new", "mode", "delay", "start1", "start2", "rx1", "rx2", "done"}
  /\ isr \in {"off", "read", "sent", "received", "idle1", "start", "clear"}

(* What has happened and is not told of is in the status until the handler *)
(* has read it, and then in what it has read; it clears nothing else       *)
(* before it has told.                                                     *)
Untold ==
  /\ isr = "off" => (status # {} => pending) /\ owed \subseteq status
  /\ isr = "read" => owed \subseteq status
  /\ isr = "sent" => owed \subseteq sysstatus
  /\ isr = "received" => owed \subseteq sysstatus \cap {"RXFCG"}
  /\ isr \in {"idle1", "start", "clear"} => owed = {}

(* Whether main has begun to receive and the handler is to begin again.    *)
Live == radio = "receives" \/ rxAfter
Restarts ==
  \/ isr \in {"off", "read"} /\ "RXFCG" \in status
  \/ isr \in {"sent", "received"} /\ "RXFCG" \in sysstatus
  \/ isr \in {"idle1", "start"}

Starts ==
  /\ isr = "start" => sysctrl = {} /\ radio = "idle"
  /\ pc \in {"mode", "rx2"} => sysctrl \subseteq {"RXENAB"}
  /\ pc \in {"rx2", "done"} => mode = "RX"
  /\ pc = "done" => Live \/ Restarts \/ "RXFCG" \in late

RadioInv == RadioTypes /\ Untold /\ Starts

LEMMA RadioInit == Radio!Init => RadioInv
BY DEF Radio!Init, RadioInv, RadioTypes, Untold, Starts, Radio!Event, Radio!Handled

(* A write to the chip.                                                    *)
LEMMA WritesAre ==
  ASSUME RadioTypes, NEW bits, Radio!WriteSysCtrl(bits)
  PROVE  /\ radio' \in {"idle", "waits", "sends", "receives"} /\ rxAfter' \in BOOLEAN
         /\ bits = {"TRXOFF"} => radio' = "idle"
         /\ "RXENAB" \in bits /\ bits \subseteq {"RXENAB"} => Live'
BY DEF RadioTypes, Radio!WriteSysCtrl, Live, Radio!chipVars

LEMMA ChipKeeps ==
  ASSUME RadioInv, Radio!Left \/ Radio!Heard \/ Radio!HeardBadly
  PROVE  RadioInv'
<1>1. /\ isr' = isr /\ pending' = (pending \/ status = {})
      /\ UNCHANGED <<sysctrl, sysstatus, mode, pc, job>>
  BY DEF Radio!Left, Radio!Heard, Radio!HeardBadly, Radio!Raise, Radio!mainVars
<1>2. PICK event \in Radio!Event :
        /\ Radio!Raise(event)
        /\ \/ event = "TXFRS" /\ radio \in {"waits", "sends"} /\ rxAfter' = FALSE
                /\ radio' = IF rxAfter THEN "receives" ELSE "idle"
           \/ event = "RXFCG" /\ rxAfter' = rxAfter /\ radio = "receives" /\ radio' = "idle"
           \/ event = "RXFCE" /\ rxAfter' = rxAfter /\ radio = "receives" /\ radio' = radio
  BY DEF Radio!Left, Radio!Heard, Radio!HeardBadly, Radio!Event, Radio!chipVars
<1>3. /\ status' = status \cup {event}
      /\ IF isr \in {"off", "read"}
         THEN owed' = owed \cup ({event} \cap Radio!Handled) /\ late' = late
         ELSE late' = late \cup {event} /\ owed' = owed
  BY <1>2 DEF Radio!Raise
<1>4. RadioTypes'
  BY <1>1, <1>2, <1>3 DEF RadioInv, RadioTypes, Radio!Event, Radio!Handled
<1>5. Untold'
  <2>1. CASE isr \in {"off", "read"}
    BY <1>1, <1>3, <2>1 DEF RadioInv, RadioTypes, Untold
  <2>2. CASE isr \notin {"off", "read"}
    BY <1>1, <1>3, <2>2 DEF RadioInv, Untold
  <2> QED BY <2>1, <2>2
<1>6. pc' = "done" => Live' \/ Restarts' \/ "RXFCG" \in late'
  <2> SUFFICES ASSUME pc = "done"
               PROVE  Live' \/ Restarts' \/ "RXFCG" \in late'
    BY <1>1
  <2>1. Live \/ Restarts \/ "RXFCG" \in late
    BY DEF RadioInv, Starts
  <2>2. CASE Restarts \/ "RXFCG" \in late
    BY <1>1, <1>3, <2>2 DEF Restarts
  <2>3. CASE Live /\ event = "TXFRS"
    <3>1. rxAfter = TRUE
      BY <1>2, <2>3 DEF Live, RadioInv, RadioTypes
    <3> QED BY <1>2, <2>3, <3>1 DEF Live
  <2>4. CASE event = "RXFCG"
    BY <1>1, <1>3, <2>4 DEF Restarts
  <2>5. CASE event = "RXFCE"
    BY <1>2, <2>5 DEF Live
  <2> QED BY <1>2, <2>1, <2>2, <2>3, <2>4, <2>5
<1>7. Starts'
  <2>1. isr # "start"
    BY <1>2 DEF RadioInv, Starts
  <2> QED BY <1>1, <1>6, <2>1 DEF RadioInv, Starts
<1> QED BY <1>4, <1>5, <1>7 DEF RadioInv

LEMMA HandlerKeeps ==
  ASSUME RadioInv, Radio!IsrStep
  PROVE  RadioInv'
<1> USE DEF RadioInv, RadioTypes, Untold, Starts, Live, Restarts, Radio!Event, Radio!RxEvent,
            Radio!Handled, Radio!chipVars, Radio!mainVars, Radio!ClearStatus, Radio!Isr
<1>1. CASE Radio!IsrStarts
  BY <1>1 DEF Radio!IsrStarts
<1>2. CASE Radio!IsrRead
  BY <1>2 DEF Radio!IsrRead
<1>3. CASE Radio!IsrSent
  BY <1>3, ZenonT(60) DEF Radio!IsrSent
<1>4. CASE Radio!IsrReceived
  BY <1>4, ZenonT(60) DEF Radio!IsrReceived
<1>5. CASE Radio!IsrNewReceive
  <2>1. Radio!WriteSysCtrl({"TRXOFF"})
    BY <1>5 DEF Radio!IsrNewReceive
  <2>2. radio' = "idle" /\ rxAfter' \in BOOLEAN
    BY <2>1, WritesAre
  <2> QED BY <1>5, <2>2 DEF Radio!IsrNewReceive
<1>6. CASE Radio!IsrStartReceive
  <2>1. sysctrl' = {"RXENAB"} /\ Radio!WriteSysCtrl({"RXENAB"})
    BY <1>6 DEF Radio!IsrStartReceive
  <2>2. radio' \in {"idle", "waits", "sends", "receives"} /\ rxAfter' \in BOOLEAN /\ Live'
    BY <2>1, WritesAre
  <2> QED BY <1>6, <2>1, <2>2 DEF Radio!IsrStartReceive
<1>7. CASE Radio!IsrClearAll
  BY <1>7 DEF Radio!IsrClearAll
<1> QED BY <1>1, <1>2, <1>3, <1>4, <1>5, <1>6, <1>7 DEF Radio!IsrStep

LEMMA MainKeeps ==
  ASSUME RadioInv, Radio!MainStep
  PROVE  RadioInv'
<1>1. isr = "off" /\ ~pending /\ status = {} /\ owed = {}
  BY DEF Radio!MainStep, Radio!Main, Radio!Begin, Radio!Idle, Radio!IdleWrite, Radio!New,
         Radio!SetMode, Radio!SetDelay, Radio!StartTransmit, Radio!StartTransmitWrite,
         Radio!ReceiveAfter, Radio!StartReceive, Radio!Goes, RadioInv, Untold
<1>2. isr' = "off" /\ ~pending' /\ owed' = {} /\ status' = {}
  BY <1>1 DEF Radio!MainStep, Radio!Main, Radio!Begin, Radio!Idle, Radio!IdleWrite, Radio!New,
         Radio!SetMode, Radio!SetDelay, Radio!StartTransmit, Radio!StartTransmitWrite,
         Radio!ReceiveAfter, Radio!StartReceive, Radio!Goes, Radio!ClearStatus
<1>3. Untold'
  BY <1>2 DEF Untold
<1> USE DEF RadioInv, RadioTypes, Starts, Radio!Event, Radio!RxEvent, Radio!chipVars, Radio!Main,
            Radio!Goes, Radio!Handled
<1>4. CASE Radio!Begin
  BY <1>2, <1>3, <1>4 DEF Radio!Begin
<1>5. CASE Radio!Idle
  BY <1>2, <1>3, <1>5 DEF Radio!Idle
<1>6. CASE Radio!IdleWrite
  <2>1. radio' \in {"idle", "waits", "sends", "receives"} /\ rxAfter' \in BOOLEAN
    BY <1>6, WritesAre DEF Radio!IdleWrite
  <2> QED BY <1>2, <1>3, <1>6, <2>1 DEF Radio!IdleWrite
<1>7. CASE Radio!New
  BY <1>2, <1>3, <1>7 DEF Radio!New
<1>8. CASE Radio!SetMode
  BY <1>2, <1>3, <1>8 DEF Radio!SetMode
<1>9. CASE Radio!SetDelay
  BY <1>2, <1>3, <1>9 DEF Radio!SetDelay
<1>10. CASE Radio!StartTransmit
  BY <1>2, <1>3, <1>10 DEF Radio!StartTransmit
<1>11. CASE Radio!StartTransmitWrite
  <2>1. radio' \in {"idle", "waits", "sends", "receives"} /\ rxAfter' \in BOOLEAN
    BY <1>11, WritesAre DEF Radio!StartTransmitWrite
  <2> QED BY <1>2, <1>3, <1>11, <2>1 DEF Radio!StartTransmitWrite
<1>12. CASE Radio!ReceiveAfter
  BY <1>2, <1>3, <1>12 DEF Radio!ReceiveAfter
<1>13. CASE Radio!StartReceive
  <2>1. "RXENAB" \in sysctrl' /\ sysctrl' \subseteq {"RXENAB"} /\ Radio!WriteSysCtrl(sysctrl')
    BY <1>13 DEF Radio!StartReceive
  <2>2. /\ radio' \in {"idle", "waits", "sends", "receives"} /\ rxAfter' \in BOOLEAN /\ Live'
    BY <2>1, WritesAre
  <2> QED BY <1>2, <1>3, <1>13, <2>1, <2>2 DEF Radio!StartReceive
<1> QED BY <1>4, <1>5, <1>6, <1>7, <1>8, <1>9, <1>10, <1>11, <1>12, <1>13 DEF Radio!MainStep

LEMMA RadioStep == RadioInv /\ [Radio!Next]_(Radio!vars) => RadioInv'
<1>1. RadioInv /\ UNCHANGED Radio!vars => RadioInv'
  BY DEF Radio!vars, Radio!mainVars, Radio!chipVars, RadioInv, RadioTypes, Untold, Starts, Live,
         Restarts
<1> QED BY <1>1, ChipKeeps, HandlerKeeps, MainKeeps DEF Radio!Next

(* Whatever the handler preempts, and whatever comes while it runs: at     *)
(* rest the program has been told of what was sent and received before the *)
(* status was read, and the receiver is on or about to be, unless a good   *)
(* frame came between that read and clearAllStatus.                        *)
THEOREM RadioDoesTell == Radio!Spec => []RadioTellsAll
<1>1. RadioInv => RadioTellsAll
  <2> SUFFICES ASSUME RadioInv
               PROVE  RadioTellsAll
    OBVIOUS
  <2>1. Radio!TypeOK
    BY DEF RadioInv, RadioTypes, Starts, Radio!TypeOK
  <2>2. Radio!DeafIfLate
    BY DEF RadioInv, Starts, Untold, Live, Restarts, Radio!DeafIfLate, Radio!AtRest
  <2>3. Radio!NothingLost
    BY DEF RadioInv, Untold, Radio!NothingLost, Radio!AtRest
  <2> QED BY <2>1, <2>2, <2>3 DEF RadioTellsAll
<1>2. Radio!Spec => []RadioInv
  BY RadioInit, RadioStep, PTL DEF Radio!Spec
<1> QED BY <1>1, <1>2, PTL

----------------------------------------------------------------------------
(* The configuration.                                                      *)

(* The members of the class and its images of registers, by their names.   *)
SysCfgFields == {"disStxp", "rxm110k"}
TxFctrlFields == {"rate", "prf", "prealen"}
ChanCtrlFields == {"channel", "code", "rxprf", "sfd"}
LibFields == {"rate", "prf", "prealen", "pac", "channel", "code", "smart", "antd", "calibrated",
              "mode", "permanent", "syscfg", "txfctrl", "chanctrl"}
IsLib(l) ==
  /\ DOMAIN l = LibFields
  /\ DOMAIN l.syscfg = SysCfgFields
  /\ DOMAIN l.txfctrl = TxFctrlFields
  /\ DOMAIN l.chanctrl = ChanCtrlFields

(* Members and images that a setter leaves alone.                          *)
Kept(a, l) ==
  /\ a.antd = l.antd /\ a.calibrated = l.calibrated /\ a.mode = l.mode /\ a.permanent = l.permanent

LEMMA DataRateSet ==
  ASSUME NEW l, NEW rate, NEW a, a = Config!SetDataRate(l, rate), IsLib(l)
  PROVE  /\ IsLib(a) /\ Kept(a, l)
         /\ a.prf = l.prf /\ a.prealen = l.prealen /\ a.pac = l.pac /\ a.channel = l.channel
         /\ a.code = l.code /\ a.smart = l.smart
         /\ a.syscfg.disStxp = l.syscfg.disStxp
         /\ a.txfctrl.prf = l.txfctrl.prf /\ a.txfctrl.prealen = l.txfctrl.prealen
         /\ a.chanctrl.channel = l.chanctrl.channel /\ a.chanctrl.code = l.chanctrl.code
         /\ a.chanctrl.rxprf = l.chanctrl.rxprf
         /\ a.rate = rate /\ a.txfctrl.rate = rate /\ a.syscfg.rxm110k = (rate = 110)
         /\ a.chanctrl.sfd = Config!Sfd(rate)
<1>1. PICK x, t, c : /\ x = [l.syscfg EXCEPT !.rxm110k = rate = 110]
                     /\ t = [l.txfctrl EXCEPT !.rate = rate]
                     /\ c = [l.chanctrl EXCEPT !.sfd = Config!Sfd(rate)]
  OBVIOUS
<1>2. a = [l EXCEPT !.rate = rate, !.txfctrl = t, !.syscfg = x, !.chanctrl = c]
  BY <1>1 DEF Config!SetDataRate
<1>3. /\ DOMAIN x = SysCfgFields /\ x.disStxp = l.syscfg.disStxp /\ x.rxm110k = (rate = 110)
  BY <1>1 DEF IsLib, SysCfgFields
<1>4. /\ DOMAIN t = TxFctrlFields /\ t.rate = rate /\ t.prf = l.txfctrl.prf
      /\ t.prealen = l.txfctrl.prealen
  BY <1>1 DEF IsLib, TxFctrlFields
<1>5. /\ DOMAIN c = ChanCtrlFields /\ c.channel = l.chanctrl.channel /\ c.code = l.chanctrl.code
      /\ c.rxprf = l.chanctrl.rxprf /\ c.sfd = Config!Sfd(rate)
  BY <1>1 DEF IsLib, ChanCtrlFields
<1>6. DOMAIN a = LibFields
  BY <1>2 DEF IsLib
<1>7. /\ a.rate = rate /\ a.txfctrl = t /\ a.syscfg = x /\ a.chanctrl = c
      /\ Kept(a, l) /\ a.prf = l.prf /\ a.prealen = l.prealen /\ a.pac = l.pac
      /\ a.channel = l.channel /\ a.code = l.code /\ a.smart = l.smart
  BY <1>2 DEF IsLib, LibFields, Kept
<1> QED BY <1>3, <1>4, <1>5, <1>6, <1>7 DEF IsLib

LEMMA FrequencySet ==
  ASSUME NEW l, NEW freq, NEW a, a = Config!SetPulseFrequency(l, freq), IsLib(l)
  PROVE  /\ IsLib(a) /\ Kept(a, l)
         /\ a.rate = l.rate /\ a.prealen = l.prealen /\ a.pac = l.pac /\ a.channel = l.channel
         /\ a.code = l.code /\ a.smart = l.smart /\ a.syscfg = l.syscfg
         /\ a.txfctrl.rate = l.txfctrl.rate /\ a.txfctrl.prealen = l.txfctrl.prealen
         /\ a.chanctrl.channel = l.chanctrl.channel /\ a.chanctrl.code = l.chanctrl.code
         /\ a.chanctrl.sfd = l.chanctrl.sfd
         /\ a.prf = freq /\ a.txfctrl.prf = freq /\ a.chanctrl.rxprf = freq
<1>1. PICK t, c : /\ t = [l.txfctrl EXCEPT !.prf = freq]
                  /\ c = [l.chanctrl EXCEPT !.rxprf = freq]
  OBVIOUS
<1>2. a = [l EXCEPT !.prf = freq, !.txfctrl = t, !.chanctrl = c]
  BY <1>1 DEF Config!SetPulseFrequency
<1>3. /\ DOMAIN t = TxFctrlFields /\ t.prf = freq /\ t.rate = l.txfctrl.rate
      /\ t.prealen = l.txfctrl.prealen
  BY <1>1 DEF IsLib, TxFctrlFields
<1>4. /\ DOMAIN c = ChanCtrlFields /\ c.channel = l.chanctrl.channel /\ c.code = l.chanctrl.code
      /\ c.sfd = l.chanctrl.sfd /\ c.rxprf = freq
  BY <1>1 DEF IsLib, ChanCtrlFields
<1>5. DOMAIN a = LibFields
  BY <1>2 DEF IsLib
<1>6. /\ a.prf = freq /\ a.txfctrl = t /\ a.chanctrl = c /\ a.syscfg = l.syscfg
      /\ Kept(a, l) /\ a.rate = l.rate /\ a.prealen = l.prealen /\ a.pac = l.pac
      /\ a.channel = l.channel /\ a.code = l.code /\ a.smart = l.smart
  BY <1>2 DEF IsLib, LibFields, Kept
<1> QED BY <1>3, <1>4, <1>5, <1>6 DEF IsLib

LEMMA PreambleLengthSet ==
  ASSUME NEW l, NEW prealen, NEW a, a = Config!SetPreambleLength(l, prealen), IsLib(l)
  PROVE  /\ IsLib(a) /\ Kept(a, l)
         /\ a.rate = l.rate /\ a.prf = l.prf /\ a.channel = l.channel
         /\ a.code = l.code /\ a.smart = l.smart /\ a.syscfg = l.syscfg
         /\ a.chanctrl = l.chanctrl
         /\ a.txfctrl.rate = l.txfctrl.rate /\ a.txfctrl.prf = l.txfctrl.prf
         /\ a.prealen = prealen /\ a.pac = Config!Pac(prealen) /\ a.txfctrl.prealen = prealen
<1>1. PICK t, p : t = [l.txfctrl EXCEPT !.prealen = prealen] /\ p = Config!Pac(prealen)
  OBVIOUS
<1>2. a = [l EXCEPT !.prealen = prealen, !.pac = p, !.txfctrl = t]
  BY <1>1 DEF Config!SetPreambleLength
<1>3. /\ DOMAIN t = TxFctrlFields /\ t.prealen = prealen /\ t.rate = l.txfctrl.rate
      /\ t.prf = l.txfctrl.prf
  BY <1>1 DEF IsLib, TxFctrlFields
<1>4. DOMAIN a = LibFields
  BY <1>2 DEF IsLib
<1>5. /\ a.prealen = prealen /\ a.pac = p /\ a.txfctrl = t /\ a.chanctrl = l.chanctrl
      /\ a.syscfg = l.syscfg /\ Kept(a, l) /\ a.rate = l.rate /\ a.prf = l.prf
      /\ a.channel = l.channel /\ a.code = l.code /\ a.smart = l.smart
  BY <1>2 DEF IsLib, LibFields, Kept
<1> QED BY <1>1, <1>3, <1>4, <1>5 DEF IsLib

LEMMA PreambleCodeSet ==
  ASSUME NEW l, NEW code, NEW a, a = Config!SetPreambleCode(l, code), IsLib(l)
  PROVE  /\ IsLib(a) /\ Kept(a, l)
         /\ a.rate = l.rate /\ a.prf = l.prf /\ a.prealen = l.prealen /\ a.pac = l.pac
         /\ a.channel = l.channel /\ a.smart = l.smart /\ a.syscfg = l.syscfg
         /\ a.txfctrl = l.txfctrl
         /\ a.chanctrl.channel = l.chanctrl.channel /\ a.chanctrl.rxprf = l.chanctrl.rxprf
         /\ a.chanctrl.sfd = l.chanctrl.sfd
         /\ a.code = code /\ a.chanctrl.code = code
<1>1. PICK c : c = [l.chanctrl EXCEPT !.code = code]
  OBVIOUS
<1>2. a = [l EXCEPT !.code = code, !.chanctrl = c]
  BY <1>1 DEF Config!SetPreambleCode
<1>3. /\ DOMAIN c = ChanCtrlFields /\ c.channel = l.chanctrl.channel /\ c.code = code
      /\ c.rxprf = l.chanctrl.rxprf /\ c.sfd = l.chanctrl.sfd
  BY <1>1 DEF IsLib, ChanCtrlFields
<1>4. DOMAIN a = LibFields
  BY <1>2 DEF IsLib
<1>5. /\ a.code = code /\ a.chanctrl = c /\ a.txfctrl = l.txfctrl /\ a.syscfg = l.syscfg
      /\ Kept(a, l) /\ a.rate = l.rate /\ a.prf = l.prf /\ a.prealen = l.prealen
      /\ a.pac = l.pac /\ a.channel = l.channel /\ a.smart = l.smart
  BY <1>2 DEF IsLib, LibFields, Kept
<1> QED BY <1>3, <1>4, <1>5 DEF IsLib

LEMMA ChannelSet ==
  ASSUME NEW l, NEW ch, NEW a, a = Config!SetChannel(l, ch), IsLib(l)
  PROVE  /\ IsLib(a) /\ Kept(a, l)
         /\ a.rate = l.rate /\ a.prf = l.prf /\ a.prealen = l.prealen /\ a.pac = l.pac
         /\ a.smart = l.smart /\ a.syscfg = l.syscfg /\ a.txfctrl = l.txfctrl
         /\ a.chanctrl.rxprf = l.chanctrl.rxprf /\ a.chanctrl.sfd = l.chanctrl.sfd
         /\ a.channel = ch /\ a.chanctrl.channel = ch
         /\ a.code = Config!CodeFor(ch, l.prf) /\ a.chanctrl.code = Config!CodeFor(ch, l.prf)
<1>1. PICK c : c = [l.chanctrl EXCEPT !.channel = ch]
  OBVIOUS
<1>2. PICK b : b = [l EXCEPT !.channel = ch, !.chanctrl = c]
  OBVIOUS
<1>3. a = Config!SetPreambleCode(b, Config!CodeFor(ch, l.prf))
  BY <1>1, <1>2 DEF Config!SetChannel
<1>4. /\ DOMAIN c = ChanCtrlFields /\ c.channel = ch
      /\ c.rxprf = l.chanctrl.rxprf /\ c.sfd = l.chanctrl.sfd
  BY <1>1 DEF IsLib, ChanCtrlFields
<1>5. DOMAIN b = LibFields
  BY <1>2 DEF IsLib
<1>6. /\ b.channel = ch /\ b.chanctrl = c /\ b.txfctrl = l.txfctrl /\ b.syscfg = l.syscfg
      /\ Kept(b, l) /\ b.rate = l.rate /\ b.prf = l.prf /\ b.prealen = l.prealen
      /\ b.pac = l.pac /\ b.smart = l.smart
  BY <1>2 DEF IsLib, LibFields, Kept
<1>7. IsLib(b)
  BY <1>4, <1>5, <1>6 DEF IsLib
<1> QED BY <1>3, <1>4, <1>6, <1>7, PreambleCodeSet DEF Kept

LEMMA PowerSet ==
  ASSUME NEW l, NEW smart, NEW a, a = Config!UseSmartPower(l, smart), IsLib(l)
  PROVE  /\ IsLib(a) /\ Kept(a, l)
         /\ a.rate = l.rate /\ a.prf = l.prf /\ a.prealen = l.prealen /\ a.pac = l.pac
         /\ a.channel = l.channel /\ a.code = l.code /\ a.txfctrl = l.txfctrl
         /\ a.chanctrl = l.chanctrl /\ a.syscfg.rxm110k = l.syscfg.rxm110k
         /\ a.smart = smart /\ a.syscfg.disStxp = ~smart
<1>1. PICK x : x = [l.syscfg EXCEPT !.disStxp = ~smart]
  OBVIOUS
<1>2. a = [l EXCEPT !.smart = smart, !.syscfg = x]
  BY <1>1 DEF Config!UseSmartPower
<1>3. DOMAIN x = SysCfgFields /\ x.disStxp = ~smart /\ x.rxm110k = l.syscfg.rxm110k
  BY <1>1 DEF IsLib, SysCfgFields
<1>4. DOMAIN a = LibFields
  BY <1>2 DEF IsLib
<1>5. /\ a.smart = smart /\ a.syscfg = x /\ a.txfctrl = l.txfctrl /\ a.chanctrl = l.chanctrl
      /\ Kept(a, l) /\ a.rate = l.rate /\ a.prf = l.prf /\ a.prealen = l.prealen
      /\ a.pac = l.pac /\ a.channel = l.channel /\ a.code = l.code
  BY <1>2 DEF IsLib, LibFields, Kept
<1> QED BY <1>3, <1>4, <1>5 DEF IsLib

(* The settings are of a mode that is offered, and the images agree.       *)
ModeAgrees(l) ==
  /\ <<l.rate, l.prf, l.prealen>> \in
       {<<110, 16, 2048>>, <<6800, 16, 128>>, <<6800, 16, 1024>>, <<6800, 64, 128>>,
        <<6800, 64, 1024>>, <<110, 64, 2048>>}
  /\ l.pac = Config!Pac(l.prealen)
  /\ l.txfctrl.rate = l.rate /\ l.txfctrl.prf = l.prf /\ l.txfctrl.prealen = l.prealen
  /\ l.chanctrl.rxprf = l.prf /\ l.chanctrl.sfd = Config!Sfd(l.rate)
  /\ l.syscfg.rxm110k = (l.rate = 110)
ChannelAgrees(l) ==
  /\ l.channel \in {1, 2, 3, 4, 5, 7} /\ l.code \in {2, 4, 6, 8, 10, 18}
  /\ l.chanctrl.channel = l.channel /\ l.chanctrl.code = l.code
PowerAgrees(l) == l.smart \in BOOLEAN /\ l.syscfg.disStxp = ~l.smart
Agrees(l) == IsLib(l) /\ ModeAgrees(l) /\ ChannelAgrees(l) /\ PowerAgrees(l)

LEMMA ModeSet ==
  ASSUME NEW l, NEW m \in Config!Mode, NEW a, a = Config!EnableMode(l, m), IsLib(l)
  PROVE  /\ IsLib(a) /\ Kept(a, l) /\ ModeAgrees(a)
         /\ a.rate = m.rate /\ a.prf = m.prf
         /\ a.smart = l.smart /\ a.syscfg.disStxp = l.syscfg.disStxp
         /\ a.channel = l.channel /\ a.code = l.code
         /\ a.chanctrl.channel = l.chanctrl.channel /\ a.chanctrl.code = l.chanctrl.code
<1>1. PICK b : b = Config!SetDataRate(l, m.rate)
  OBVIOUS
<1>2. PICK c : c = Config!SetPulseFrequency(b, m.prf)
  OBVIOUS
<1>3. a = Config!SetPreambleLength(c, m.prealen)
  BY <1>1, <1>2 DEF Config!EnableMode
<1>4. /\ IsLib(b) /\ Kept(b, l)
      /\ b.channel = l.channel /\ b.code = l.code /\ b.smart = l.smart
      /\ b.syscfg.disStxp = l.syscfg.disStxp
      /\ b.chanctrl.channel = l.chanctrl.channel /\ b.chanctrl.code = l.chanctrl.code
      /\ b.rate = m.rate /\ b.txfctrl.rate = m.rate /\ b.syscfg.rxm110k = (m.rate = 110)
      /\ b.chanctrl.sfd = Config!Sfd(m.rate)
  BY <1>1, DataRateSet
<1>5. /\ IsLib(c) /\ Kept(c, b)
      /\ c.rate = b.rate /\ c.channel = b.channel
      /\ c.code = b.code /\ c.smart = b.smart /\ c.syscfg = b.syscfg
      /\ c.txfctrl.rate = b.txfctrl.rate
      /\ c.chanctrl.channel = b.chanctrl.channel /\ c.chanctrl.code = b.chanctrl.code
      /\ c.chanctrl.sfd = b.chanctrl.sfd
      /\ c.prf = m.prf /\ c.txfctrl.prf = m.prf /\ c.chanctrl.rxprf = m.prf
  BY <1>2, <1>4, FrequencySet
<1>6. /\ IsLib(a) /\ Kept(a, c)
      /\ a.rate = c.rate /\ a.prf = c.prf /\ a.channel = c.channel
      /\ a.code = c.code /\ a.smart = c.smart /\ a.syscfg = c.syscfg
      /\ a.chanctrl = c.chanctrl
      /\ a.txfctrl.rate = c.txfctrl.rate /\ a.txfctrl.prf = c.txfctrl.prf
      /\ a.prealen = m.prealen /\ a.pac = Config!Pac(m.prealen) /\ a.txfctrl.prealen = m.prealen
  BY <1>3, <1>5, PreambleLengthSet
<1>7. <<m.rate, m.prf, m.prealen>> \in
       {<<110, 16, 2048>>, <<6800, 16, 128>>, <<6800, 16, 1024>>, <<6800, 64, 128>>,
        <<6800, 64, 1024>>, <<110, 64, 2048>>}
  BY DEF Config!Mode
<1>8. Kept(a, l)
  BY <1>4, <1>5, <1>6 DEF Kept
<1>9. ModeAgrees(a)
  BY <1>4, <1>5, <1>6, <1>7 DEF ModeAgrees
<1> QED BY <1>4, <1>5, <1>6, <1>8, <1>9

LEMMA DefaultsSet ==
  ASSUME NEW l, NEW a, a = Config!SetDefaults(l), IsLib(l), l.mode = "IDLE"
  PROVE  Agrees(a) /\ Kept(a, l)
<1>1. PICK b : b = Config!UseSmartPower(l, FALSE)
  OBVIOUS
<1>2. PICK c : c = Config!EnableMode(b, Config!LongdataRangeLowpower)
  OBVIOUS
<1>3. PICK d : d = Config!SetChannel(c, 5)
  OBVIOUS
<1>4. PICK k : k = IF d.prf = 16 THEN 4 ELSE 10
  OBVIOUS
<1>5. a = Config!SetPreambleCode(d, k)
  BY <1>1, <1>2, <1>3, <1>4 DEF Config!SetDefaults
<1>6. /\ IsLib(b) /\ Kept(b, l) /\ b.smart = FALSE /\ b.syscfg.disStxp = TRUE
  BY <1>1, PowerSet
<1>7. Config!LongdataRangeLowpower \in Config!Mode
  BY DEF Config!LongdataRangeLowpower, Config!Mode
<1>8. /\ IsLib(c) /\ Kept(c, b) /\ ModeAgrees(c) /\ c.smart = b.smart
      /\ c.syscfg.disStxp = b.syscfg.disStxp
  BY <1>2, <1>6, <1>7, ModeSet
<1>9. /\ IsLib(d) /\ Kept(d, c)
      /\ d.rate = c.rate /\ d.prf = c.prf /\ d.prealen = c.prealen /\ d.pac = c.pac
      /\ d.smart = c.smart /\ d.syscfg = c.syscfg /\ d.txfctrl = c.txfctrl
      /\ d.chanctrl.rxprf = c.chanctrl.rxprf /\ d.chanctrl.sfd = c.chanctrl.sfd
      /\ d.channel = 5 /\ d.chanctrl.channel = 5
  BY <1>3, <1>8, ChannelSet
<1>10. /\ IsLib(a) /\ Kept(a, d)
       /\ a.rate = d.rate /\ a.prf = d.prf /\ a.prealen = d.prealen /\ a.pac = d.pac
       /\ a.channel = d.channel /\ a.smart = d.smart /\ a.syscfg = d.syscfg
       /\ a.txfctrl = d.txfctrl
       /\ a.chanctrl.channel = d.chanctrl.channel /\ a.chanctrl.rxprf = d.chanctrl.rxprf
       /\ a.chanctrl.sfd = d.chanctrl.sfd
       /\ a.code = k /\ a.chanctrl.code = k
  BY <1>5, <1>9, PreambleCodeSet
<1>11. Kept(a, l)
  BY <1>6, <1>8, <1>9, <1>10 DEF Kept
<1>12. ModeAgrees(a)
  BY <1>8, <1>9, <1>10 DEF ModeAgrees
<1>13. ChannelAgrees(a)
  BY <1>4, <1>9, <1>10 DEF ChannelAgrees
<1>14. PowerAgrees(a)
  BY <1>6, <1>8, <1>9, <1>10 DEF PowerAgrees
<1> QED BY <1>10, <1>11, <1>12, <1>13, <1>14 DEF Agrees

(* The registers have taken the images, and the tuning that belongs to the *)
(* settings, with a power that may have been raised since.                 *)
RegFields == {"disStxp", "rxm110k", "rate", "prf", "prealen", "channel", "code", "rxprf", "sfd",
              "sfdlen", "antd", "tune"}
Taken(r, l) ==
  /\ r.disStxp = l.syscfg.disStxp /\ r.rxm110k = l.syscfg.rxm110k
  /\ r.rate = l.txfctrl.rate /\ r.prf = l.txfctrl.prf /\ r.prealen = l.txfctrl.prealen
  /\ r.channel = l.chanctrl.channel /\ r.code = l.chanctrl.code /\ r.rxprf = l.chanctrl.rxprf
  /\ r.sfd = l.chanctrl.sfd
  /\ r.tune \in {Config!Tune(l), [Config!Tune(l) EXCEPT !.power = Config!FlatPower]}

ConfigTypes ==
  /\ selected \in Chips /\ \A c \in Chips : c = selected
  /\ DOMAIN chip = Chips /\ DOMAIN chip[selected] = RegFields
  /\ configured \in [Chips -> {"off", "reset", "new", "defaults", "ready"}]
  /\ asked \in Delays \cup {Config!None}
  /\ IsLib(lib)
  /\ lib.rate \in {110, 850, 6800} /\ lib.prf \in {16, 64} /\ lib.pac \in {8, 16, 32, 64}
  /\ lib.mode \in {"IDLE", "RX", "TX"} /\ lib.antd \in Delays \cup {0, 16384}
  /\ lib.calibrated \in BOOLEAN

Settled ==
  /\ configured[selected] # "ready" => lib.mode = "IDLE"
  /\ configured[selected] \in {"defaults", "ready"} =>
       Agrees(lib) /\ chip[selected].sfdlen = Config!SfdLength(lib.rate)
  /\ configured[selected] = "ready" =>
       Taken(chip[selected], lib) /\ chip[selected].antd = lib.antd

Remembered == asked # Config!None => lib.antd = asked /\ lib.calibrated

ConfigInv == ConfigTypes /\ Settled /\ Remembered

LEMMA TuneOfSettings ==
  ASSUME NEW l, NEW m,
         l.rate = m.rate, l.prf = m.prf, l.prealen = m.prealen, l.pac = m.pac,
         l.channel = m.channel, l.code = m.code, l.smart = m.smart
  PROVE  Config!Tune(l) = Config!Tune(m)
  BY DEF Config!Tune

(* What lets everything but the mode and the delay stay.                   *)
LEMMA SettingsStay ==
  ASSUME NEW l, NEW m, IsLib(m),
         l.rate = m.rate, l.prf = m.prf, l.prealen = m.prealen, l.pac = m.pac,
         l.channel = m.channel, l.code = m.code, l.smart = m.smart,
         l.syscfg = m.syscfg, l.txfctrl = m.txfctrl, l.chanctrl = m.chanctrl
  PROVE  /\ Agrees(l) => Agrees(m)
         /\ \A r : Taken(r, l) => Taken(r, m)
<1>1. Config!Tune(l) = Config!Tune(m)
  BY TuneOfSettings
<1>2. Agrees(l) => Agrees(m)
  BY DEF Agrees, ModeAgrees, ChannelAgrees, PowerAgrees
<1>3. \A r : Taken(r, l) => Taken(r, m)
  BY <1>1 DEF Taken
<1> QED BY <1>2, <1>3

(* The tables have an entry for what a mode that is offered, a channel and *)
(* its preamble code ask for.                                              *)
LEMMA TuneWhole ==
  ASSUME NEW l, Agrees(l)
  PROVE  /\ \A r \in DOMAIN Config!Tune(l) \ {"power"} : Config!Tune(l)[r] # Config!Unset
         /\ Config!Tune(l).power # <<Config!Unset>>
<1>1. /\ l.rate \in {110, 6800} /\ l.prf \in {16, 64} /\ l.prealen \in {128, 1024, 2048}
      /\ l.rate = 110 <=> l.prealen = 2048
      /\ l.pac = Config!Pac(l.prealen)
      /\ l.channel \in {1, 2, 3, 4, 5, 7} /\ l.code \in {2, 4, 6, 8, 10, 18}
      /\ l.smart \in BOOLEAN
  BY DEF Agrees, ModeAgrees, ChannelAgrees, PowerAgrees
<1>2. l.pac \in {8, 32, 64}
  BY <1>1 DEF Config!Pac
<1>3. /\ Config!AgcTune1(l.prf) # -1 /\ Config!DrxTune0b(l.rate) # -1
      /\ Config!DrxTune1a(l.prf) # -1 /\ Config!LdeCfg2(l.prf) # -1
  BY <1>1 DEF Config!AgcTune1, Config!DrxTune0b, Config!DrxTune1a, Config!LdeCfg2, Config!Unset
<1>4. Config!DrxTune1b(l.prealen, l.rate) # -1 /\ Config!DrxTune4H(l.prealen) # -1
  BY <1>1 DEF Config!DrxTune1b, Config!DrxTune4H, Config!Unset
<1>5. Config!DrxTune2(l.pac, l.prf) # -1
  BY <1>1, <1>2 DEF Config!DrxTune2, Config!Unset
<1>6. Config!LdeRepc(l.code, l.rate) # -1
  BY <1>1 DEF Config!LdeRepc, Config!Replica, Config!Unset
<1>7. /\ Config!RfRxCtrlH(l.channel) # -1 /\ Config!RfTxCtrl(l.channel) # -1
      /\ Config!PgDelay(l.channel) # -1
  BY <1>1 DEF Config!RfRxCtrlH, Config!RfTxCtrl, Config!PgDelay, Config!Unset
<1>8. Config!PllCfg(l.channel) # -1 /\ Config!PllTune(l.channel) # -1
  BY <1>1 DEF Config!PllCfg, Config!PllTune, Config!Unset
<1>9. PICK p : p = Config!Power(l.channel, l.prf)
  OBVIOUS
<1>10. Len(p) = 5
  BY <1>1, <1>9 DEF Config!Power
<1>11. Config!TxPower(l.channel, l.prf, l.smart) # <<Config!Unset>>
  BY <1>9, <1>10 DEF Config!TxPower, Config!Unset
<1> QED
  BY <1>3, <1>4, <1>5, <1>6, <1>7, <1>8, <1>11 DEF Config!Tune, Config!Unset

LEMMA ConfigStarts == (\E c : Chips = {c}) /\ Config!Init => ConfigInv
<1> SUFFICES ASSUME \E c : Chips = {c}, Config!Init
             PROVE  ConfigInv
  OBVIOUS
<1>1. lib = Config!InitialLib /\ selected \in Chips /\ asked = Config!None
      /\ chip = [c \in Chips |-> Config!ResetRegisters]
      /\ configured = [c \in Chips |-> "off"]
  BY DEF Config!Init
<1>2. IsLib(lib)
  BY <1>1 DEF Config!InitialLib, IsLib, LibFields, SysCfgFields, TxFctrlFields, ChanCtrlFields
<1>3. /\ lib.rate = 6800 /\ lib.prf = 16 /\ lib.pac = 8 /\ lib.mode = "IDLE" /\ lib.antd = 0
      /\ lib.calibrated \in BOOLEAN
  BY <1>1 DEF Config!InitialLib
<1>4. chip[selected] = Config!ResetRegisters
  BY <1>1
<1>5. DOMAIN chip[selected] = RegFields
  BY <1>4 DEF Config!ResetRegisters, RegFields
<1>6. ConfigTypes
  BY <1>1, <1>2, <1>3, <1>5 DEF ConfigTypes
<1>7. Settled
  BY <1>1, <1>3 DEF Settled
<1>8. Remembered
  BY <1>1 DEF Remembered
<1> QED BY <1>6, <1>7, <1>8 DEF ConfigInv

LEMMA SelectKeeps ==
  ASSUME ConfigInv, NEW c \in Chips, Config!Select(c)
  PROVE  ConfigInv'
<1>1. c = selected
  BY DEF ConfigInv, ConfigTypes
<1>2. PICK x : x = [disStxp |-> FALSE, rxm110k |-> FALSE]
  OBVIOUS
<1>3. lib' = [lib EXCEPT !.mode = "IDLE", !.syscfg = x]
  BY <1>2 DEF Config!Select
<1>4. DOMAIN x = SysCfgFields
  BY <1>2 DEF SysCfgFields
<1>5. /\ lib'.mode = "IDLE" /\ lib'.antd = lib.antd /\ lib'.calibrated = lib.calibrated
      /\ lib'.rate = lib.rate /\ lib'.prf = lib.prf /\ lib'.pac = lib.pac
      /\ lib'.syscfg = x /\ lib'.txfctrl = lib.txfctrl /\ lib'.chanctrl = lib.chanctrl
      /\ DOMAIN lib' = LibFields
  BY <1>3 DEF ConfigInv, ConfigTypes, IsLib, LibFields
<1>6. IsLib(lib')
  BY <1>4, <1>5 DEF ConfigInv, ConfigTypes, IsLib
<1>7. selected' = selected /\ asked' = asked /\ configured'[selected] = "reset"
      /\ configured' \in [Chips -> {"off", "reset", "new", "defaults", "ready"}]
      /\ DOMAIN chip' = Chips /\ chip'[selected] = Config!ResetRegisters
  BY <1>1 DEF Config!Select, ConfigInv, ConfigTypes
<1>8. DOMAIN chip'[selected] = RegFields
  BY <1>7 DEF Config!ResetRegisters, RegFields
<1>9. ConfigTypes'
  BY <1>5, <1>6, <1>7, <1>8 DEF ConfigInv, ConfigTypes
<1>10. Settled'
  BY <1>5, <1>7 DEF Settled
<1>11. Remembered'
  BY <1>5, <1>7 DEF ConfigInv, Remembered
<1> QED BY <1>9, <1>10, <1>11 DEF ConfigInv

LEMMA NewKeeps ==
  ASSUME ConfigInv, Config!NewConfiguration
  PROVE  ConfigInv'
<1>1. PICK r, x, t, k :
        /\ r = chip[selected]
        /\ x = [disStxp |-> r.disStxp, rxm110k |-> r.rxm110k]
        /\ t = [rate |-> r.rate, prf |-> r.prf, prealen |-> r.prealen]
        /\ k = [channel |-> r.channel, code |-> r.code, rxprf |-> r.rxprf, sfd |-> r.sfd]
  OBVIOUS
<1>2. lib' = [lib EXCEPT !.mode = "IDLE", !.syscfg = x, !.txfctrl = t, !.chanctrl = k]
  BY <1>1 DEF Config!NewConfiguration
<1>3. DOMAIN x = SysCfgFields /\ DOMAIN t = TxFctrlFields /\ DOMAIN k = ChanCtrlFields
  BY <1>1 DEF SysCfgFields, TxFctrlFields, ChanCtrlFields
<1>4. /\ lib'.mode = "IDLE" /\ lib'.antd = lib.antd /\ lib'.calibrated = lib.calibrated
      /\ lib'.rate = lib.rate /\ lib'.prf = lib.prf /\ lib'.pac = lib.pac
      /\ lib'.syscfg = x /\ lib'.txfctrl = t /\ lib'.chanctrl = k
      /\ DOMAIN lib' = LibFields
  BY <1>2 DEF ConfigInv, ConfigTypes, IsLib, LibFields
<1>5. IsLib(lib')
  BY <1>3, <1>4 DEF IsLib
<1>6. selected' = selected /\ asked' = asked /\ chip' = chip
      /\ configured'[selected] = "new"
      /\ configured' \in [Chips -> {"off", "reset", "new", "defaults", "ready"}]
  BY DEF Config!NewConfiguration, Config!Goes, ConfigInv, ConfigTypes
<1>7. ConfigTypes'
  BY <1>4, <1>5, <1>6 DEF ConfigInv, ConfigTypes
<1>8. Settled'
  BY <1>4, <1>6 DEF Settled
<1>9. Remembered'
  BY <1>4, <1>6 DEF ConfigInv, Remembered
<1> QED BY <1>7, <1>8, <1>9 DEF ConfigInv

(* A setter that is called while the images agree: what is left to show is *)
(* that they agree again.                                                  *)
LEMMA SetterKeeps ==
  ASSUME ConfigInv, configured'[selected] = "defaults",
         configured' \in [Chips -> {"off", "reset", "new", "defaults", "ready"}],
         selected' = selected, asked' = asked,
         Agrees(lib'), Kept(lib', lib), lib.mode = "IDLE",
         DOMAIN chip' = Chips, DOMAIN chip'[selected] = RegFields,
         chip'[selected].sfdlen = Config!SfdLength(lib'.rate)
  PROVE  ConfigInv'
<1>1. lib'.rate \in {110, 850, 6800} /\ lib'.prf \in {16, 64} /\ lib'.pac \in {8, 16, 32, 64}
      /\ IsLib(lib')
  BY DEF Agrees, ModeAgrees, Config!Pac
<1>2. ConfigTypes'
  BY <1>1 DEF ConfigInv, ConfigTypes, Kept
<1>3. Settled'
  BY DEF Settled, Kept
<1>4. Remembered'
  BY DEF ConfigInv, Remembered, Kept
<1> QED BY <1>2, <1>3, <1>4 DEF ConfigInv

LEMMA SfdLengthWritten ==
  ASSUME ConfigInv, NEW l, chip' = [chip EXCEPT ![selected] = Config!WithSfdLength(@, l)]
  PROVE  /\ DOMAIN chip' = Chips /\ DOMAIN chip'[selected] = RegFields
         /\ chip'[selected].sfdlen = Config!SfdLength(l.rate)
<1>1. DOMAIN chip' = Chips /\ chip'[selected] = Config!WithSfdLength(chip[selected], l)
  BY DEF ConfigInv, ConfigTypes
<1>2. chip'[selected] = [chip[selected] EXCEPT !.sfdlen = Config!SfdLength(l.rate)]
  BY <1>1 DEF Config!WithSfdLength
<1>3. DOMAIN chip[selected] = RegFields
  BY DEF ConfigInv, ConfigTypes
<1> QED BY <1>1, <1>2, <1>3 DEF RegFields

LEMMA DefaultsKeep ==
  ASSUME ConfigInv, Config!Defaults
  PROVE  ConfigInv'
<1>1. configured[selected] = "new" /\ selected' = selected /\ asked' = asked
      /\ configured'[selected] = "defaults"
      /\ configured' \in [Chips -> {"off", "reset", "new", "defaults", "ready"}]
      /\ lib' = Config!SetDefaults(lib)
      /\ chip' = [chip EXCEPT ![selected] = Config!WithSfdLength(@, lib')]
  BY DEF Config!Defaults, Config!Goes, Config!InPhase, ConfigInv, ConfigTypes
<1>2. lib.mode = "IDLE" /\ IsLib(lib)
  BY <1>1 DEF ConfigInv, ConfigTypes, Settled
<1>3. Agrees(lib') /\ Kept(lib', lib)
  BY <1>1, <1>2, DefaultsSet
<1> QED BY <1>1, <1>2, <1>3, SetterKeeps, SfdLengthWritten

LEMMA ChooseModeKeeps ==
  ASSUME ConfigInv, NEW m \in Config!Mode, Config!ChooseMode(m)
  PROVE  ConfigInv'
<1>1. configured[selected] = "defaults" /\ UNCHANGED <<selected, configured, asked>>
      /\ lib' = Config!EnableMode(lib, m)
      /\ chip' = [chip EXCEPT ![selected] = Config!WithSfdLength(@, lib')]
  BY DEF Config!ChooseMode, Config!InPhase, Config!Configuring
<1>2. lib.mode = "IDLE" /\ IsLib(lib) /\ Agrees(lib)
  BY <1>1 DEF ConfigInv, ConfigTypes, Settled
<1>3. /\ IsLib(lib') /\ Kept(lib', lib) /\ ModeAgrees(lib')
      /\ lib'.smart = lib.smart /\ lib'.syscfg.disStxp = lib.syscfg.disStxp
      /\ lib'.channel = lib.channel /\ lib'.code = lib.code
      /\ lib'.chanctrl.channel = lib.chanctrl.channel /\ lib'.chanctrl.code = lib.chanctrl.code
  BY <1>1, <1>2, ModeSet
<1>4. Agrees(lib')
  BY <1>2, <1>3 DEF Agrees, ChannelAgrees, PowerAgrees
<1>5. configured' \in [Chips -> {"off", "reset", "new", "defaults", "ready"}]
  BY <1>1 DEF ConfigInv, ConfigTypes
<1> QED BY <1>1, <1>2, <1>3, <1>4, <1>5, SetterKeeps, SfdLengthWritten

LEMMA ChooseChannelKeeps ==
  ASSUME ConfigInv, NEW ch \in Channels, Config!ChooseChannel(ch)
  PROVE  ConfigInv'
<1>1. configured[selected] = "defaults" /\ UNCHANGED <<chip, selected, configured, asked>>
      /\ lib' = Config!SetChannel(lib, ch)
  BY DEF Config!ChooseChannel, Config!InPhase, Config!Configuring
<1>2. lib.mode = "IDLE" /\ IsLib(lib) /\ Agrees(lib)
      /\ chip[selected].sfdlen = Config!SfdLength(lib.rate)
  BY <1>1 DEF ConfigInv, ConfigTypes, Settled
<1>3. /\ IsLib(lib') /\ Kept(lib', lib)
      /\ lib'.rate = lib.rate /\ lib'.prf = lib.prf /\ lib'.prealen = lib.prealen
      /\ lib'.pac = lib.pac /\ lib'.smart = lib.smart /\ lib'.syscfg = lib.syscfg
      /\ lib'.txfctrl = lib.txfctrl
      /\ lib'.chanctrl.rxprf = lib.chanctrl.rxprf /\ lib'.chanctrl.sfd = lib.chanctrl.sfd
      /\ lib'.channel = ch /\ lib'.chanctrl.channel = ch
      /\ lib'.code = Config!CodeFor(ch, lib.prf) /\ lib'.chanctrl.code = Config!CodeFor(ch, lib.prf)
  BY <1>1, <1>2, ChannelSet
<1>4. ch \in {1, 2, 3, 4, 5, 7}
  <2>1. Config!Dw1000ConfigAssumption
    BY PartAssumptions, SMTT(30)
  <2>2. Channels \subseteq {1, 2, 3, 4, 5, 7}
    BY <2>1 DEF Config!Dw1000ConfigAssumption
  <2> QED BY <2>2
<1>5. Config!CodeFor(ch, lib.prf) \in {2, 4, 6, 8, 10, 18}
  BY <1>4 DEF Config!CodeFor
<1>6. Agrees(lib')
  BY <1>2, <1>3, <1>4, <1>5 DEF Agrees, ModeAgrees, ChannelAgrees, PowerAgrees
<1>7. /\ configured' \in [Chips -> {"off", "reset", "new", "defaults", "ready"}]
      /\ DOMAIN chip' = Chips /\ DOMAIN chip'[selected] = RegFields
      /\ chip'[selected].sfdlen = Config!SfdLength(lib'.rate)
  BY <1>1, <1>2, <1>3 DEF ConfigInv, ConfigTypes
<1> QED BY <1>1, <1>2, <1>3, <1>6, <1>7, SetterKeeps

LEMMA ChoosePowerKeeps ==
  ASSUME ConfigInv, NEW smart \in BOOLEAN, Config!ChoosePower(smart)
  PROVE  ConfigInv'
<1>1. configured[selected] = "defaults" /\ UNCHANGED <<chip, selected, configured, asked>>
      /\ lib' = Config!UseSmartPower(lib, smart)
  BY DEF Config!ChoosePower, Config!InPhase, Config!Configuring
<1>2. lib.mode = "IDLE" /\ IsLib(lib) /\ Agrees(lib)
      /\ chip[selected].sfdlen = Config!SfdLength(lib.rate)
  BY <1>1 DEF ConfigInv, ConfigTypes, Settled
<1>3. /\ IsLib(lib') /\ Kept(lib', lib)
      /\ lib'.rate = lib.rate /\ lib'.prf = lib.prf /\ lib'.prealen = lib.prealen
      /\ lib'.pac = lib.pac /\ lib'.channel = lib.channel /\ lib'.code = lib.code
      /\ lib'.txfctrl = lib.txfctrl /\ lib'.chanctrl = lib.chanctrl
      /\ lib'.syscfg.rxm110k = lib.syscfg.rxm110k
      /\ lib'.smart = smart /\ lib'.syscfg.disStxp = ~smart
  BY <1>1, <1>2, PowerSet
<1>4. Agrees(lib')
  BY <1>2, <1>3 DEF Agrees, ModeAgrees, ChannelAgrees, PowerAgrees
<1>5. /\ configured' \in [Chips -> {"off", "reset", "new", "defaults", "ready"}]
      /\ DOMAIN chip' = Chips /\ DOMAIN chip'[selected] = RegFields
      /\ chip'[selected].sfdlen = Config!SfdLength(lib'.rate)
  BY <1>1, <1>2, <1>3 DEF ConfigInv, ConfigTypes
<1> QED BY <1>1, <1>2, <1>3, <1>4, <1>5, SetterKeeps

LEMMA DelayKeeps ==
  ASSUME ConfigInv, NEW d \in Delays, Config!SetAntennaDelay(d)
  PROVE  ConfigInv'
<1>1. /\ lib' = [lib EXCEPT !.antd = d, !.calibrated = TRUE]
      /\ chip' = [chip EXCEPT ![selected].antd = d]
      /\ asked' = d /\ UNCHANGED <<selected, configured>>
  BY DEF Config!SetAntennaDelay
<1>2. /\ lib'.antd = d /\ lib'.calibrated /\ lib'.mode = lib.mode
      /\ lib'.rate = lib.rate /\ lib'.prf = lib.prf /\ lib'.prealen = lib.prealen
      /\ lib'.pac = lib.pac /\ lib'.channel = lib.channel /\ lib'.code = lib.code
      /\ lib'.smart = lib.smart /\ lib'.syscfg = lib.syscfg /\ lib'.txfctrl = lib.txfctrl
      /\ lib'.chanctrl = lib.chanctrl /\ DOMAIN lib' = LibFields
  BY <1>1 DEF ConfigInv, ConfigTypes, IsLib, LibFields
<1>3. IsLib(lib')
  BY <1>2 DEF ConfigInv, ConfigTypes, IsLib
<1>4. /\ Agrees(lib) => Agrees(lib')
      /\ \A r : Taken(r, lib) => Taken(r, lib')
  BY <1>2, <1>3, SettingsStay
<1>5. PICK r, q : r = chip[selected] /\ q = [r EXCEPT !.antd = d]
  OBVIOUS
<1>6. DOMAIN chip' = Chips /\ chip'[selected] = q
  BY <1>1, <1>5 DEF ConfigInv, ConfigTypes
<1>7. /\ DOMAIN q = RegFields /\ q.antd = d /\ q.sfdlen = r.sfdlen
      /\ q.disStxp = r.disStxp /\ q.rxm110k = r.rxm110k /\ q.rate = r.rate /\ q.prf = r.prf
      /\ q.prealen = r.prealen /\ q.channel = r.channel /\ q.code = r.code
      /\ q.rxprf = r.rxprf /\ q.sfd = r.sfd /\ q.tune = r.tune
  BY <1>5 DEF ConfigInv, ConfigTypes, RegFields
<1>8. Taken(r, lib') => Taken(q, lib')
  BY <1>7 DEF Taken
<1>9. ConfigTypes'
  BY <1>1, <1>2, <1>3, <1>6, <1>7 DEF ConfigInv, ConfigTypes
<1>10. Settled'
  <2>1. configured'[selected'] = configured[selected] /\ chip'[selected'] = q
    BY <1>1, <1>6
  <2>2. configured[selected] \in {"defaults", "ready"} =>
          Agrees(lib') /\ q.sfdlen = Config!SfdLength(lib'.rate)
    BY <1>2, <1>4, <1>5, <1>7 DEF ConfigInv, Settled
  <2>3. configured[selected] = "ready" => Taken(q, lib') /\ q.antd = lib'.antd
    BY <1>2, <1>4, <1>5, <1>7, <1>8 DEF ConfigInv, Settled
  <2> QED BY <1>2, <2>1, <2>2, <2>3 DEF ConfigInv, Settled
<1>11. Remembered'
  BY <1>1, <1>2 DEF Remembered
<1> QED BY <1>9, <1>10, <1>11 DEF ConfigInv

LEMMA CommitKeeps ==
  ASSUME ConfigInv, Config!Commit
  PROVE  ConfigInv'
<1>1. configured[selected] = "defaults" /\ UNCHANGED <<selected, asked>>
      /\ configured'[selected] = "ready"
      /\ configured' \in [Chips -> {"off", "reset", "new", "defaults", "ready"}]
      /\ lib' = Config!Calibrated(lib)
      /\ chip' = [chip EXCEPT ![selected] = Config!Committed(lib')]
  BY DEF Config!Commit, Config!InPhase, Config!Configuring, Config!Goes, ConfigInv, ConfigTypes
<1>2. /\ lib'.mode = lib.mode
      /\ lib'.rate = lib.rate /\ lib'.prf = lib.prf /\ lib'.prealen = lib.prealen
      /\ lib'.pac = lib.pac /\ lib'.channel = lib.channel /\ lib'.code = lib.code
      /\ lib'.smart = lib.smart /\ lib'.syscfg = lib.syscfg /\ lib'.txfctrl = lib.txfctrl
      /\ lib'.chanctrl = lib.chanctrl /\ DOMAIN lib' = LibFields
      /\ lib'.antd \in {lib.antd, 16384}
      /\ lib.calibrated => lib'.antd = lib.antd
      /\ lib'.calibrated \in BOOLEAN /\ (lib.calibrated => lib'.calibrated)
  <2>1. CASE lib' = lib
    BY <2>1 DEF ConfigInv, ConfigTypes, IsLib
  <2>2. CASE lib' # lib
    <3>1. /\ lib.antd = 0 /\ ~lib.calibrated
          /\ lib' = [lib EXCEPT !.antd = 16384, !.calibrated = TRUE]
      BY <1>1, <2>2 DEF Config!Calibrated
    <3> QED BY <3>1 DEF ConfigInv, ConfigTypes, IsLib, LibFields
  <2> QED BY <2>1, <2>2
<1>3. IsLib(lib')
  BY <1>2 DEF ConfigInv, ConfigTypes, IsLib
<1>4. Agrees(lib')
  BY <1>1, <1>2, <1>3, SettingsStay DEF ConfigInv, Settled
<1>5. PICK q, n : q = Config!Committed(lib') /\ n = Config!Tune(lib')
  OBVIOUS
<1>6. DOMAIN chip' = Chips /\ chip'[selected] = q
  BY <1>1, <1>5 DEF ConfigInv, ConfigTypes
<1>7. /\ DOMAIN q = RegFields /\ q.antd = lib'.antd /\ q.sfdlen = chip[selected].sfdlen
      /\ q.disStxp = lib'.syscfg.disStxp /\ q.rxm110k = lib'.syscfg.rxm110k
      /\ q.rate = lib'.txfctrl.rate /\ q.prf = lib'.txfctrl.prf
      /\ q.prealen = lib'.txfctrl.prealen
      /\ q.channel = lib'.chanctrl.channel /\ q.code = lib'.chanctrl.code
      /\ q.rxprf = lib'.chanctrl.rxprf /\ q.sfd = lib'.chanctrl.sfd /\ q.tune = n
  BY <1>5 DEF Config!Committed, RegFields
<1>8. Taken(q, lib')
  BY <1>5, <1>7 DEF Taken
<1>9. q.sfdlen = Config!SfdLength(lib'.rate)
  BY <1>1, <1>2, <1>7 DEF ConfigInv, Settled
<1>10. ConfigTypes'
  BY <1>1, <1>2, <1>3, <1>6, <1>7 DEF ConfigInv, ConfigTypes
<1>11. Settled'
  BY <1>1, <1>4, <1>6, <1>7, <1>8, <1>9 DEF Settled
<1>12. Remembered'
  BY <1>1, <1>2 DEF ConfigInv, Remembered
<1> QED BY <1>10, <1>11, <1>12 DEF ConfigInv

LEMMA LargePowerKeeps ==
  ASSUME ConfigInv, Config!LargePowerInit
  PROVE  ConfigInv'
<1>1. configured[selected] = "ready" /\ UNCHANGED <<lib, selected, configured, asked>>
      /\ lib.channel = 5
      /\ chip' = [chip EXCEPT ![selected].tune.power = Config!FlatPower,
                              ![selected].tune.pgdelay = \hC0]
  BY DEF Config!LargePowerInit, Config!InPhase
<1>2. PICK r, n, q : r = chip[selected]
                     /\ n = [r.tune EXCEPT !.power = Config!FlatPower, !.pgdelay = \hC0]
                     /\ q = [r EXCEPT !.tune = n]
  OBVIOUS
<1>3. DOMAIN chip' = Chips /\ chip'[selected] = q
  <2>1. PICK k : k = [r.tune EXCEPT !.power = Config!FlatPower]
    OBVIOUS
  <2>2. PICK p : p = [r EXCEPT !.tune = k]
    OBVIOUS
  <2>3. PICK b : b = [chip EXCEPT ![selected] = p]
    OBVIOUS
  <2>4. DOMAIN r = RegFields /\ DOMAIN chip = Chips /\ selected \in Chips
    BY <1>2 DEF ConfigInv, ConfigTypes
  <2>5. p.tune = k /\ DOMAIN p = RegFields
    BY <2>2, <2>4 DEF RegFields
  <2>6. b[selected] = p /\ DOMAIN b = Chips
    BY <2>3, <2>4
  <2>7. chip' = [b EXCEPT ![selected].tune.pgdelay = \hC0]
    BY <1>1, <1>2, <2>1, <2>2, <2>3
  <2>8. DOMAIN chip' = Chips /\ chip'[selected] = [p EXCEPT !.tune = n]
    BY <1>2, <2>1, <2>4, <2>5, <2>6, <2>7
  <2>9. [p EXCEPT !.tune = n] = q
    BY <1>2, <2>2, <2>4 DEF RegFields
  <2> QED BY <2>8, <2>9
<1>4. DOMAIN n = DOMAIN r.tune /\ n = [Config!Tune(lib) EXCEPT !.power = Config!FlatPower]
  <2>1. r.tune \in {Config!Tune(lib), [Config!Tune(lib) EXCEPT !.power = Config!FlatPower]}
    BY <1>1, <1>2 DEF ConfigInv, Settled, Taken
  <2>2. PICK t : t = Config!Tune(lib)
    OBVIOUS
  <2>3. "pgdelay" \in DOMAIN t /\ "power" \in DOMAIN t /\ t.pgdelay = \hC0
    BY <1>1, <2>2 DEF Config!Tune, Config!PgDelay
  <2>4. [[t EXCEPT !.power = Config!FlatPower] EXCEPT !.pgdelay = \hC0] =
          [t EXCEPT !.power = Config!FlatPower]
    BY <2>3
  <2>5. [[t EXCEPT !.power = Config!FlatPower] EXCEPT !.power = Config!FlatPower] =
          [t EXCEPT !.power = Config!FlatPower]
    BY <2>3
  <2> QED BY <1>2, <2>1, <2>2, <2>4, <2>5
<1>5. /\ DOMAIN q = RegFields /\ q.antd = r.antd /\ q.sfdlen = r.sfdlen
      /\ q.disStxp = r.disStxp /\ q.rxm110k = r.rxm110k /\ q.rate = r.rate /\ q.prf = r.prf
      /\ q.prealen = r.prealen /\ q.channel = r.channel /\ q.code = r.code
      /\ q.rxprf = r.rxprf /\ q.sfd = r.sfd /\ q.tune = n
  BY <1>2 DEF ConfigInv, ConfigTypes, RegFields
<1>6. Taken(q, lib)
  BY <1>1, <1>2, <1>4, <1>5 DEF ConfigInv, Settled, Taken
<1>7. ConfigTypes'
  BY <1>1, <1>3, <1>5 DEF ConfigInv, ConfigTypes
<1>8. Settled'
  <2>1. configured'[selected'] = "ready" /\ chip'[selected'] = q
    BY <1>1, <1>3
  <2>2. Agrees(lib) /\ q.sfdlen = Config!SfdLength(lib.rate) /\ q.antd = lib.antd
    BY <1>1, <1>2, <1>5 DEF ConfigInv, Settled
  <2> QED BY <1>1, <1>6, <2>1, <2>2 DEF Settled
<1>9. Remembered'
  BY <1>1 DEF ConfigInv, Remembered
<1> QED BY <1>7, <1>8, <1>9 DEF ConfigInv

(* Frames go and come in the mode that is set: setDefaults does nothing    *)
(* while the radio is not idle.                                            *)
LEMMA ModeSetOnly ==
  ASSUME NEW l, IsLib(l), NEW md, NEW a, a = [l EXCEPT !.mode = md]
  PROVE  /\ IsLib(a) /\ a.mode = md /\ a.antd = l.antd /\ a.calibrated = l.calibrated
         /\ a.rate = l.rate /\ a.prf = l.prf /\ a.prealen = l.prealen /\ a.pac = l.pac
         /\ a.channel = l.channel /\ a.code = l.code /\ a.smart = l.smart
         /\ a.syscfg = l.syscfg /\ a.txfctrl = l.txfctrl /\ a.chanctrl = l.chanctrl
<1>1. DOMAIN a = LibFields
  BY DEF IsLib
<1>2. /\ a.mode = md /\ a.antd = l.antd /\ a.calibrated = l.calibrated
      /\ a.rate = l.rate /\ a.prf = l.prf /\ a.prealen = l.prealen /\ a.pac = l.pac
      /\ a.channel = l.channel /\ a.code = l.code /\ a.smart = l.smart
      /\ a.syscfg = l.syscfg /\ a.txfctrl = l.txfctrl /\ a.chanctrl = l.chanctrl
  BY DEF IsLib, LibFields
<1> QED BY <1>1, <1>2 DEF IsLib

(* Whatever the settings and registers are, they stay what they are.       *)
LEMMA FrameKeeps ==
  ASSUME ConfigInv, configured[selected] = "ready", UNCHANGED <<selected, configured, asked>>,
         IsLib(lib'), lib'.mode \in {"IDLE", "RX", "TX"},
         lib'.antd = lib.antd, lib'.calibrated = lib.calibrated,
         lib'.rate = lib.rate, lib'.prf = lib.prf, lib'.prealen = lib.prealen,
         lib'.pac = lib.pac, lib'.channel = lib.channel, lib'.code = lib.code,
         lib'.smart = lib.smart, lib'.syscfg = lib.syscfg, lib'.txfctrl = lib.txfctrl,
         lib'.chanctrl = lib.chanctrl,
         NEW r, NEW q, r = chip[selected], DOMAIN chip' = Chips, chip'[selected] = q,
         DOMAIN q = DOMAIN r, q.antd = r.antd, q.sfdlen = r.sfdlen, q.disStxp = r.disStxp,
         q.rxm110k = r.rxm110k, q.rate = r.rate, q.prf = r.prf, q.prealen = r.prealen,
         q.channel = r.channel, q.code = r.code, q.rxprf = r.rxprf, q.sfd = r.sfd, q.tune = r.tune
  PROVE  ConfigInv'
<1>1. Agrees(lib) /\ r.sfdlen = Config!SfdLength(lib.rate) /\ Taken(r, lib) /\ r.antd = lib.antd
  BY DEF ConfigInv, Settled
<1>2. Agrees(lib') /\ Taken(r, lib')
  BY <1>1, SettingsStay
<1>3. Taken(q, lib')
  BY <1>2 DEF Taken
<1>4. ConfigTypes'
  BY DEF ConfigInv, ConfigTypes
<1>5. configured'[selected'] = "ready" /\ chip'[selected'] = q
  OBVIOUS
<1>6. Settled'
  BY <1>1, <1>2, <1>3, <1>5 DEF Settled
<1>7. Remembered'
  BY DEF ConfigInv, Remembered
<1> QED BY <1>4, <1>6, <1>7 DEF ConfigInv

LEMMA TransmitKeeps ==
  ASSUME ConfigInv, Config!Transmit
  PROVE  ConfigInv'
<1>1. IsLib(lib) /\ configured[selected] = "ready" /\ UNCHANGED <<selected, configured, asked>>
  BY DEF Config!Transmit, Config!InPhase, ConfigInv, ConfigTypes
<1>2. PICK set : set = [lib EXCEPT !.mode = "TX"]
  OBVIOUS
<1>3. /\ IsLib(set) /\ set.mode = "TX" /\ set.antd = lib.antd
      /\ set.calibrated = lib.calibrated
      /\ set.rate = lib.rate /\ set.prf = lib.prf /\ set.prealen = lib.prealen
      /\ set.pac = lib.pac /\ set.channel = lib.channel /\ set.code = lib.code
      /\ set.smart = lib.smart /\ set.syscfg = lib.syscfg /\ set.txfctrl = lib.txfctrl
      /\ set.chanctrl = lib.chanctrl
  BY <1>1, <1>2, ModeSetOnly
<1>4. Config!SetDefaults(set) = set
  BY <1>3 DEF Config!SetDefaults
<1>5. PICK md, r, q :
        /\ md = (IF set.permanent THEN "RX" ELSE "IDLE")
        /\ r = chip[selected]
        /\ q = [r EXCEPT !.rate = set.txfctrl.rate, !.prf = set.txfctrl.prf,
                         !.prealen = set.txfctrl.prealen]
  OBVIOUS
<1>6. lib' = [set EXCEPT !.mode = md] /\ chip' = [chip EXCEPT ![selected] = q]
  BY <1>2, <1>4, <1>5 DEF Config!Transmit
<1>7. /\ IsLib(lib') /\ lib'.mode = md /\ lib'.antd = set.antd
      /\ lib'.calibrated = set.calibrated
      /\ lib'.rate = set.rate /\ lib'.prf = set.prf /\ lib'.prealen = set.prealen
      /\ lib'.pac = set.pac /\ lib'.channel = set.channel /\ lib'.code = set.code
      /\ lib'.smart = set.smart /\ lib'.syscfg = set.syscfg /\ lib'.txfctrl = set.txfctrl
      /\ lib'.chanctrl = set.chanctrl
  BY <1>3, <1>6, ModeSetOnly
<1>8. md \in {"IDLE", "RX", "TX"}
  BY <1>5
<1>9. DOMAIN chip' = Chips /\ chip'[selected] = q
  BY <1>6 DEF ConfigInv, ConfigTypes
<1>10. Taken(r, lib) /\ DOMAIN r = RegFields
  BY <1>1, <1>5 DEF ConfigInv, ConfigTypes, Settled
<1>11. /\ r.rate = set.txfctrl.rate /\ r.prf = set.txfctrl.prf
       /\ r.prealen = set.txfctrl.prealen
  BY <1>3, <1>10 DEF Taken
<1>12. /\ DOMAIN q = DOMAIN r /\ q.antd = r.antd /\ q.sfdlen = r.sfdlen
       /\ q.disStxp = r.disStxp /\ q.rxm110k = r.rxm110k /\ q.rate = r.rate /\ q.prf = r.prf
       /\ q.prealen = r.prealen /\ q.channel = r.channel /\ q.code = r.code
       /\ q.rxprf = r.rxprf /\ q.sfd = r.sfd /\ q.tune = r.tune
  BY <1>5, <1>10, <1>11 DEF RegFields
<1> QED BY <1>1, <1>3, <1>5, <1>7, <1>8, <1>9, <1>12, FrameKeeps

LEMMA ReceiveKeeps ==
  ASSUME ConfigInv, Config!Receive
  PROVE  ConfigInv'
<1>1. IsLib(lib) /\ configured[selected] = "ready" /\ UNCHANGED <<selected, configured, asked>>
  BY DEF Config!Receive, Config!InPhase, ConfigInv, ConfigTypes
<1>2. PICK set : set = [lib EXCEPT !.mode = "RX"]
  OBVIOUS
<1>3. /\ IsLib(set) /\ set.mode = "RX" /\ set.antd = lib.antd
      /\ set.calibrated = lib.calibrated
      /\ set.rate = lib.rate /\ set.prf = lib.prf /\ set.prealen = lib.prealen
      /\ set.pac = lib.pac /\ set.channel = lib.channel /\ set.code = lib.code
      /\ set.smart = lib.smart /\ set.syscfg = lib.syscfg /\ set.txfctrl = lib.txfctrl
      /\ set.chanctrl = lib.chanctrl
  BY <1>1, <1>2, ModeSetOnly
<1>4. Config!SetDefaults(set) = set
  BY <1>3 DEF Config!SetDefaults
<1>5. lib' = [set EXCEPT !.permanent = TRUE]
  BY <1>2, <1>4 DEF Config!Receive
<1>6. /\ DOMAIN lib' = LibFields /\ lib'.mode = set.mode /\ lib'.antd = set.antd
      /\ lib'.calibrated = set.calibrated
      /\ lib'.rate = set.rate /\ lib'.prf = set.prf /\ lib'.prealen = set.prealen
      /\ lib'.pac = set.pac /\ lib'.channel = set.channel /\ lib'.code = set.code
      /\ lib'.smart = set.smart /\ lib'.syscfg = set.syscfg /\ lib'.txfctrl = set.txfctrl
      /\ lib'.chanctrl = set.chanctrl
  BY <1>3, <1>5 DEF IsLib, LibFields
<1>7. IsLib(lib')
  BY <1>3, <1>6 DEF IsLib
<1>8. PICK r, p, q : /\ r = chip[selected]
                     /\ p = [r EXCEPT !.disStxp = lib.syscfg.disStxp]
                     /\ q = [p EXCEPT !.rxm110k = lib.syscfg.rxm110k]
  OBVIOUS
<1>9. DOMAIN chip' = Chips /\ chip'[selected] = q
  <2>1. PICK b : b = [chip EXCEPT ![selected] = p]
    OBVIOUS
  <2>2. DOMAIN b = Chips /\ b[selected] = p /\ selected \in Chips
    BY <2>1 DEF ConfigInv, ConfigTypes
  <2>3. chip' = [chip EXCEPT ![selected].disStxp = lib.syscfg.disStxp,
                            ![selected].rxm110k = lib.syscfg.rxm110k]
    BY <1>3, <1>6 DEF Config!Receive
  <2>4. chip' = [b EXCEPT ![selected].rxm110k = lib.syscfg.rxm110k]
    BY <1>8, <2>1, <2>3
  <2> QED BY <1>8, <2>2, <2>4
<1>10. Taken(r, lib) /\ DOMAIN r = RegFields
  BY <1>1, <1>8 DEF ConfigInv, ConfigTypes, Settled
<1>11. r.disStxp = lib.syscfg.disStxp /\ r.rxm110k = lib.syscfg.rxm110k
  BY <1>10 DEF Taken
<1>12. /\ DOMAIN p = DOMAIN r /\ p.antd = r.antd /\ p.sfdlen = r.sfdlen
       /\ p.disStxp = r.disStxp /\ p.rxm110k = r.rxm110k /\ p.rate = r.rate /\ p.prf = r.prf
       /\ p.prealen = r.prealen /\ p.channel = r.channel /\ p.code = r.code
       /\ p.rxprf = r.rxprf /\ p.sfd = r.sfd /\ p.tune = r.tune
  BY <1>8, <1>10, <1>11 DEF RegFields
<1>13. /\ DOMAIN q = DOMAIN r /\ q.antd = r.antd /\ q.sfdlen = r.sfdlen
       /\ q.disStxp = r.disStxp /\ q.rxm110k = r.rxm110k /\ q.rate = r.rate /\ q.prf = r.prf
       /\ q.prealen = r.prealen /\ q.channel = r.channel /\ q.code = r.code
       /\ q.rxprf = r.rxprf /\ q.sfd = r.sfd /\ q.tune = r.tune
  BY <1>8, <1>10, <1>11, <1>12 DEF RegFields
<1> QED BY <1>1, <1>3, <1>6, <1>7, <1>8, <1>9, <1>13, FrameKeeps

LEMMA ConfigStep == ConfigInv /\ [Config!Next]_(Config!vars) => ConfigInv'
<1>1. ConfigInv /\ UNCHANGED Config!vars => ConfigInv'
  BY DEF Config!vars, ConfigInv, ConfigTypes, Settled, Remembered
<1>2. ASSUME ConfigInv, NEW c \in Chips, Config!Reselect(c)
      PROVE  ConfigInv'
  BY <1>2 DEF Config!Reselect, ConfigInv, ConfigTypes
<1> QED
  BY <1>1, <1>2, SelectKeeps, NewKeeps, DefaultsKeep, CommitKeeps, LargePowerKeeps, TransmitKeeps,
     ReceiveKeeps, ChooseModeKeeps, ChooseChannelKeeps, ChoosePowerKeeps, DelayKeeps
     DEF Config!Next

(* Whatever a program does with the one chip it drives, in any order, the  *)
(* chip at work is as it was set.                                          *)
THEOREM ChipIsAsSet == (\E c : Chips = {c}) => (Config!Spec => []ChipAsSet)
<1>1. ConfigInv => ChipAsSet
  <2> SUFFICES ASSUME ConfigInv
               PROVE  ChipAsSet
    OBVIOUS
  <2>1. Config!TypeOK
    BY DEF ConfigInv, ConfigTypes, Config!TypeOK
  <2>2. Config!AntennaKept
    BY DEF ConfigInv, Settled, Remembered, Config!AntennaKept, Config!AtWork, Config!Reg
  <2> SUFFICES ASSUME configured[selected] = "ready"
               PROVE  Config!TunedAsSet /\ Config!SfdAgrees /\ Config!WholeTune
    BY <2>1, <2>2 DEF ChipAsSet, Config!TunedAsSet, Config!SfdAgrees, Config!WholeTune, Config!AtWork
  <2>3. PICK r, t, f : r = chip[selected] /\ t = Config!Tune(lib)
                       /\ f = [t EXCEPT !.power = Config!FlatPower]
    OBVIOUS
  <2>4. Agrees(lib) /\ Taken(r, lib) /\ r.sfdlen = Config!SfdLength(lib.rate)
    BY <2>3 DEF ConfigInv, Settled
  <2>5. PICK s : s = Config!Says(r)
    OBVIOUS
  <2>6. Config!Tune(s) = t
    <3>1. /\ s.rate = lib.rate /\ s.prf = lib.prf /\ s.prealen = lib.prealen /\ s.pac = lib.pac
          /\ s.channel = lib.channel /\ s.code = lib.code
      BY <2>4, <2>5 DEF Config!Says, Taken, Agrees, ModeAgrees, ChannelAgrees
    <3>2. s.smart = lib.smart
      BY <2>4, <2>5 DEF Config!Says, Taken, Agrees, PowerAgrees
    <3> QED BY <2>3, <3>1, <3>2, TuneOfSettings
  <2>7. Config!TunedAsSet
    BY <2>3, <2>4, <2>5, <2>6
       DEF Config!TunedAsSet, Config!Reg, Taken, Agrees, ModeAgrees
  <2>8. Config!SfdAgrees
    BY <2>3, <2>4 DEF Config!SfdAgrees, Config!Reg, Taken, Agrees, ModeAgrees
  <2>9. r.tune \in {t, f} /\ DOMAIN f = DOMAIN t
    BY <2>3, <2>4 DEF Taken
  <2>10. /\ \A x \in DOMAIN t \ {"power"} : t[x] # Config!Unset /\ f[x] # Config!Unset
         /\ t.power # <<Config!Unset>>
    BY <2>3, <2>4, TuneWhole
  <2>11. f.power # <<Config!Unset>>
    <3>1. "power" \in DOMAIN t
      BY <2>3 DEF Config!Tune
    <3>2. f.power = Config!FlatPower
      BY <2>3, <3>1
    <3> QED BY <3>2 DEF Config!FlatPower, Config!Unset
  <2>12. Config!WholeTune
    BY <2>3, <2>9, <2>10, <2>11 DEF Config!WholeTune, Config!Reg
  <2> QED BY <2>7, <2>8, <2>12
<1>2. (\E c : Chips = {c}) /\ Config!Spec => []ConfigInv
  BY ConfigStarts, ConfigStep, PTL DEF Config!Spec
<1> QED BY <1>1, <1>2, PTL

-----------------------------------------------------------------------------
(* The table of devices: sequences first, for what a check leaves of one. *)

(* A function on the first n positive numbers is a sequence of length n.   *)
LEMMA FunctionIsSeq ==
  ASSUME NEW n \in Nat, NEW S, NEW f \in [1 .. n -> S]
  PROVE  f \in Seq(S) /\ Len(f) = n
<1>1. f \in Seq(S)
  BY SeqDef
<1>2. Len(f) \in Nat /\ 1 .. Len(f) = 1 .. n
  BY <1>1, LenProperties
<1>3. Len(f) <= n
  BY <1>2
<1>4. n <= Len(f)
  BY <1>2
<1> QED BY <1>1, <1>2, <1>3, <1>4

(* A sequence, of whatever.                                                *)
IsSequence(s) == s \in Seq({s[i] : i \in DOMAIN s})

(* Its length and places.                                                  *)
LEMMA SequenceIs ==
  ASSUME NEW s, IsSequence(s)
  PROVE  Len(s) \in Nat /\ DOMAIN s = 1 .. Len(s)
  BY LenProperties DEF IsSequence

(* A sequence of members of S is one over S, and the other way round.      *)
LEMMA SequenceIsOf ==
  ASSUME NEW s, IsSequence(s), NEW S, \A i \in 1 .. Len(s) : s[i] \in S
  PROVE  s \in Seq(S)
<1>1. {s[i] : i \in DOMAIN s} \subseteq S
  BY SequenceIs
<1> QED BY <1>1, SeqMonotonic DEF IsSequence

LEMMA SequenceOf ==
  ASSUME NEW S, NEW s \in Seq(S)
  PROVE  IsSequence(s) /\ \A i \in 1 .. Len(s) : s[i] \in S
<1>1. Len(s) \in Nat /\ DOMAIN s = 1 .. Len(s) /\ s \in [1 .. Len(s) -> S]
  BY LenProperties
<1>2. s \in [1 .. Len(s) -> {s[i] : i \in DOMAIN s}]
  BY <1>1
<1> QED BY <1>1, <1>2, FunctionIsSeq DEF IsSequence

(* Every entry carries the index of its place.                             *)
Placed(ds) ==
  \A i \in 1 .. Len(ds) : "index" \in DOMAIN ds[i] /\ ds[i] = [ds[i] EXCEPT !.index = i - 1]

(* The index of an entry alone is set.                                     *)
LEMMA IndexSet ==
  ASSUME NEW e, NEW v, NEW w, "index" \in DOMAIN e, NEW f, f = [e EXCEPT !.index = v]
  PROVE  /\ f.index = v /\ DOMAIN f = DOMAIN e
         /\ [f EXCEPT !.index = w] = [e EXCEPT !.index = w]
         /\ \A x \in DOMAIN e : x # "index" => f[x] = e[x]
  OBVIOUS

(* The place that the k-th entry had before the i-th was removed.          *)
Before(i, k) == IF k < i THEN k ELSE k + 1

(* What RemoveDevice leaves: the devices behind move up a place.           *)
LEMMA RemoveIs ==
  ASSUME NEW ds, IsSequence(ds), Placed(ds), NEW i \in 1 .. Len(ds),
         NEW new, new = Table!RemoveDevice(ds, i)
  PROVE  /\ IsSequence(new) /\ Len(new) = Len(ds) - 1 /\ Placed(new)
         /\ \A k \in 1 .. Len(new) : new[k] = [ds[Before(i, k)] EXCEPT !.index = k - 1]
<1>0. PICK n \in Nat : n = Len(ds) /\ DOMAIN ds = 1 .. n /\ 1 <= n /\ i <= n
  BY SequenceIs
<1>1. /\ IsSequence(new) /\ Len(new) = n - 1
      /\ \A k \in 1 .. n - 1 : new[k] = [ds[Before(i, k)] EXCEPT !.index = k - 1]
  <2>1. CASE n = 1
    <3>1. new = <<>>
      BY <1>0, <2>1 DEF Table!RemoveDevice
    <3> QED BY <2>1, <3>1, EmptySeq DEF IsSequence
  <2>2. CASE n # 1 /\ i = n
    <3>1. new = SubSeq(ds, 1, n - 1)
      BY <1>0, <2>2 DEF Table!RemoveDevice, Table!Front
    <3> DEFINE S == {ds[j] : j \in DOMAIN ds}
    <3>2. \A j \in 1 .. n - 1 : ds[j] \in S
      BY <1>0
    <3>3. /\ new \in Seq(S) /\ Len(new) = n - 1
          /\ \A k \in 1 .. n - 1 : new[k] = ds[k]
      BY <1>0, <2>2, <3>1, <3>2, SubSeqProperties
    <3>4. IsSequence(new)
      BY <3>3, SequenceOf
    <3>5. \A k \in 1 .. n - 1 : Before(i, k) = k /\ k \in 1 .. Len(ds)
      BY <1>0, <2>2 DEF Before
    <3> QED BY <3>3, <3>4, <3>5 DEF Placed
  <2>3. CASE n # 1 /\ i # n
    <3>1. new = [j \in 1 .. n - 1 |-> IF j < i THEN ds[j] ELSE [ds[j + 1] EXCEPT !.index = j - 1]]
      BY <1>0, <2>3 DEF Table!RemoveDevice
    <3>2. \A k \in 1 .. n - 1 : new[k] = [ds[Before(i, k)] EXCEPT !.index = k - 1]
      <4> SUFFICES ASSUME NEW k \in 1 .. n - 1
                   PROVE  new[k] = [ds[Before(i, k)] EXCEPT !.index = k - 1]
        OBVIOUS
      <4>1. CASE k < i
        BY <1>0, <3>1, <4>1 DEF Before, Placed
      <4>2. CASE ~(k < i)
        BY <1>0, <3>1, <4>2 DEF Before
      <4> QED BY <4>1, <4>2
    <3>3. n - 1 \in Nat /\ DOMAIN new = 1 .. n - 1 /\ new \in [1 .. n - 1 -> {new[j] : j \in DOMAIN new}]
      BY <1>0, <3>1
    <3> QED BY <3>2, <3>3, FunctionIsSeq DEF IsSequence
  <2> QED BY <2>1, <2>2, <2>3
<1>2. ASSUME NEW k \in 1 .. n - 1
      PROVE  "index" \in DOMAIN new[k] /\ new[k] = [new[k] EXCEPT !.index = k - 1]
  <2>1. Before(i, k) \in 1 .. n
    BY <1>0 DEF Before
  <2>2. "index" \in DOMAIN ds[Before(i, k)]
    BY <1>0, <2>1 DEF Placed
  <2> QED BY <1>1, <2>2, IndexSet
<1> QED BY <1>0, <1>1, <1>2 DEF Placed

(* A set of naturals that is not empty has a least element.                *)
LEMMA LeastNatural ==
  ASSUME NEW S, S \subseteq Nat, S # {}
  PROVE  \E x \in S : \A y \in S : x <= y
<1> DEFINE below == OpToRel(<, Nat)
<1>1. PICK x \in S : \A y \in S : ~ (<<y, x>> \in below)
  BY NatLessThanWellFounded, WFMin
<1>2. ASSUME NEW y \in S, y < x
      PROVE  FALSE
  <2>1. <<y, x>> \in Nat \X Nat /\ <<y, x>>[1] < <<y, x>>[2]
    BY <1>2
  <2>2. <<y, x>> \in below
    BY <2>1 DEF OpToRel
  <2> QED BY <1>1, <2>2
<1>3. \A y \in S : x <= y
  BY <1>2
<1> QED BY <1>3

(* A turn of the loop of checkForInactiveDevices.                          *)
Turn(ds, i) == IF i <= Len(ds) /\ ds[i].silent THEN Table!RemoveDevice(ds, i) ELSE ds

(* The tables after the turns up to the n-th.                              *)
Turns(after, ds, n) == after = [i \in 0 .. n |-> IF i = 0 THEN ds ELSE Turn(after[i - 1], i)]

(* The turns of a check exist, for any number of them: the least number    *)
(* that had none would be one more than one that has.                      *)
LEMMA TurnsAre ==
  ASSUME NEW ds, NEW n \in Nat
  PROVE  \E after : Turns(after, ds, n)
<1> DEFINE S == {m \in Nat : ~\E after : Turns(after, ds, m)}
<1> SUFFICES ASSUME S # {}
             PROVE  FALSE
  OBVIOUS
<1>1. PICK m \in S : \A k \in S : m <= k
  <2>1. S \subseteq Nat
    OBVIOUS
  <2> HIDE DEF S
  <2> QED BY <2>1, LeastNatural
<1>2. m # 0
  <2>1. ASSUME m = 0
        PROVE  Turns([i \in 0 .. 0 |-> ds], ds, m)
    BY <2>1 DEF Turns
  <2> QED BY <2>1
<1>3. m \in Nat /\ m - 1 \in Nat /\ m - 1 \notin S
  BY <1>1, <1>2
<1>4. PICK g : Turns(g, ds, m - 1)
  BY <1>3
<1> DEFINE f == [i \in 0 .. m |-> IF i = m THEN Turn(g[m - 1], m) ELSE g[i]]
<1>5. \A i \in 0 .. m : f[i] = IF i = 0 THEN ds ELSE Turn(f[i - 1], i)
  <2> SUFFICES ASSUME NEW i \in 0 .. m
               PROVE  f[i] = IF i = 0 THEN ds ELSE Turn(f[i - 1], i)
    OBVIOUS
  <2>1. CASE i = m
    BY <1>2, <1>3, <2>1
  <2>2. CASE i # m
    <3>1. i \in 0 .. m - 1 /\ f[i] = g[i]
      BY <1>3, <2>2
    <3>2. g[i] = IF i = 0 THEN ds ELSE Turn(g[i - 1], i)
      BY <1>4, <3>1 DEF Turns
    <3>3. i # 0 => f[i - 1] = g[i - 1]
      BY <1>3, <2>2
    <3> QED BY <3>1, <3>2, <3>3
  <2> QED BY <2>1, <2>2
<1>6. Turns(f, ds, m)
  BY <1>5 DEF Turns
<1> QED BY <1>6

(* A check is its last turn.                                               *)
LEMMA CheckIs ==
  ASSUME NEW ds, Len(ds) \in Nat
  PROVE  \E after : Turns(after, ds, Len(ds)) /\ Table!CheckInactive(ds) = after[Len(ds)]
<1>1. PICK after : after = CHOOSE a : Turns(a, ds, Len(ds))
  OBVIOUS
<1>2. Turns(after, ds, Len(ds))
  BY <1>1, TurnsAre
<1>3. Table!CheckInactive(ds) = after[Len(ds)]
  BY <1>1 DEF Table!CheckInactive, Turns, Turn
<1> QED BY <1>2, <1>3

(* What is left of a table, with the places its entries had: in order, but *)
(* for the index as they were, and all that are not silent.                *)
LeftOf(ds, new, place) ==
  /\ IsSequence(new) /\ Placed(new) /\ Len(new) <= Len(ds)
  /\ place \in [1 .. Len(new) -> 1 .. Len(ds)]
  /\ \A j, k \in 1 .. Len(new) : j < k => place[j] < place[k]
  /\ \A k \in 1 .. Len(new) : new[k] = [ds[place[k]] EXCEPT !.index = k - 1]
  /\ \A i \in 1 .. Len(ds) : ds[i].silent \/ \E k \in 1 .. Len(new) : place[k] = i
IsLeft(ds, new) == \E place : LeftOf(ds, new, place)

(* A check begins with all devices.                                        *)
LEMMA AllIsLeft ==
  ASSUME NEW ds, IsSequence(ds), Placed(ds)
  PROVE  IsLeft(ds, ds)
<1>1. PICK n \in Nat : n = Len(ds)
  BY SequenceIs
<1>2. LeftOf(ds, ds, [i \in 1 .. n |-> i])
  BY <1>1 DEF LeftOf, Placed
<1> QED BY <1>2 DEF IsLeft

(* A turn of a check leaves every device that is not silent, in its order. *)
LEMMA SilentGoes ==
  ASSUME NEW ds, IsSequence(ds), Placed(ds), \A i \in 1 .. Len(ds) : "silent" \in DOMAIN ds[i],
         NEW mid, IsLeft(ds, mid), NEW i \in Nat \ {0}
  PROVE  IsLeft(ds, Turn(mid, i))
<1>1. CASE ~(i <= Len(mid) /\ mid[i].silent)
  BY <1>1 DEF Turn
<1>2. CASE i <= Len(mid) /\ mid[i].silent
  <2>1. PICK place : LeftOf(ds, mid, place)
    BY DEF IsLeft
  <2>2. PICK n \in Nat, m \in Nat : n = Len(ds) /\ m = Len(mid) /\ m <= n /\ i \in 1 .. m
    BY <1>2, <2>1, SequenceIs DEF LeftOf
  <2>3. PICK new : new = Table!RemoveDevice(mid, i)
    OBVIOUS
  <2>4. /\ IsSequence(new) /\ Len(new) = m - 1 /\ Placed(new)
        /\ \A k \in 1 .. m - 1 : new[k] = [mid[Before(i, k)] EXCEPT !.index = k - 1]
    <3>1. IsSequence(mid) /\ Placed(mid) /\ i \in 1 .. Len(mid)
      BY <2>1, <2>2 DEF LeftOf
    <3>2. /\ IsSequence(new) /\ Len(new) = Len(mid) - 1 /\ Placed(new)
          /\ \A k \in 1 .. Len(new) : new[k] = [mid[Before(i, k)] EXCEPT !.index = k - 1]
      BY <2>3, <3>1, RemoveIs, SMTT(30)
    <3> QED BY <2>2, <3>2
  <2> DEFINE was == [k \in 1 .. m - 1 |-> place[Before(i, k)]]
  <2>5. \A k \in 1 .. m - 1 : Before(i, k) \in 1 .. m /\ Before(i, k) # i
    BY <2>2 DEF Before
  <2>6. was \in [1 .. m - 1 -> 1 .. n]
    BY <2>1, <2>2, <2>5 DEF LeftOf
  <2>7. ASSUME NEW j \in 1 .. m - 1, NEW k \in 1 .. m - 1, j < k
        PROVE  was[j] < was[k]
    <3>1. Before(i, j) < Before(i, k)
      BY <2>2, <2>7 DEF Before
    <3> QED BY <2>1, <2>2, <2>5, <3>1 DEF LeftOf
  <2>8. ASSUME NEW k \in 1 .. m - 1
        PROVE  new[k] = [ds[was[k]] EXCEPT !.index = k - 1]
    <3>1. mid[Before(i, k)] = [ds[was[k]] EXCEPT !.index = Before(i, k) - 1]
      BY <2>1, <2>2, <2>5 DEF LeftOf
    <3>2. "index" \in DOMAIN ds[was[k]]
      BY <2>2, <2>6 DEF Placed
    <3> QED BY <2>4, <3>1, <3>2, IndexSet
  <2>9. ASSUME NEW x \in 1 .. n, ~ds[x].silent
        PROVE  \E k \in 1 .. m - 1 : was[k] = x
    <3>1. PICK k \in 1 .. m : place[k] = x
      BY <2>1, <2>2, <2>9 DEF LeftOf
    <3>2. k # i
      <4>1. mid[k] = [ds[x] EXCEPT !.index = k - 1]
        BY <2>1, <2>2, <3>1 DEF LeftOf
      <4>2. "index" \in DOMAIN ds[x] /\ "silent" \in DOMAIN ds[x]
        BY <2>2 DEF Placed
      <4>3. mid[k].silent = ds[x].silent
        BY <4>1, <4>2
      <4> QED BY <1>2, <2>9, <4>3
    <3>3. CASE k < i
      <4>1. k \in 1 .. m - 1 /\ Before(i, k) = k
        BY <2>2, <3>3 DEF Before
      <4> QED BY <3>1, <4>1
    <3>4. CASE i < k
      <4>1. k - 1 \in 1 .. m - 1 /\ Before(i, k - 1) = k
        BY <2>2, <3>4 DEF Before
      <4> QED BY <3>1, <4>1
    <3> QED BY <2>2, <3>2, <3>3, <3>4
  <2>10. LeftOf(ds, new, was)
    BY <2>2, <2>4, <2>6, <2>7, <2>8, <2>9 DEF LeftOf
  <2>11. Turn(mid, i) = new
    BY <1>2, <2>3 DEF Turn
  <2> QED BY <2>10, <2>11 DEF IsLeft
<1> QED BY <1>1, <1>2

(* So does the whole check.                                                *)
LEMMA CheckLeaves ==
  ASSUME NEW ds, IsSequence(ds), Placed(ds), \A i \in 1 .. Len(ds) : "silent" \in DOMAIN ds[i]
  PROVE  IsLeft(ds, Table!CheckInactive(ds))
<1>1. PICK n \in Nat : n = Len(ds)
  BY SequenceIs
<1>2. PICK after : Turns(after, ds, n) /\ Table!CheckInactive(ds) = after[n]
  BY <1>1, CheckIs
<1> DEFINE S == {i \in 0 .. n : ~IsLeft(ds, after[i])}
<1> SUFFICES ASSUME S # {}
             PROVE  FALSE
  BY <1>1, <1>2
<1>3. PICK i \in S : \A k \in S : i <= k
  <2>1. S \subseteq Nat
    BY <1>1
  <2> HIDE DEF S
  <2> QED BY <2>1, LeastNatural
<1>4. i \in 0 .. n /\ ~IsLeft(ds, after[i])
  BY <1>3
<1>5. CASE i = 0
  BY <1>1, <1>2, <1>4, <1>5, AllIsLeft DEF Turns
<1>6. CASE i # 0
  <2>1. i - 1 \in 0 .. n /\ i - 1 \notin S /\ i \in Nat \ {0}
    BY <1>1, <1>3, <1>4, <1>6
  <2>2. IsLeft(ds, after[i - 1])
    BY <2>1
  <2>3. after[i] = Turn(after[i - 1], i)
    BY <1>1, <1>2, <1>4, <1>6 DEF Turns
  <2> QED BY <1>4, <2>1, <2>2, <2>3, SilentGoes
<1> QED BY <1>5, <1>6

(* No device is there twice.                                               *)
Distinct(ds) == \A i, j \in 1 .. Len(ds) : ds[i].addr = ds[j].addr => i = j

(* No more devices than addresses.                                         *)
LEMMA DistinctFit ==
  ASSUME NEW S, IsFiniteSet(S), NEW ds, Len(ds) \in Nat, Distinct(ds),
         \A i \in 1 .. Len(ds) : ds[i].addr \in S
  PROVE  Len(ds) <= Cardinality(S) /\ Cardinality(S) \in Nat
<1>1. PICK n \in Nat : n = Len(ds)
  OBVIOUS
<1> DEFINE f == [i \in 1 .. n |-> ds[i].addr]
<1>2. f \in Injection(1 .. n, S)
  BY <1>1 DEF Injection, IsInjective, Distinct
<1>3. Cardinality(1 .. n) <= Cardinality(S)
  BY <1>2, FS_Injection
<1>4. Cardinality(1 .. n) = n
  BY FS_Interval
<1>5. Cardinality(S) \in Nat
  BY FS_CardinalityType
<1> QED BY <1>1, <1>3, <1>4, <1>5

(* The operators of an instance's own library modules.                     *)
LEMMA SameSizes ==
  \A S : Table!Cardinality(S) = Cardinality(S) /\ (Table!IsFiniteSet(S) <=> IsFiniteSet(S))
  BY DEF Table!Cardinality, Cardinality, Table!IsFiniteSet, IsFiniteSet

(* An entry of the table, its fields drawn from any two sets.              *)
LEMMA EntryIs ==
  ASSUME NEW Index, NEW Switch
  PROVE  \A e \in [addr : Addr, index : Index, silent : Switch, elapsed : Switch] :
           /\ \A v \in Index : [e EXCEPT !.index = v] \in
                [addr : Addr, index : Index, silent : Switch, elapsed : Switch]
           /\ \A s \in Switch : [e EXCEPT !.silent = s, !.elapsed = s] \in
                [addr : Addr, index : Index, silent : Switch, elapsed : Switch]
           /\ e = [e EXCEPT !.index = e.index]
           /\ DOMAIN e = {"addr", "index", "silent", "elapsed"} /\ e.addr \in Addr
  OBVIOUS

LEMMA EntryWith ==
  ASSUME NEW e \in Table!Entry
  PROVE  /\ \A v \in 0 .. Cardinality(Addr) - 1 :
              [e EXCEPT !.index = v] \in Table!Entry
         /\ \A s \in BOOLEAN : [e EXCEPT !.silent = s, !.elapsed = s] \in Table!Entry
         /\ e = [e EXCEPT !.index = e.index]
         /\ DOMAIN e = {"addr", "index", "silent", "elapsed"} /\ e.addr \in Addr
<1>1. PICK Index, Switch : Index = 0 .. Cardinality(Addr) - 1 /\ Switch = BOOLEAN
  OBVIOUS
<1>2. Table!Entry = [addr : Addr, index : Index, silent : Switch, elapsed : Switch]
  BY <1>1, SameSizes DEF Table!Entry
<1> QED BY <1>1, <1>2, EntryIs

(* Addresses are finitely many.                                            *)
LEMMA AddrFinite == IsFiniteSet(Addr)
<1>1. Table!NetworkDevicesAssumption
  BY PartAssumptions
<1> QED BY <1>1, SameSizes DEF Table!NetworkDevicesAssumption

TableInv ==
  /\ table \in Seq(Table!Entry)
  /\ Distinct(table)
  /\ \A i \in 1 .. Len(table) : table[i].index = i - 1

(* What the invariant says of the table as a sequence.                     *)
LEMMA TablePlaced ==
  ASSUME TableInv
  PROVE  /\ IsSequence(table) /\ Placed(table)
         /\ \A i \in 1 .. Len(table) : "silent" \in DOMAIN table[i]
         /\ Len(table) \in Nat /\ DOMAIN table = 1 .. Len(table)
         /\ \A i \in 1 .. Len(table) : table[i] \in Table!Entry
<1>1. IsSequence(table) /\ \A i \in 1 .. Len(table) : table[i] \in Table!Entry
  BY SequenceOf DEF TableInv
<1>2. ASSUME NEW i \in 1 .. Len(table)
      PROVE  /\ "index" \in DOMAIN table[i] /\ "silent" \in DOMAIN table[i]
             /\ table[i] = [table[i] EXCEPT !.index = i - 1]
  <2>1. PICK e \in Table!Entry : e = table[i]
    BY <1>1
  <2>2. e = [e EXCEPT !.index = e.index] /\ DOMAIN e = {"addr", "index", "silent", "elapsed"}
    BY EntryWith
  <2>3. e.index = i - 1
    BY <2>1 DEF TableInv
  <2> QED BY <2>1, <2>2, <2>3
<1> QED BY <1>1, <1>2, SequenceIs DEF Placed

(* checkForInactiveDevices.                                                *)
LEMMA CheckKeepsTable ==
  ASSUME TableInv, Table!Check
  PROVE  TableInv' /\ Table!Keeps(table, table')
<1>1. PICK new, place : new = table' /\ LeftOf(table, new, place)
  BY TablePlaced, CheckLeaves DEF Table!Check, IsLeft
<1>2. PICK n \in Nat, m \in Nat : n = Len(table) /\ m = Len(new) /\ m <= n
  BY <1>1, TablePlaced, SequenceIs DEF LeftOf
<1>3. DOMAIN table = 1 .. n /\ DOMAIN new = 1 .. m
  BY <1>1, <1>2, TablePlaced, SequenceIs DEF LeftOf
<1>4. ASSUME NEW k \in 1 .. m
      PROVE  /\ place[k] \in 1 .. n /\ table[place[k]] \in Table!Entry
             /\ new[k] = [table[place[k]] EXCEPT !.index = k - 1]
  BY <1>1, <1>2, TablePlaced DEF LeftOf
<1>5. n <= Cardinality(Addr) /\ Cardinality(Addr) \in Nat
  <2>1. IsFiniteSet(Addr)
    BY AddrFinite
  <2>2. \A i \in 1 .. Len(table) : table[i].addr \in Addr
    BY TablePlaced, EntryWith
  <2> QED BY <1>2, <2>1, <2>2, DistinctFit DEF TableInv
<1>6. ASSUME NEW k \in 1 .. m
      PROVE  /\ new[k] \in Table!Entry /\ new[k].index = k - 1
             /\ new[k].addr = table[place[k]].addr
  <2>1. k - 1 \in 0 .. Cardinality(Addr) - 1
    BY <1>2, <1>5
  <2>2. new[k] \in Table!Entry
    <3>1. PICK e \in Table!Entry : e = table[place[k]]
      BY <1>4
    <3>2. \A v \in 0 .. Cardinality(Addr) - 1 : [e EXCEPT !.index = v] \in Table!Entry
      BY EntryWith
    <3>3. [e EXCEPT !.index = k - 1] \in Table!Entry
      BY <2>1, <3>2
    <3> QED BY <1>4, <3>1, <3>3
  <2>3. DOMAIN table[place[k]] = {"addr", "index", "silent", "elapsed"}
    BY <1>4, EntryWith
  <2> QED BY <1>4, <2>2, <2>3
<1>7. new \in Seq(Table!Entry)
  BY <1>1, <1>2, <1>6, SequenceIsOf DEF LeftOf
<1>8. Distinct(new)
  <2> SUFFICES ASSUME NEW j \in 1 .. m, NEW k \in 1 .. m, new[j].addr = new[k].addr
               PROVE  j = k
    BY <1>2 DEF Distinct
  <2>1. place[j] \in 1 .. n /\ place[k] \in 1 .. n
        /\ table[place[j]].addr = table[place[k]].addr
    BY <1>4, <1>6
  <2>2. place[j] = place[k]
    BY <1>2, <2>1 DEF TableInv, Distinct
  <2> QED BY <1>1, <1>2, <1>4, <2>2 DEF LeftOf
<1>9. TableInv'
  BY <1>1, <1>2, <1>6, <1>7, <1>8 DEF TableInv
<1>10. Table!Keeps(table, new)
  <2>1. place \in [DOMAIN new -> DOMAIN table]
    BY <1>1, <1>2, <1>3 DEF LeftOf
  <2>2. Table!KeptAt(table, new, place)
    BY <1>1, <1>2, <1>3, <1>4, <1>6 DEF LeftOf, Table!KeptAt
  <2> QED BY <2>1, <2>2 DEF Table!Keeps
<1> QED BY <1>1, <1>9, <1>10

(* A device is added, unless it is there.                                  *)
LEMMA AppearsKeepsTable ==
  ASSUME TableInv, NEW a \in Addr, Table!Appears(a)
  PROVE  TableInv'
<1>1. PICK silent, new :
        /\ silent \in BOOLEAN
        /\ new = [addr |-> a, index |-> 0, silent |-> silent, elapsed |-> FALSE]
        /\ table' = Table!AddDevice(table, new)
  BY DEF Table!Appears
<1>0. new.addr = a
  BY <1>1, SMTT(30)
<1>2. PICK n \in Nat : n = Len(table) /\ DOMAIN table = 1 .. n
  BY TablePlaced
<1>3. PICK dev : dev = [addr |-> a, index |-> n, silent |-> silent, elapsed |-> FALSE]
  OBVIOUS
<1>4. CASE Table!Position(table, a) # 0
  <2>1. table' = table
    BY <1>0, <1>1, <1>4 DEF Table!AddDevice
  <2> QED BY <2>1 DEF TableInv, Distinct
<1>5. CASE Table!Position(table, a) = 0
  <2>1. table' = Append(table, dev)
    <3>1. [new EXCEPT !.index = n] = dev
      <4>1. \A s, f : [[addr |-> a, index |-> 0, silent |-> s, elapsed |-> f] EXCEPT !.index = n] =
              [addr |-> a, index |-> n, silent |-> s, elapsed |-> f]
        OBVIOUS
      <4> QED BY <1>1, <1>3, <4>1, Zenon
    <3> QED BY <1>0, <1>1, <1>2, <1>5, <3>1 DEF Table!AddDevice
  <2>2. \A i \in 1 .. n : table[i].addr # a
    BY <1>2, <1>5 DEF Table!Position
  <2>3. n <= Cardinality(Addr) - 1 /\ Cardinality(Addr) \in Nat
    <3>1. IsFiniteSet(Addr) /\ IsFiniteSet(Addr \ {a})
          /\ Cardinality(Addr \ {a}) = Cardinality(Addr) - 1
      BY AddrFinite, FS_RemoveElement
    <3>2. \A i \in 1 .. Len(table) : table[i].addr \in Addr \ {a}
      BY <1>2, <2>2, TablePlaced, EntryWith
    <3>3. n <= Cardinality(Addr \ {a})
      BY <1>2, <3>1, <3>2, DistinctFit DEF TableInv
    <3>4. Cardinality(Addr) \in Nat
      BY <3>1, FS_CardinalityType
    <3> QED BY <3>1, <3>3, <3>4
  <2>4. dev \in Table!Entry /\ dev.addr = a /\ dev.index = n
    <3>1. n \in 0 .. Cardinality(Addr) - 1
      BY <2>3
    <3>2. PICK Index, Switch : Index = 0 .. Cardinality(Addr) - 1 /\ Switch = BOOLEAN
      OBVIOUS
    <3>3. Table!Entry = [addr : Addr, index : Index, silent : Switch, elapsed : Switch]
      BY <3>2, SameSizes DEF Table!Entry
    <3>4. silent \in Switch /\ FALSE \in Switch
      BY <1>1, <3>2
    <3> QED BY <1>3, <3>1, <3>2, <3>3, <3>4
  <2>5. /\ table' \in Seq(Table!Entry) /\ Len(table') = n + 1
        /\ \A i \in 1 .. n : table'[i] = table[i]
        /\ table'[n + 1] = dev
    BY <1>2, <2>1, <2>4, AppendProperties DEF TableInv
  <2>6. ASSUME NEW i \in 1 .. n + 1
        PROVE  i = n + 1 \/ i \in 1 .. n
    OBVIOUS
  <2>7. \A i \in 1 .. n + 1 : table'[i].index = i - 1
    BY <1>2, <2>4, <2>5, <2>6 DEF TableInv
  <2>8. \A i, j \in 1 .. n + 1 : table'[i].addr = table'[j].addr => i = j
    BY <1>2, <2>2, <2>4, <2>5, <2>6 DEF TableInv, Distinct
  <2> QED BY <2>5, <2>7, <2>8 DEF TableInv, Distinct
<1> QED BY <1>4, <1>5

(* A device is heard, or not.                                              *)
LEMMA HearingKeepsTable ==
  ASSUME TableInv, NEW i \in DOMAIN table, NEW s \in BOOLEAN,
         table' = [table EXCEPT ![i].silent = s, ![i].elapsed = s]
  PROVE  TableInv'
<1>1. PICK n \in Nat : n = Len(table) /\ DOMAIN table = 1 .. n
  BY TablePlaced
<1>2. PICK e, f : e = table[i] /\ f = [e EXCEPT !.silent = s, !.elapsed = s]
  OBVIOUS
<1>3. e \in Table!Entry /\ DOMAIN e = {"addr", "index", "silent", "elapsed"}
  BY <1>1, <1>2, TablePlaced, EntryWith
<1>4. f \in Table!Entry /\ f.addr = e.addr /\ f.index = e.index
  BY <1>2, <1>3, EntryWith
<1>5. DOMAIN table' = 1 .. n /\ \A j \in 1 .. n : table'[j] = IF j = i THEN f ELSE table[j]
  BY <1>1, <1>2
<1>6. table' = [table EXCEPT ![i] = f]
  BY <1>1, <1>2
<1>7. table' \in Seq(Table!Entry) /\ Len(table') = n
  BY <1>1, <1>4, <1>6, ExceptSeq, SMTT(30) DEF TableInv
<1> QED BY <1>1, <1>2, <1>4, <1>5, <1>7, SMTT(30) DEF TableInv, Distinct

(* Every step.                                                             *)
LEMMA TableStep ==
  TableInv /\ [Table!Next]_table => TableInv' /\ (Table!Check => Table!Keeps(table, table'))
<1>1. TableInv /\ UNCHANGED table => TableInv'
  BY DEF TableInv, Distinct
<1>2. ASSUME TableInv, NEW i \in DOMAIN table, Table!NoteActivity(i) \/ Table!FallsSilent(i)
      PROVE  TableInv'
  BY <1>2, HearingKeepsTable DEF Table!NoteActivity, Table!FallsSilent
<1> QED BY <1>1, <1>2, AppearsKeepsTable, CheckKeepsTable DEF Table!Next

(* The table of a tag stays sound, and a check keeps who is not silent,    *)
(* for any set of devices: although the loop that removes passes over the  *)
(* one behind each.                                                        *)
THEOREM TableIsKept == Table!Spec => TableKept
<1>1. Table!Init => TableInv
  BY EmptySeq DEF Table!Init, TableInv, Distinct
<1>2. TableInv => Table!TypeOK /\ Table!TableSound
  BY TablePlaced DEF TableInv, Distinct, Table!TypeOK, Table!TableSound
<1>3. TableInv /\ [Table!Next]_table => [Table!Check => Table!Keeps(table, table')]_table
  BY TableStep
<1>4. TableInv /\ [Table!Next]_table => TableInv'
  BY TableStep
<1> QED BY <1>1, <1>2, <1>3, <1>4, PTL DEF Table!Spec, TableKept, Table!KeepsActive

-----------------------------------------------------------------------------
(* Ranging.  A frame belongs to an exchange, which a POLL began when all was *)
(* quiet, or to a BLINK; and what it says of the times of an exchange whose   *)
(* list was l holds of the modules that noted them.                           *)

(* The operators of the instances are the same.                            *)
LEMMA SamePairOperators ==
  /\ \A S : Pair!Cardinality(S) = Cardinality(S) /\ (Pair!IsFiniteSet(S) <=> IsFiniteSet(S))
  /\ \A ds : Pair!CheckInactive(ds) = Table!CheckInactive(ds)
  /\ \A ds, a : Pair!Position(ds, a) = Table!Position(ds, a)
<1>1. \A S : Pair!Cardinality(S) = Cardinality(S) /\ (Pair!IsFiniteSet(S) <=> IsFiniteSet(S))
  BY DEF Pair!Cardinality, Cardinality, Pair!IsFiniteSet, IsFiniteSet
<1>2. \A ds : Pair!CheckInactive(ds) = Table!CheckInactive(ds)
  BY DEF Pair!CheckInactive, Table!CheckInactive, Pair!RemoveDevice, Table!RemoveDevice,
         Pair!Front, Table!Front
<1>3. \A ds, a : Pair!Position(ds, a) = Table!Position(ds, a)
  BY DEF Pair!Position, Table!Position
<1> QED BY <1>1, <1>2, <1>3

Module == Pair!Module
Fact == Pair!Dw1000RangingAssumption

(* Where a device is in a list.                                            *)
LEMMA PositionIs ==
  ASSUME NEW ds, NEW n \in Nat, DOMAIN ds = 1 .. n, NEW a, NEW i, i = Pair!Position(ds, a)
  PROVE  /\ i \in 0 .. n
         /\ i # 0 => i \in 1 .. n /\ ds[i].addr = a
         /\ i = 0 => \A j \in 1 .. n : ds[j].addr # a
<1>1. CASE \E j \in DOMAIN ds : ds[j].addr = a
  BY <1>1 DEF Pair!Position
<1>2. CASE ~\E j \in DOMAIN ds : ds[j].addr = a
  BY <1>2 DEF Pair!Position
<1> QED BY <1>1, <1>2

(* What is known of the tag.                                               *)
Known == [age : 0 .. Pair!Inactive, pollReceived : BOOLEAN, pollAckSent : BOOLEAN]

(* What an anchor keeps of the tag, its fields drawn from any two sets.    *)
LEMMA KnownIs ==
  ASSUME NEW Ages, NEW Switch
  PROVE  /\ \A g \in Ages, p \in Switch, q \in Switch :
              [age |-> g, pollReceived |-> p, pollAckSent |-> q] \in
                [age : Ages, pollReceived : Switch, pollAckSent : Switch]
         /\ \A k \in [age : Ages, pollReceived : Switch, pollAckSent : Switch] :
              /\ \A g \in Ages :
                   /\ [k EXCEPT !.age = g] \in
                        [age : Ages, pollReceived : Switch, pollAckSent : Switch]
                   /\ \A p \in Switch : [k EXCEPT !.pollReceived = p, !.age = g] \in
                        [age : Ages, pollReceived : Switch, pollAckSent : Switch]
              /\ \A p \in Switch : [k EXCEPT !.pollAckSent = p] \in
                   [age : Ages, pollReceived : Switch, pollAckSent : Switch]
              /\ k.age \in Ages /\ DOMAIN k = {"age", "pollReceived", "pollAckSent"}
  OBVIOUS

LEMMA KnownWith ==
  /\ \A g \in 0 .. Pair!Inactive : Pair!NewTag(g) \in Known
  /\ \A k \in Known :
       /\ \A g \in 0 .. Pair!Inactive : [k EXCEPT !.age = g] \in Known
       /\ \A g \in 0 .. Pair!Inactive : [k EXCEPT !.pollReceived = TRUE, !.age = g] \in Known
       /\ [k EXCEPT !.pollAckSent = TRUE] \in Known
       /\ k.age \in 0 .. Pair!Inactive /\ DOMAIN k = {"age", "pollReceived", "pollAckSent"}
<1>1. PICK Ages, Switch : Ages = 0 .. Pair!Inactive /\ Switch = BOOLEAN
  OBVIOUS
<1>2. Known = [age : Ages, pollReceived : Switch, pollAckSent : Switch]
  BY <1>1 DEF Known
<1>3. TRUE \in Switch /\ FALSE \in Switch
  BY <1>1
<1>4. \A g \in Ages : Pair!NewTag(g) \in Known
  BY <1>2, <1>3, KnownIs DEF Pair!NewTag
<1> QED BY <1>1, <1>2, <1>3, <1>4, KnownIs

(* What a module has of another.                                           *)
DeviceFields == {"addr", "index", "silent", "age", "pollSent", "pollAckReceived", "range"}
DeviceAt(d, i) ==
  DOMAIN d = DeviceFields /\ d.addr \in Anchors /\ d = [d EXCEPT !.index = i - 1]
DevicesTyped(ds) ==
  IsSequence(ds) /\ Distinct(ds) /\ \A i \in 1 .. Len(ds) : DeviceAt(ds[i], i)

(* Who sends what.                                                         *)
OfTag == {"POLL", "RANGE", "BLINK"}
OfAnchor == {"POLL_ACK", "RANGE_REPORT", "RANGE_FAILED", "RANGING_INIT"}
FrameTyped(f) ==
  \/ f = NoFrame
  \/ f.type \in OfTag /\ f.from = Tag
  \/ f.type \in OfAnchor /\ f.from \in Anchors

(* The frames, and what the radios do with them.                           *)
FramesTyped ==
  /\ DOMAIN tx = Module /\ DOMAIN got = Module
  /\ \A n \in Module : FrameTyped(tx[n]) /\ FrameTyped(got[n])
  /\ tx[Tag] = NoFrame \/ tx[Tag].type \in OfTag
  /\ \A a \in Anchors : tx[a] = NoFrame \/ (tx[a].type \in OfAnchor /\ tx[a].from = a)
  /\ sent \in [Module -> Pair!MsgId \cup {"none"}]
  /\ sent[Tag] \notin OfAnchor

PairTypes ==
  /\ counter \in 0 .. BlinkPeriod - 1
  /\ DevicesTyped(devices)
  /\ known \in [Anchors -> Known \cup {Pair!NoTag}]
  /\ failed \in [Anchors -> BOOLEAN]
  /\ slot \in [Anchors -> 1 .. 2 * Cardinality(Anchors) - 1]
  /\ ranges \in [Anchors -> {"none", "right", "wrong"}]
  /\ expected \in [Module -> Pair!MsgId]
  /\ FramesTyped

(* A frame is in one transmitter, or is being handled.                     *)
OneAir ==
  \A n, o \in Module : got[o] # NoFrame /\ sent[n] # "none" => sent[n] = got[o].type

PollKind == {"POLL", "POLL_ACK", "RANGE", "RANGE_REPORT", "RANGE_FAILED"}
BlinkKind == {"BLINK", "RANGING_INIT"}

(* The same devices in the same places.                                    *)
SameDevices(ds, l) ==
  Len(ds) = Len(l) /\ \A i \in 1 .. Len(l) : ds[i].addr = l[i].addr

(* What an anchor has noted of an exchange, when its POLL_ACK is about to  *)
(* leave and when it has left.                                             *)
Heard(z) == known[z] = Pair!NoTag \/ known[z].pollReceived
Answered(z) ==
  \/ known[z] = Pair!NoTag
  \/ known[z].pollReceived /\ (known[z].pollAckSent \/ sent[z] = "POLL_ACK")

(* What a frame of an exchange says, the list of whose POLL was l.         *)
PollSays(l, f) == f.type = "POLL" => f.list = l
RangeSays(l, f) ==
  f.type = "RANGE" =>
    /\ Len(l) # 0 /\ SameDevices(f.list, l) /\ DOMAIN f.list = DOMAIN l
    /\ f.list[Len(l)].pollSent /\ f.list[Len(l)].pollAckReceived
    /\ Answered(l[Len(l)].addr)

(* The tag has noted when its POLL left, or it will.                       *)
Timed ==
  \/ tx[Tag] # NoFrame /\ tx[Tag].type = "POLL"
  \/ sent[Tag] = "POLL"
  \/ \A i \in 1 .. Len(devices) : devices[i].pollSent

(* An exchange whose POLL had the list l: nothing of a BLINK is in the air *)
(* until all is quiet again.                                               *)
Exchange(l) ==
  /\ Len(l) \in Nat /\ DOMAIN l = 1 .. Len(l) /\ Distinct(l) /\ Len(l) <= Cardinality(Anchors)
  /\ \A i \in 1 .. Len(l) : l[i].addr \in Anchors
  /\ \A n \in Module : tx[n] # NoFrame => /\ tx[n].type \in PollKind
                                          /\ PollSays(l, tx[n]) /\ RangeSays(l, tx[n])
  /\ \A n \in Module : got[n] # NoFrame => /\ got[n].type \in PollKind
                                           /\ PollSays(l, got[n]) /\ RangeSays(l, got[n])
  /\ \A a \in Anchors : tx[a] # NoFrame /\ tx[a].type = "POLL_ACK" =>
       Pair!Position(l, a) # 0 /\ tx[a].slot = 2 * Pair!Position(l, a) - 1 /\ Heard(a)
  /\ \A n \in Module : got[n] # NoFrame /\ got[n].type = "POLL_ACK" => Answered(got[n].from)
  /\ devices = <<>> \/ SameDevices(devices, l)
  /\ tx[Tag] # NoFrame /\ tx[Tag].type = "POLL" =>
       \A n \in Module : got[n] = NoFrame /\ (n # Tag => tx[n] = NoFrame)
  /\ Timed

(* A BLINK and its answers.                                                *)
Blinking ==
  \A n \in Module : /\ tx[n] = NoFrame \/ tx[n].type \in BlinkKind
                    /\ got[n] = NoFrame \/ got[n].type \in BlinkKind

PairInv == PairTypes /\ OneAir /\ (Blinking \/ \E l : Exchange(l))

(* The assumptions, and what follows from them at once.                    *)
LEMMA PairFacts ==
  /\ Tag \notin Anchors /\ IsFiniteSet(Anchors) /\ Cardinality(Anchors) \in Nat
  /\ BlinkPeriod \in Nat \ {0} /\ Inactivity \in Nat
  /\ Module = Anchors \cup {Tag} /\ Pair!Inactive \in Nat \ {0}
<1>1. Pair!Dw1000RangingAssumption
  BY PartAssumptions
<1>2. Tag \notin Anchors /\ IsFiniteSet(Anchors) /\ BlinkPeriod \in Nat \ {0} /\ Inactivity \in Nat
  BY <1>1, SamePairOperators DEF Pair!Dw1000RangingAssumption
<1> QED BY <1>2, FS_CardinalityType DEF Module, Pair!Module, Pair!Inactive

(* A field of a device is set.                                             *)
LEMMA FieldSet ==
  ASSUME NEW d, NEW i, DeviceAt(d, i), NEW x \in DeviceFields \ {"index", "addr"}, NEW v,
         NEW f, f = [d EXCEPT ![x] = v]
  PROVE  /\ DeviceAt(f, i) /\ f.addr = d.addr /\ f[x] = v
         /\ \A y \in DeviceFields \ {x} : f[y] = d[y]
<1>1. DOMAIN f = DeviceFields /\ f.addr = d.addr /\ f[x] = v
      /\ \A y \in DeviceFields \ {x} : f[y] = d[y]
  BY DEF DeviceAt, DeviceFields
<1>2. f = [f EXCEPT !.index = i - 1]
  BY DEF DeviceAt, DeviceFields
<1> QED BY <1>1, <1>2 DEF DeviceAt

(* All devices change, but not their addresses and places.                 *)
LEMMA DevicesMapped ==
  ASSUME NEW ds, DevicesTyped(ds), NEW new, new = [i \in DOMAIN ds |-> new[i]],
         \A i \in 1 .. Len(ds) : DeviceAt(new[i], i) /\ new[i].addr = ds[i].addr
  PROVE  DevicesTyped(new) /\ Len(new) = Len(ds) /\ DOMAIN new = DOMAIN ds
<1>1. PICK n \in Nat : n = Len(ds) /\ DOMAIN ds = 1 .. n
  BY SequenceIs DEF DevicesTyped
<1>2. new \in [1 .. n -> {new[i] : i \in DOMAIN new}] /\ DOMAIN new = 1 .. n
  BY <1>1
<1>3. IsSequence(new) /\ Len(new) = n
  BY <1>2, FunctionIsSeq DEF IsSequence
<1>4. Distinct(new)
  BY <1>1, <1>3 DEF Distinct, DevicesTyped
<1> QED BY <1>1, <1>2, <1>3, <1>4 DEF DevicesTyped

(* A tag has no more devices than there are anchors.                       *)
LEMMA DevicesFit ==
  ASSUME NEW ds, DevicesTyped(ds)
  PROVE  /\ Len(ds) \in Nat /\ DOMAIN ds = 1 .. Len(ds) /\ Len(ds) <= Cardinality(Anchors)
         /\ ds = <<>> <=> Len(ds) = 0
<1>1. Len(ds) \in Nat /\ DOMAIN ds = 1 .. Len(ds) /\ \A i \in 1 .. Len(ds) : ds[i].addr \in Anchors
  BY SequenceIs DEF DevicesTyped, DeviceAt
<1>2. Len(ds) <= Cardinality(Anchors)
  BY <1>1, PairFacts, DistinctFit DEF DevicesTyped
<1>3. ds = <<>> <=> Len(ds) = 0
  BY EmptySeq DEF DevicesTyped, IsSequence
<1> QED BY <1>1, <1>2, <1>3

(* The index of a device is that of its place.                             *)
LEMMA LastPlace ==
  ASSUME NEW ds, DevicesTyped(ds), NEW i \in 1 .. Len(ds), ds[i].index = Len(ds) - 1
  PROVE  i = Len(ds)
<1>1. Len(ds) \in Nat
  BY DevicesFit
<1>2. PICK d : d = ds[i]
  OBVIOUS
<1>3. DOMAIN d = DeviceFields /\ d = [d EXCEPT !.index = i - 1]
  BY <1>2 DEF DevicesTyped, DeviceAt
<1>4. d.index = i - 1
  BY <1>3 DEF DeviceFields
<1> QED BY <1>1, <1>2, <1>4

(* All devices grow older.                                                 *)
LEMMA DevicesAged ==
  ASSUME DevicesTyped(devices)
  PROVE  DevicesTyped(Pair!Age(devices))
<1>1. PICK new : new = Pair!Age(devices)
  OBVIOUS
<1>2. new = [i \in DOMAIN devices |->
        [devices[i] EXCEPT !.age = Pair!Older(devices[i].age),
                           !.silent = Pair!Older(devices[i].age) = Pair!Inactive]]
  BY <1>1 DEF Pair!Age
<1>3. ASSUME NEW i \in 1 .. Len(devices)
      PROVE  DeviceAt(new[i], i) /\ new[i].addr = devices[i].addr
  <2>1. PICK d, v, w, e : /\ d = devices[i] /\ v = Pair!Older(devices[i].age)
                          /\ w = (Pair!Older(devices[i].age) = Pair!Inactive)
                          /\ e = [d EXCEPT !.age = v]
    OBVIOUS
  <2>2. new[i] = [e EXCEPT !.silent = w]
    BY <1>2, <2>1, DevicesFit
  <2>3. DeviceAt(d, i)
    BY <2>1 DEF DevicesTyped
  <2>4. DeviceAt(e, i) /\ e.addr = d.addr
    BY <2>1, <2>3 DEF DeviceAt, DeviceFields
  <2>5. DeviceAt(new[i], i) /\ new[i].addr = e.addr
    BY <2>2, <2>4 DEF DeviceAt, DeviceFields
  <2> QED BY <2>1, <2>4, <2>5
<1>4. new = [i \in DOMAIN devices |-> new[i]]
  BY <1>2
<1> QED BY <1>1, <1>3, <1>4, DevicesMapped

(* checkForInactiveDevices, on the tag.                                    *)
LEMMA DevicesChecked ==
  ASSUME NEW ds, DevicesTyped(ds)
  PROVE  DevicesTyped(Pair!CheckInactive(ds))
<1>1. PICK n \in Nat : n = Len(ds)
  BY DevicesFit
<1>2. IsSequence(ds) /\ Placed(ds) /\ \A i \in 1 .. Len(ds) : "silent" \in DOMAIN ds[i]
  BY DEF DevicesTyped, DeviceAt, Placed, DeviceFields
<1>3. PICK new, place : new = Pair!CheckInactive(ds) /\ LeftOf(ds, new, place)
  BY <1>2, SamePairOperators, CheckLeaves DEF IsLeft
<1>4. PICK m \in Nat : m = Len(new)
  BY <1>3, SequenceIs DEF LeftOf
<1>5. ASSUME NEW k \in 1 .. m
      PROVE  /\ place[k] \in 1 .. n /\ DeviceAt(new[k], k)
             /\ new[k].addr = ds[place[k]].addr
  <2>1. PICK e : e = ds[place[k]]
    OBVIOUS
  <2>2. place[k] \in 1 .. n /\ new[k] = [e EXCEPT !.index = k - 1]
    BY <1>1, <1>3, <1>4, <2>1 DEF LeftOf
  <2>3. DeviceAt(e, place[k])
    BY <1>1, <2>1, <2>2 DEF DevicesTyped
  <2>4. DOMAIN new[k] = DeviceFields /\ new[k].addr = e.addr
    BY <2>2, <2>3 DEF DeviceAt, DeviceFields
  <2>5. new[k] = [new[k] EXCEPT !.index = k - 1]
    BY <2>2, <2>3, IndexSet DEF DeviceAt, DeviceFields
  <2> QED BY <2>1, <2>2, <2>3, <2>4, <2>5 DEF DeviceAt
<1>6. Distinct(new)
  <2> SUFFICES ASSUME NEW j \in 1 .. m, NEW k \in 1 .. m, new[j].addr = new[k].addr
               PROVE  j = k
    BY <1>4 DEF Distinct
  <2>1. place[j] \in 1 .. n /\ place[k] \in 1 .. n
        /\ ds[place[j]].addr = ds[place[k]].addr
    BY <1>5
  <2>2. place[j] = place[k]
    BY <1>1, <2>1 DEF DevicesTyped, Distinct
  <2> QED BY <1>3, <1>4, <2>1, <2>2 DEF LeftOf
<1> QED BY <1>3, <1>4, <1>5, <1>6 DEF DevicesTyped, LeftOf

(* addNetworkDevices: a device that is there is not added again.           *)
LEMMA DeviceAdded ==
  ASSUME DevicesTyped(devices), NEW a \in Anchors, NEW age,
         NEW new, new = Pair!AddDevice(devices, Pair!NewAnchor(a, age))
  PROVE  DevicesTyped(new)
<1>1. PICK n \in Nat : n = Len(devices) /\ DOMAIN devices = 1 .. n
  BY DevicesFit
<1>2. PICK d, e : d = Pair!NewAnchor(a, age) /\ e = [d EXCEPT !.index = n]
  OBVIOUS
<1>3. d.addr = a /\ DOMAIN d = DeviceFields
  BY <1>2 DEF Pair!NewAnchor, DeviceFields
<1>4. CASE Pair!Position(devices, a) # 0
  <2>1. new = devices
    BY <1>2, <1>3, <1>4 DEF Pair!AddDevice
  <2> QED BY <2>1
<1>5. CASE Pair!Position(devices, a) = 0
  <2>1. new = Append(devices, e)
    BY <1>1, <1>2, <1>3, <1>5 DEF Pair!AddDevice
  <2>2. \A i \in 1 .. n : devices[i].addr # a
    BY <1>1, <1>5, PositionIs
  <2>3. DeviceAt(e, n + 1) /\ e.addr = a
    <3>1. n + 1 - 1 = n /\ "index" \in DOMAIN d
      BY <1>3 DEF DeviceFields
    <3>2. DOMAIN e = DeviceFields /\ e.addr = a
      BY <1>2, <1>3 DEF DeviceFields
    <3>3. e = [e EXCEPT !.index = n + 1 - 1]
      BY <1>2, <3>1, IndexSet
    <3> QED BY <3>2, <3>3 DEF DeviceAt
  <2> DEFINE S == {devices[i] : i \in DOMAIN devices} \cup {e}
  <2>4. devices \in Seq(S)
    BY SeqMonotonic DEF DevicesTyped, IsSequence
  <2>5. /\ new \in Seq(S) /\ Len(new) = n + 1
        /\ \A i \in 1 .. n : new[i] = devices[i]
        /\ new[n + 1] = e
    <3>1. e \in S
      OBVIOUS
    <3> HIDE DEF S
    <3> QED BY <1>1, <2>1, <2>4, <3>1, AppendProperties
  <2>6. IsSequence(new)
    BY <2>5, SequenceOf
  <2>7. ASSUME NEW i \in 1 .. n + 1
        PROVE  i = n + 1 \/ i \in 1 .. n
    OBVIOUS
  <2>8. \A i \in 1 .. n + 1 : DeviceAt(new[i], i)
    BY <1>1, <2>3, <2>5, <2>7 DEF DevicesTyped
  <2>9. \A i, j \in 1 .. n + 1 : new[i].addr = new[j].addr => i = j
    BY <1>1, <2>2, <2>3, <2>5, <2>7 DEF DevicesTyped, Distinct
  <2> QED BY <2>5, <2>6, <2>8, <2>9 DEF DevicesTyped, Distinct
<1> QED BY <1>4, <1>5

(* Frames go, and none comes.                                              *)
LEMMA NoFramesTyped ==
  ASSUME FramesTyped,
         DOMAIN tx' = Module, DOMAIN got' = Module,
         \A n \in Module : tx'[n] \in {tx[n], NoFrame} /\ got'[n] \in {got[n], NoFrame},
         DOMAIN sent' = Module, \A n \in Module : sent'[n] \in {sent[n], "none"},
         sent' = [n \in Module |-> sent'[n]]
  PROVE  FramesTyped'
<1> USE PairFacts
<1>1. \A n \in Module : FrameTyped(tx'[n]) /\ FrameTyped(got'[n])
  BY DEF FramesTyped, FrameTyped
<1>2. tx'[Tag] = NoFrame \/ tx'[Tag].type \in OfTag
  BY DEF FramesTyped
<1>3. \A a \in Anchors : tx'[a] = NoFrame \/ (tx'[a].type \in OfAnchor /\ tx'[a].from = a)
  BY DEF FramesTyped
<1>4. sent' \in [Module -> Pair!MsgId \cup {"none"}] /\ sent'[Tag] \notin OfAnchor
  BY DEF FramesTyped, OfAnchor
<1> QED BY <1>1, <1>2, <1>3, <1>4 DEF FramesTyped, FrameTyped

(* A module transmits.                                                     *)
LEMMA TransmitTyped ==
  ASSUME FramesTyped, NEW m \in Module, NEW f, Pair!Transmit(m, f),
         IF m = Tag THEN f.type \in OfTag /\ f.from = Tag ELSE f.type \in OfAnchor /\ f.from = m,
         DOMAIN got' = Module, \A n \in Module : got'[n] \in {got[n], NoFrame}, sent' = sent
  PROVE  /\ FramesTyped' /\ tx'[m] = f /\ \A n \in Module \ {m} : tx'[n] = tx[n]
<1> USE PairFacts
<1>1. DOMAIN tx' = Module /\ tx'[m] = f /\ \A n \in Module \ {m} : tx'[n] = tx[n]
  BY DEF Pair!Transmit, FramesTyped
<1>2. FrameTyped(f)
  BY DEF FrameTyped
<1>3. \A n \in Module : FrameTyped(tx'[n]) /\ FrameTyped(got'[n])
  BY <1>1, <1>2 DEF FramesTyped, FrameTyped
<1>4. tx'[Tag] = NoFrame \/ tx'[Tag].type \in OfTag
  BY <1>1 DEF FramesTyped
<1>5. \A a \in Anchors : tx'[a] = NoFrame \/ (tx'[a].type \in OfAnchor /\ tx'[a].from = a)
  BY <1>1 DEF FramesTyped
<1> QED BY <1>1, <1>3, <1>4, <1>5 DEF FramesTyped, FrameTyped

(* A frame leaves.                                                         *)
LEMMA AirTyped ==
  ASSUME FramesTyped, NEW n \in Module, Pair!Air(n)
  PROVE  /\ FramesTyped'
         /\ tx'[n] = NoFrame /\ sent'[n] = tx[n].type
         /\ \A m \in Module \ {n} : tx'[m] = tx[m] /\ sent'[m] = "none"
         /\ \A m \in Module : got'[m] \in {tx[n], NoFrame}
         /\ \A m \in Module : sent[m] = "none" /\ got[m] = NoFrame
         /\ tx[n] # NoFrame
<1> USE PairFacts
<1>1. \A m \in Module : sent[m] = "none" /\ got[m] = NoFrame
  BY DEF Pair!Air, Pair!Handled, Module
<1>2. /\ tx[n] # NoFrame
      /\ sent' = [sent EXCEPT ![n] = tx[n].type] /\ tx' = [tx EXCEPT ![n] = NoFrame]
  BY DEF Pair!Air
<1>3. PICK hear : got' = [o \in Module |-> IF o \in hear THEN tx[n] ELSE NoFrame]
  <2>1. PICK able : able = {o \in Pair!Module \ {n} : tx[o] = NoFrame}
    OBVIOUS
  <2>2. \E hear \in IF calm THEN {able} ELSE SUBSET able :
          got' = [o \in Module |-> IF o \in hear THEN tx[n] ELSE NoFrame]
    BY <2>1 DEF Pair!Air, Module
  <2> QED BY <2>2
<1>4. /\ tx'[n] = NoFrame /\ \A m \in Module \ {n} : tx'[m] = tx[m]
      /\ DOMAIN tx' = Module
      /\ DOMAIN got' = Module /\ \A m \in Module : got'[m] \in {tx[n], NoFrame}
  BY <1>2, <1>3 DEF FramesTyped
<1>5. tx[n].type \in Pair!MsgId /\ (n = Tag => tx[n].type \notin OfAnchor)
  BY <1>2 DEF FramesTyped, FrameTyped, OfTag, OfAnchor, Pair!MsgId
<1>6. /\ sent'[n] = tx[n].type /\ \A m \in Module \ {n} : sent'[m] = "none"
      /\ sent' \in [Module -> Pair!MsgId \cup {"none"}] /\ sent'[Tag] \notin OfAnchor
  BY <1>1, <1>2, <1>5 DEF FramesTyped, OfAnchor
<1>7. \A m \in Module : FrameTyped(tx'[m]) /\ FrameTyped(got'[m])
  <2>1. FrameTyped(NoFrame) /\ FrameTyped(tx[n]) /\ \A m \in Module : FrameTyped(tx[m])
    BY DEF FrameTyped, FramesTyped
  <2> QED BY <1>4, <2>1
<1>8. tx'[Tag] = NoFrame \/ tx'[Tag].type \in OfTag
  BY <1>4 DEF FramesTyped
<1>9. \A a \in Anchors : tx'[a] = NoFrame \/ (tx'[a].type \in OfAnchor /\ tx'[a].from = a)
  BY <1>4 DEF FramesTyped
<1>10. FramesTyped'
  BY <1>4, <1>6, <1>7, <1>8, <1>9 DEF FramesTyped, FrameTyped
<1> QED BY <1>1, <1>2, <1>4, <1>6, <1>10

LEMMA OlderIs == \A g \in 0 .. Pair!Inactive : Pair!Older(g) \in 0 .. Pair!Inactive
  BY PairFacts DEF Pair!Older

(* A POLL is sent to all devices of the table.                             *)
LEMMA TickPollTypes ==
  ASSUME PairTypes, Pair!TickPoll
  PROVE  /\ PairTypes' /\ tx'[Tag] = Pair!Frame("POLL", Tag, 0, Pair!Addresses(devices))
         /\ \A n \in Module \ {Tag} : tx'[n] = NoFrame
         /\ \A n \in Module : got'[n] = NoFrame /\ sent'[n] = "none"
         /\ Len(devices') = Len(devices)
         /\ \A i \in 1 .. Len(devices) : devices'[i].addr = devices[i].addr
<1> USE PairFacts
<1>1. /\ \A n \in Module : sent[n] = "none" /\ got[n] = NoFrame /\ tx[n] = NoFrame
      /\ sent' = sent /\ got' = got
  BY DEF Pair!TickPoll, Pair!Quiet, Pair!Handled, Module
<1>2. PICK f : /\ f = Pair!Frame("POLL", Tag, 0, Pair!Addresses(devices))
               /\ Pair!Transmit(Tag, f)
  BY DEF Pair!TickPoll
<1>3. f.type = "POLL" /\ f.from = Tag
  BY <1>2 DEF Pair!Frame
<1>4. FramesTyped' /\ tx'[Tag] = f /\ \A n \in Module \ {Tag} : tx'[n] = tx[n]
  BY <1>1, <1>2, <1>3, TransmitTyped DEF PairTypes, FramesTyped, OfTag
<1>5. DevicesTyped(devices') /\ Len(devices') = Len(devices)
      /\ \A i \in 1 .. Len(devices) : devices'[i].addr = devices[i].addr
  <2>1. devices' = [i \in DOMAIN devices |->
          [devices[i] EXCEPT !.age = Pair!Older(devices[i].age),
                             !.silent = Pair!Older(devices[i].age) = Pair!Inactive,
                             !.pollSent = FALSE, !.pollAckReceived = FALSE, !.range = "none"]]
    BY DEF Pair!TickPoll, Pair!NewExchange
  <2>2. PICK new : new = devices'
    OBVIOUS
  <2>3. ASSUME NEW i \in 1 .. Len(devices)
        PROVE  DeviceAt(new[i], i) /\ new[i].addr = devices[i].addr
    <3>1. PICK d, v, w, e, g, h : /\ d = devices[i] /\ v = Pair!Older(devices[i].age)
                            /\ w = (Pair!Older(devices[i].age) = Pair!Inactive)
                            /\ e = [d EXCEPT !.age = v, !.silent = w]
                            /\ g = [e EXCEPT !.pollSent = FALSE]
                            /\ h = [g EXCEPT !.pollAckReceived = FALSE]
      OBVIOUS
    <3>2. new[i] = [h EXCEPT !.range = "none"]
      BY <2>1, <2>2, <3>1, DevicesFit DEF PairTypes
    <3>3. DeviceAt(d, i)
      BY <3>1 DEF PairTypes, DevicesTyped
    <3>4. DeviceAt(e, i) /\ e.addr = d.addr
      BY <3>1, <3>3 DEF DeviceAt, DeviceFields
    <3>5. DeviceAt(g, i) /\ g.addr = d.addr
      BY <3>1, <3>4 DEF DeviceAt, DeviceFields
    <3>6. DeviceAt(h, i) /\ h.addr = d.addr
      BY <3>1, <3>5 DEF DeviceAt, DeviceFields
    <3>7. PICK r : r = [h EXCEPT !.range = "none"]
      OBVIOUS
    <3>8. DeviceAt(r, i) /\ r.addr = d.addr
      BY <3>6, <3>7 DEF DeviceAt, DeviceFields
    <3> QED BY <3>1, <3>2, <3>7, <3>8
  <2>4. new = [i \in DOMAIN devices |-> new[i]]
    BY <2>1, <2>2
  <2> QED BY <2>2, <2>3, <2>4, DevicesMapped DEF PairTypes
<1>6. known' \in [Anchors -> Known \cup {Pair!NoTag}]
  <2>1. known' = [a \in Anchors |->
          IF known[a] = Pair!NoTag THEN Pair!NoTag ELSE Pair!NewTag(Pair!Older(known[a].age))]
    BY DEF Pair!TickPoll, Pair!NewExchange
  <2>2. \A a \in Anchors : known[a] # Pair!NoTag => Pair!NewTag(Pair!Older(known[a].age)) \in Known
    BY KnownWith, OlderIs DEF PairTypes
  <2> QED BY <2>1, <2>2
<1>7. ranges' = [a \in Anchors |-> "none"] /\ counter' = (counter + 1) % BlinkPeriod
      /\ expected' = [expected EXCEPT ![Tag] = "POLL_ACK"] /\ UNCHANGED <<failed, slot>>
  BY DEF Pair!TickPoll, Pair!NewExchange
<1>8. counter' \in 0 .. BlinkPeriod - 1
  BY <1>7 DEF PairTypes
<1>9. expected' \in [Module -> Pair!MsgId]
  BY <1>7 DEF PairTypes, Pair!MsgId
<1>10. ranges' \in [Anchors -> {"none", "right", "wrong"}]
  BY <1>7
<1> QED BY <1>1, <1>2, <1>4, <1>5, <1>6, <1>7, <1>8, <1>9, <1>10 DEF PairTypes

(* Quiet, and no frame in the air afterwards but a BLINK.                  *)
LEMMA TickElseTypes ==
  ASSUME PairTypes, Pair!TickBlink \/ Pair!TickIdle
  PROVE  PairTypes' /\ Blinking' /\ \A n \in Module : sent'[n] = "none"
<1> USE PairFacts
<1>1. /\ \A n \in Module : sent[n] = "none" /\ got[n] = NoFrame /\ tx[n] = NoFrame
      /\ sent' = sent /\ got' = got /\ counter' = (counter + 1) % BlinkPeriod
      /\ UNCHANGED <<failed, slot, ranges, expected>>
      /\ known' = [a \in Anchors |-> IF known[a] = Pair!NoTag THEN Pair!NoTag
                                    ELSE [known[a] EXCEPT !.age = Pair!Older(known[a].age)]]
  BY DEF Pair!TickBlink, Pair!TickIdle, Pair!Quiet, Pair!Handled, Module, Pair!AgeTag
<1>2. known' \in [Anchors -> Known \cup {Pair!NoTag}]
  <2>1. \A a \in Anchors : known[a] # Pair!NoTag =>
          [known[a] EXCEPT !.age = Pair!Older(known[a].age)] \in Known
    BY KnownWith, OlderIs DEF PairTypes
  <2> QED BY <1>1, <2>1
<1>3. counter' \in 0 .. BlinkPeriod - 1
  BY <1>1 DEF PairTypes
<1>4. DevicesTyped(devices') /\ FramesTyped' /\ Blinking'
  <2>1. CASE Pair!TickIdle
    <3>1. devices' = devices /\ tx' = tx
      BY <2>1 DEF Pair!TickIdle
    <3>2. FramesTyped'
      BY <1>1, <3>1 DEF PairTypes, FramesTyped, FrameTyped
    <3> QED BY <1>1, <3>1, <3>2 DEF PairTypes, Blinking
  <2>2. CASE Pair!TickBlink
    <3>1. PICK f : f = Pair!Frame("BLINK", Tag, 0, <<>>) /\ Pair!Transmit(Tag, f)
      BY <2>2 DEF Pair!TickBlink
    <3>2. f.type = "BLINK" /\ f.from = Tag
      BY <3>1 DEF Pair!Frame
    <3>3. FramesTyped' /\ tx'[Tag] = f /\ \A n \in Module \ {Tag} : tx'[n] = tx[n]
      BY <1>1, <3>1, <3>2, TransmitTyped DEF PairTypes, FramesTyped, OfTag
    <3>4. DevicesTyped(devices')
      BY <2>2, DevicesAged, DevicesChecked DEF PairTypes, Pair!TickBlink
    <3>5. Blinking'
      BY <1>1, <3>2, <3>3 DEF Blinking, BlinkKind
    <3> QED BY <3>3, <3>4, <3>5
  <2> QED BY <2>1, <2>2
<1> QED BY <1>1, <1>2, <1>3, <1>4 DEF PairTypes

(* What a module answers in an exchange.                                   *)
Answers(l, n) ==
  /\ tx'[n].type \in PollKind \ {"POLL"} /\ RangeSays(l, tx[n])'
  /\ tx'[n].type = "POLL_ACK" =>
       Pair!Position(l, n) # 0 /\ tx'[n].slot = 2 * Pair!Position(l, n) - 1 /\ Heard(n)'
  /\ \E o \in Module : got[o] # NoFrame

(* An exchange goes on while frames go and modules answer them.            *)
LEMMA ExchangeGoesOn ==
  ASSUME NEW l, Exchange(l), PairTypes, PairTypes', Timed',
         \A n \in Module : got'[n] \in {got[n], NoFrame},
         \A n \in Module : tx'[n] \in {tx[n], NoFrame} \/ Answers(l, n),
         \A z \in Anchors : (Heard(z) => Heard(z)') /\ (Answered(z) => Answered(z)'),
         devices' = <<>> \/ (devices # <<>> /\ SameDevices(devices', devices))
  PROVE  Exchange(l)'
<1> USE PairFacts
<1>1. \A f : RangeSays(l, f) => RangeSays(l, f)'
  <2> SUFFICES ASSUME NEW f, RangeSays(l, f), f.type = "RANGE"
               PROVE  RangeSays(l, f)'
    BY DEF RangeSays
  <2>1. Len(l) # 0 /\ l[Len(l)].addr \in Anchors
    BY DEF RangeSays, Exchange
  <2> QED BY <2>1 DEF RangeSays, SameDevices
<1>2. \A n \in Module : tx'[n] # NoFrame => /\ tx'[n].type \in PollKind
                                            /\ PollSays(l, tx[n])' /\ RangeSays(l, tx[n])'
  <2> SUFFICES ASSUME NEW n \in Module, tx'[n] # NoFrame
               PROVE  tx'[n].type \in PollKind /\ PollSays(l, tx[n])' /\ RangeSays(l, tx[n])'
    OBVIOUS
  <2>1. CASE Answers(l, n)
    BY <2>1 DEF Answers, PollSays
  <2>2. CASE tx'[n] = tx[n]
    <3>1. tx[n].type \in PollKind /\ PollSays(l, tx[n]) /\ RangeSays(l, tx[n])
      BY <2>2 DEF Exchange
    <3>2. PICK f : f = tx[n]
      OBVIOUS
    <3>3. RangeSays(l, f)'
      BY <1>1, <3>1, <3>2
    <3> QED BY <2>2, <3>1, <3>2, <3>3 DEF PollSays, RangeSays
  <2> QED BY <2>1, <2>2
<1>3. \A n \in Module : got'[n] # NoFrame => /\ got'[n].type \in PollKind
                                            /\ PollSays(l, got[n])' /\ RangeSays(l, got[n])'
  <2> SUFFICES ASSUME NEW n \in Module, got'[n] # NoFrame
               PROVE  got'[n].type \in PollKind /\ PollSays(l, got[n])' /\ RangeSays(l, got[n])'
    OBVIOUS
  <2>1. got'[n] = got[n]
    OBVIOUS
  <2>2. got[n].type \in PollKind /\ PollSays(l, got[n]) /\ RangeSays(l, got[n])
    BY <2>1 DEF Exchange
  <2>3. PICK f : f = got[n]
    OBVIOUS
  <2>4. RangeSays(l, f)'
    BY <1>1, <2>2, <2>3
  <2> QED BY <2>1, <2>2, <2>3, <2>4 DEF PollSays, RangeSays
<1>4. \A a \in Anchors : tx'[a] # NoFrame /\ tx'[a].type = "POLL_ACK" =>
        Pair!Position(l, a) # 0 /\ tx'[a].slot = 2 * Pair!Position(l, a) - 1 /\ Heard(a)'
  <2> SUFFICES ASSUME NEW a \in Anchors, tx'[a] # NoFrame, tx'[a].type = "POLL_ACK"
               PROVE  Pair!Position(l, a) # 0 /\ tx'[a].slot = 2 * Pair!Position(l, a) - 1 /\ Heard(a)'
    OBVIOUS
  <2>1. CASE Answers(l, a)
    BY <2>1 DEF Answers
  <2>2. CASE tx'[a] = tx[a]
    BY <2>2 DEF Exchange
  <2> QED BY <2>1, <2>2
<1>5. \A n \in Module : got'[n] # NoFrame /\ got'[n].type = "POLL_ACK" => Answered(got[n].from)'
  <2> SUFFICES ASSUME NEW n \in Module, got'[n] # NoFrame, got'[n].type = "POLL_ACK"
               PROVE  Answered(got[n].from)'
    OBVIOUS
  <2>1. got'[n] = got[n]
    OBVIOUS
  <2>2. PICK z : z = got[n].from
    OBVIOUS
  <2>3. z \in Anchors /\ Answered(z)
    BY <2>1, <2>2 DEF Exchange, PairTypes, FramesTyped, FrameTyped, OfTag
  <2> QED BY <2>1, <2>2, <2>3 DEF Answered
<1>6. devices' = <<>> \/ SameDevices(devices', l)
  BY DEF Exchange, SameDevices
<1>7. tx'[Tag] # NoFrame /\ tx'[Tag].type = "POLL" =>
        \A n \in Module : got'[n] = NoFrame /\ (n # Tag => tx'[n] = NoFrame)
  <2> SUFFICES ASSUME tx'[Tag] # NoFrame, tx'[Tag].type = "POLL", NEW n \in Module
               PROVE  got'[n] = NoFrame /\ (n # Tag => tx'[n] = NoFrame)
    OBVIOUS
  <2>1. tx'[Tag] = tx[Tag]
    BY DEF Answers
  <2>2. \A m \in Module : got[m] = NoFrame /\ (m # Tag => tx[m] = NoFrame)
    BY <2>1 DEF Exchange
  <2> QED BY <2>2 DEF Answers
<1> QED BY <1>2, <1>3, <1>4, <1>5, <1>6, <1>7 DEF Exchange

(* So does a BLINK with its answers.                                       *)
LEMMA BlinkingGoesOn ==
  ASSUME Blinking,
         \A n \in Module : got'[n] \in {got[n], NoFrame},
         \A n \in Module : tx'[n] \in {tx[n], NoFrame} \/ tx'[n].type \in BlinkKind
  PROVE  Blinking'
  BY DEF Blinking

(* A frame stays in one transmitter or is being handled.                   *)
LEMMA OneAirGoesOn ==
  ASSUME OneAir,
         \A n \in Module : got'[n] \in {got[n], NoFrame},
         \A n \in Module : sent'[n] \in {sent[n], "none"}
  PROVE  OneAir'
  BY DEF OneAir

(* A frame leaves, and whoever hears it has it.                            *)
LEMMA AirKeeps ==
  ASSUME PairInv, NEW n \in Module, Pair!Air(n)
  PROVE  PairInv'
<1> USE PairFacts
<1>1. /\ FramesTyped'
      /\ tx'[n] = NoFrame /\ sent'[n] = tx[n].type
      /\ \A m \in Module \ {n} : tx'[m] = tx[m] /\ sent'[m] = "none"
      /\ \A m \in Module : got'[m] \in {tx[n], NoFrame}
      /\ \A m \in Module : sent[m] = "none" /\ got[m] = NoFrame
      /\ tx[n] # NoFrame
  BY AirTyped DEF PairInv, PairTypes
<1>2. UNCHANGED <<devices, counter, known, failed, slot, ranges, expected>>
  BY DEF Pair!Air, Pair!tagVars, Pair!anchorVars
<1>3. PairTypes'
  BY <1>1, <1>2 DEF PairInv, PairTypes
<1>4. OneAir'
  BY <1>1 DEF OneAir
<1>5. CASE Blinking
  BY <1>1, <1>5, <1>3, <1>4 DEF Blinking, PairInv
<1>6. ASSUME NEW l, Exchange(l)
      PROVE  Exchange(l)'
  <2>1. \A z \in Anchors : (Heard(z) => Heard(z)') /\ (Answered(z) => Answered(z)')
    BY <1>1, <1>2 DEF Heard, Answered
  <2>2. \A f : RangeSays(l, f) => RangeSays(l, f)'
    <3> SUFFICES ASSUME NEW f, RangeSays(l, f), f.type = "RANGE"
                 PROVE  RangeSays(l, f)'
      BY DEF RangeSays
    <3>1. Len(l) # 0 /\ l[Len(l)].addr \in Anchors
      BY <1>6 DEF RangeSays, Exchange
    <3> QED BY <2>1, <3>1 DEF RangeSays, SameDevices
  <2>3. \A m \in Module : tx'[m] # NoFrame => /\ tx'[m].type \in PollKind
                                              /\ PollSays(l, tx[m])' /\ RangeSays(l, tx[m])'
    <3> SUFFICES ASSUME NEW m \in Module, tx'[m] # NoFrame
                 PROVE  tx'[m].type \in PollKind /\ PollSays(l, tx[m])' /\ RangeSays(l, tx[m])'
      OBVIOUS
    <3>1. PICK f : f = tx[m] /\ tx'[m] = f
      BY <1>1
    <3>2. f.type \in PollKind /\ PollSays(l, f) /\ RangeSays(l, f)
      BY <1>6, <3>1 DEF Exchange
    <3>3. RangeSays(l, f)'
      BY <2>2, <3>2
    <3> QED BY <3>1, <3>2, <3>3 DEF PollSays, RangeSays
  <2>4. \A m \in Module : got'[m] # NoFrame => /\ got'[m].type \in PollKind
                                              /\ PollSays(l, got[m])' /\ RangeSays(l, got[m])'
    <3> SUFFICES ASSUME NEW m \in Module, got'[m] # NoFrame
                 PROVE  got'[m].type \in PollKind /\ PollSays(l, got[m])' /\ RangeSays(l, got[m])'
      OBVIOUS
    <3>1. PICK f : f = tx[n] /\ got'[m] = f
      BY <1>1
    <3>2. f.type \in PollKind /\ PollSays(l, f) /\ RangeSays(l, f)
      BY <1>1, <1>6, <3>1 DEF Exchange
    <3>3. RangeSays(l, f)'
      BY <2>2, <3>2
    <3> QED BY <3>1, <3>2, <3>3 DEF PollSays, RangeSays
  <2>5. \A a \in Anchors : tx'[a] # NoFrame /\ tx'[a].type = "POLL_ACK" =>
          Pair!Position(l, a) # 0 /\ tx'[a].slot = 2 * Pair!Position(l, a) - 1 /\ Heard(a)'
    <3> SUFFICES ASSUME NEW a \in Anchors, tx'[a] # NoFrame, tx'[a].type = "POLL_ACK"
                 PROVE  Pair!Position(l, a) # 0 /\ tx'[a].slot = 2 * Pair!Position(l, a) - 1 /\ Heard(a)'
      OBVIOUS
    <3>1. tx'[a] = tx[a]
      BY <1>1
    <3> QED BY <1>6, <2>1, <3>1 DEF Exchange
  <2>6. \A m \in Module : got'[m] # NoFrame /\ got'[m].type = "POLL_ACK" => Answered(got[m].from)'
    <3> SUFFICES ASSUME NEW m \in Module, got'[m] # NoFrame, got'[m].type = "POLL_ACK"
                 PROVE  Answered(got[m].from)'
      OBVIOUS
    <3>1. got'[m] = tx[n] /\ tx[n].type = "POLL_ACK"
      BY <1>1
    <3>2. n \in Anchors /\ tx[n].from = n
      BY <1>1, <3>1 DEF PairInv, PairTypes, FramesTyped, OfTag
    <3>3. Heard(n)
      BY <1>1, <1>6, <3>1, <3>2 DEF Exchange
    <3>4. Answered(n)'
      BY <1>1, <1>2, <3>1, <3>3 DEF Heard, Answered
    <3> QED BY <3>1, <3>2, <3>4 DEF Answered
  <2>7. ~(tx'[Tag] # NoFrame /\ tx'[Tag].type = "POLL")
    <3> SUFFICES ASSUME tx'[Tag] # NoFrame, tx'[Tag].type = "POLL"
                 PROVE  FALSE
      OBVIOUS
    <3>1. n # Tag /\ tx'[Tag] = tx[Tag]
      BY <1>1
    <3> QED BY <1>1, <1>6, <3>1 DEF Exchange
  <2>8. Timed'
    <3>1. CASE tx[Tag] # NoFrame /\ tx[Tag].type = "POLL"
      <4>1. n = Tag
        BY <1>1, <2>7, <3>1
      <4> QED BY <1>1, <3>1, <4>1 DEF Timed
    <3>2. CASE sent[Tag] = "POLL"
      BY <1>1, <3>2
    <3>3. CASE \A i \in 1 .. Len(devices) : devices[i].pollSent
      BY <1>2, <3>3 DEF Timed
    <3> QED BY <1>6, <3>1, <3>2, <3>3 DEF Exchange, Timed
  <2> QED BY <1>2, <1>6, <2>3, <2>4, <2>5, <2>6, <2>7, <2>8 DEF Exchange
<1> QED BY <1>3, <1>4, <1>5, <1>6 DEF PairInv

(* The timer of the tag.                                                   *)
LEMMA TickKeeps ==
  ASSUME PairInv, Pair!Tick
  PROVE  PairInv'
<1> USE PairFacts
<1>1. PairTypes
  BY DEF PairInv
<1>2. CASE Pair!TickBlink \/ Pair!TickIdle
  BY <1>1, <1>2, TickElseTypes DEF PairInv, OneAir
<1>3. CASE Pair!TickPoll
  <2>1. /\ PairTypes' /\ tx'[Tag] = Pair!Frame("POLL", Tag, 0, Pair!Addresses(devices))
        /\ \A n \in Module \ {Tag} : tx'[n] = NoFrame
        /\ \A n \in Module : got'[n] = NoFrame /\ sent'[n] = "none"
        /\ Len(devices') = Len(devices)
        /\ \A i \in 1 .. Len(devices) : devices'[i].addr = devices[i].addr
    BY <1>1, <1>3, TickPollTypes
  <2>2. PICK l, f : l = Pair!Addresses(devices) /\ f = Pair!Frame("POLL", Tag, 0, l)
    OBVIOUS
  <2>3. tx'[Tag] = f /\ f.type = "POLL" /\ f.list = l
    BY <2>1, <2>2 DEF Pair!Frame
  <2>4. PICK n \in Nat : /\ n = Len(devices) /\ DOMAIN devices = 1 .. n
                         /\ n <= Cardinality(Anchors)
    BY <1>1, DevicesFit DEF PairTypes
  <2>5. l = [i \in 1 .. n |-> [addr |-> devices[i].addr]]
    BY <2>2, <2>4 DEF Pair!Addresses
  <2>6. Len(l) = n /\ DOMAIN l = 1 .. n /\ \A i \in 1 .. n : l[i].addr = devices[i].addr
    <3>1. l \in [1 .. n -> {l[i] : i \in 1 .. n}]
      BY <2>5
    <3>2. Len(l) = n
      BY <3>1, FunctionIsSeq
    <3> QED BY <2>5, <3>2
  <2>7. /\ Len(l) \in Nat /\ DOMAIN l = 1 .. Len(l) /\ Distinct(l) /\ Len(l) <= Cardinality(Anchors)
        /\ \A i \in 1 .. Len(l) : l[i].addr \in Anchors
    BY <1>1, <2>4, <2>6 DEF Distinct, PairTypes, DevicesTyped, DeviceAt
  <2>8. SameDevices(devices', l)
    BY <2>1, <2>4, <2>6 DEF SameDevices
  <2>9. ASSUME f # NoFrame
        PROVE  Exchange(l)'
    <3>1. \A m \in Module : tx'[m] # NoFrame => m = Tag /\ tx'[m] = f
      BY <2>1, <2>3
    <3>2. f.type = "POLL" /\ f.list = l
      BY <2>3
    <3>3. \A m \in Module : tx'[m] # NoFrame => /\ tx'[m].type \in PollKind
                                                /\ PollSays(l, tx[m])' /\ RangeSays(l, tx[m])'
      BY <3>1, <3>2 DEF PollSays, RangeSays, PollKind
    <3>4. \A m \in Module : got'[m] = NoFrame
      BY <2>1
    <3>5. \A a \in Anchors : tx'[a] = NoFrame
      BY <2>1
    <3>6. Timed'
      BY <2>3, <2>9, <3>2 DEF Timed
    <3> QED BY <2>7, <2>8, <3>1, <3>3, <3>4, <3>5, <3>6 DEF Exchange
  <2>10. CASE f = NoFrame
    BY <2>1, <2>3, <2>10 DEF Blinking, PairInv, OneAir
  <2> QED BY <2>1, <2>9, <2>10 DEF PairInv, OneAir
<1> QED BY <1>2, <1>3 DEF Pair!Tick

(* A step in which frames go and modules answer them.                      *)
LEMMA PairGoesOn ==
  ASSUME PairInv, PairTypes',
         \A n \in Module : got'[n] \in {got[n], NoFrame} /\ sent'[n] \in {sent[n], "none"},
         Blinking => \A n \in Module : tx'[n] \in {tx[n], NoFrame} \/ tx'[n].type \in BlinkKind,
         \A l : Exchange(l) =>
           /\ Timed'
           /\ \A n \in Module : tx'[n] \in {tx[n], NoFrame} \/ Answers(l, n)
           /\ \A z \in Anchors : (Heard(z) => Heard(z)') /\ (Answered(z) => Answered(z)')
           /\ devices' = <<>> \/ (devices # <<>> /\ SameDevices(devices', devices))
  PROVE  PairInv'
<1>1. OneAir'
  BY OneAirGoesOn DEF PairInv
<1>2. CASE Blinking
  BY <1>1, <1>2, BlinkingGoesOn DEF PairInv
<1>3. ASSUME NEW l, Exchange(l)
      PROVE  Exchange(l)'
  BY <1>3, ExchangeGoesOn DEF PairInv
<1> QED BY <1>1, <1>2, <1>3 DEF PairInv

(* Frames are handled, or lost, and none is sent.                          *)
LEMMA FramesGo ==
  ASSUME PairTypes,
         DOMAIN tx' = Module, DOMAIN got' = Module, DOMAIN sent' = Module,
         \A n \in Module : /\ tx'[n] \in {tx[n], NoFrame}
                           /\ got'[n] \in {got[n], NoFrame}
                           /\ sent'[n] \in {sent[n], "none"},
         sent' = [n \in Module |-> sent'[n]]
  PROVE  FramesTyped'
  BY NoFramesTyped DEF PairTypes

(* The tag notes when its POLL left.                                       *)
LEMMA TagSentKeeps ==
  ASSUME PairInv, Pair!TagSent
  PROVE  PairInv'
<1> USE PairFacts
<1>1. /\ sent' = [sent EXCEPT ![Tag] = "none"]
      /\ devices' = IF sent[Tag] = "POLL"
                    THEN [i \in DOMAIN devices |-> [devices[i] EXCEPT !.pollSent = TRUE]]
                    ELSE devices
      /\ UNCHANGED <<counter, known, failed, slot, ranges, expected, tx, got, calm>>
  BY DEF Pair!TagSent, Pair!anchorVars
<1>2. PairTypes
  BY DEF PairInv
<1>3. FramesTyped'
  BY <1>1, <1>2, FramesGo DEF PairTypes, FramesTyped
<1>4. /\ DevicesTyped(devices')
      /\ devices' = devices \/ (/\ Len(devices') = Len(devices)
                                /\ \A i \in 1 .. Len(devices) :
                                     devices'[i].pollSent /\ devices'[i].addr = devices[i].addr)
  <2>1. CASE sent[Tag] # "POLL"
    BY <1>1, <1>2, <2>1 DEF PairTypes
  <2>2. CASE sent[Tag] = "POLL"
    <3>1. PICK new : new = devices' /\ new = [i \in DOMAIN devices |-> [devices[i] EXCEPT !.pollSent = TRUE]]
      BY <1>1, <2>2
    <3>2. ASSUME NEW i \in 1 .. Len(devices)
          PROVE  DeviceAt(new[i], i) /\ new[i].addr = devices[i].addr /\ new[i].pollSent
      <4>1. PICK d, v : d = devices[i] /\ v = TRUE
        OBVIOUS
      <4>2. DeviceAt(d, i)
        BY <1>2, <4>1 DEF PairTypes, DevicesTyped
      <4>3. new[i] = [d EXCEPT !.pollSent = v]
        BY <1>2, <3>1, <4>1, DevicesFit DEF PairTypes
      <4>4. DeviceAt(new[i], i) /\ new[i].addr = d.addr /\ new[i].pollSent = v
        BY <4>2, <4>3 DEF DeviceAt, DeviceFields
      <4> QED BY <4>1, <4>4
    <3>3. new = [i \in DOMAIN devices |-> new[i]]
      BY <3>1
    <3>4. DevicesTyped(new) /\ Len(new) = Len(devices)
      BY <1>2, <3>2, <3>3, DevicesMapped DEF PairTypes
    <3> QED BY <3>1, <3>2, <3>4
  <2> QED BY <2>1, <2>2
<1>5. PairTypes'
  BY <1>1, <1>2, <1>3, <1>4 DEF PairTypes
<1>6. ASSUME NEW l, Exchange(l)
      PROVE  /\ Timed'
             /\ \A z \in Anchors : (Heard(z) => Heard(z)') /\ (Answered(z) => Answered(z)')
             /\ devices' = <<>> \/ (devices # <<>> /\ SameDevices(devices', devices))
  <2>1. \A z \in Anchors : (Heard(z) => Heard(z)') /\ (Answered(z) => Answered(z)')
    BY <1>1, <1>2 DEF Heard, Answered, PairTypes, FramesTyped
  <2>2. Timed'
    <3>1. CASE sent[Tag] = "POLL"
      <4>1. \A i \in 1 .. Len(devices') : devices'[i].pollSent
        <5>1. PICK new : new = devices' /\ new = [i \in DOMAIN devices |-> [devices[i] EXCEPT !.pollSent = TRUE]]
          BY <1>1, <3>1
        <5>2. DOMAIN new = DOMAIN devices /\ DOMAIN new = 1 .. Len(new)
          BY <1>4, <5>1, DevicesFit
        <5>3. ASSUME NEW i \in 1 .. Len(new)
              PROVE  new[i].pollSent
          <6>1. PICK d : d = devices[i]
            OBVIOUS
          <6>2. new[i] = [d EXCEPT !.pollSent = TRUE] /\ i \in 1 .. Len(devices)
            BY <1>2, <5>1, <5>2, <6>1, DevicesFit DEF PairTypes
          <6>3. "pollSent" \in DOMAIN d
            BY <1>2, <6>1, <6>2 DEF PairTypes, DevicesTyped, DeviceAt, DeviceFields
          <6> QED BY <6>2, <6>3
        <5> QED BY <5>1, <5>3
      <4> QED BY <4>1 DEF Timed
    <3>2. CASE sent[Tag] # "POLL"
      BY <1>1, <1>6, <3>2 DEF Timed, Exchange
    <3> QED BY <3>1, <3>2
  <2>3. devices' = <<>> \/ (devices # <<>> /\ SameDevices(devices', devices))
    <3>1. devices = <<>> <=> Len(devices) = 0
      BY <1>2, DevicesFit DEF PairTypes
    <3>2. devices' = <<>> <=> Len(devices') = 0
      BY <1>4, DevicesFit
    <3> QED BY <1>2, <1>4, <3>1, <3>2, DevicesFit DEF SameDevices, PairTypes
  <2> QED BY <2>1, <2>2, <2>3
<1>7. \A n \in Module : got'[n] \in {got[n], NoFrame} /\ sent'[n] \in {sent[n], "none"}
                        /\ tx'[n] \in {tx[n], NoFrame}
  BY <1>1, <1>2 DEF PairTypes, FramesTyped
<1> QED BY <1>5, <1>6, <1>7, PairGoesOn

(* What is known of a tag is not nothing.                                  *)
LEMMA KnownStands == \A k \in Known : k # Pair!NoTag
<1> SUFFICES ASSUME NEW k \in Known
             PROVE  k # Pair!NoTag
  OBVIOUS
<1>1. "pollReceived" \in DOMAIN k
  BY KnownWith
<1>2. "pollReceived" \notin DOMAIN Pair!NoTag
  BY DEF Pair!NoTag
<1> QED BY <1>1, <1>2

(* The anchor notes when its POLL_ACK left.                                *)
LEMMA AnchorSentKeeps ==
  ASSUME PairInv, NEW a \in Anchors, Pair!AnchorSent(a)
  PROVE  PairInv'
<1> USE PairFacts
<1>1. /\ sent' = [sent EXCEPT ![a] = "none"]
      /\ known' = IF sent[a] = "POLL_ACK" /\ known[a] # Pair!NoTag
                  THEN [known EXCEPT ![a].pollAckSent = TRUE] ELSE known
      /\ UNCHANGED <<devices, counter, failed, slot, ranges, expected, tx, got, calm>>
  BY DEF Pair!AnchorSent, Pair!tagVars
<1>2. PairTypes
  BY DEF PairInv
<1>3. FramesTyped'
  BY <1>1, <1>2, FramesGo DEF PairTypes, FramesTyped
<1>4. PICK k, j : k = known[a] /\ j = [k EXCEPT !.pollAckSent = TRUE]
  OBVIOUS
<1>5. k \in Known \cup {Pair!NoTag}
      /\ (k # Pair!NoTag => j \in Known /\ j.pollAckSent /\ j.pollReceived = k.pollReceived)
  <2>1. k \in Known \cup {Pair!NoTag}
    BY <1>2, <1>4 DEF PairTypes
  <2>2. ASSUME k # Pair!NoTag
        PROVE  j \in Known /\ DOMAIN k = {"age", "pollReceived", "pollAckSent"}
    BY <1>4, <2>1, <2>2, KnownWith
  <2> QED BY <1>4, <2>1, <2>2
<1>6. /\ known' \in [Anchors -> Known \cup {Pair!NoTag}]
      /\ \A z \in Anchors \ {a} : known'[z] = known[z] /\ sent'[z] = sent[z]
      /\ known'[a] = IF sent[a] = "POLL_ACK" /\ k # Pair!NoTag THEN j ELSE k
      /\ sent'[a] = "none"
  BY <1>1, <1>2, <1>4, <1>5 DEF PairTypes, FramesTyped
<1>7. PairTypes'
  BY <1>1, <1>2, <1>3, <1>6 DEF PairTypes
<1>8. \A z \in Anchors : (Heard(z) => Heard(z)') /\ (Answered(z) => Answered(z)')
  BY <1>4, <1>5, <1>6, Zenon DEF Heard, Answered
<1>9. sent'[Tag] = sent[Tag]
  BY <1>1, <1>2 DEF PairTypes, FramesTyped
<1>10. \A n \in Module : got'[n] \in {got[n], NoFrame} /\ sent'[n] \in {sent[n], "none"}
                         /\ tx'[n] \in {tx[n], NoFrame}
  BY <1>1, <1>6, <1>9
<1>11. \A l : Exchange(l) => Timed'
  BY <1>1, <1>9 DEF Exchange, Timed
<1>12. devices' = <<>> \/ (devices # <<>> /\ SameDevices(devices', devices))
  BY <1>1 DEF SameDevices
<1> QED BY <1>7, <1>8, <1>10, <1>11, <1>12, PairGoesOn

(* A frame is taken.                                                       *)
LEMMA Received ==
  ASSUME PairTypes, NEW n \in Module, Pair!Receive(n)
  PROVE  /\ got[n] # NoFrame /\ got'[n] = NoFrame
         /\ \A m \in Module \ {n} : got'[m] = got[m]
         /\ DOMAIN got' = Module /\ sent' = sent
         /\ \A m \in Module : got'[m] \in {got[m], NoFrame} /\ sent'[m] \in {sent[m], "none"}
  BY DEF Pair!Receive, PairTypes, FramesTyped

(* A frame is received that has no answer.                                 *)
LEMMA ReceivedOnly ==
  ASSUME PairTypes, NEW n \in Module, Pair!Receive(n), tx' = tx
  PROVE  FramesTyped'
<1>1. \A m \in Module : sent'[m] = sent[m] /\ tx'[m] = tx[m]
  BY Received
<1>2. DOMAIN tx' = Module /\ DOMAIN sent' = Module /\ sent' = [m \in Module |-> sent'[m]]
  BY Received DEF PairTypes, FramesTyped
<1> QED BY <1>1, <1>2, Received, FramesGo

(* What the tag notes of an anchor whose answer it has.                    *)
LEMMA DeviceNoted ==
  ASSUME NEW ds, DevicesTyped(ds), NEW i \in 1 .. Len(ds), NEW e,
         DeviceAt(e, i), e.addr = ds[i].addr,
         NEW new, new = [ds EXCEPT ![i] = e]
  PROVE  /\ DevicesTyped(new) /\ Len(new) = Len(ds) /\ DOMAIN new = DOMAIN ds
         /\ new[i] = e /\ \A j \in 1 .. Len(ds) : new[j].addr = ds[j].addr
         /\ \A j \in 1 .. Len(ds) : j # i => new[j] = ds[j]
<1>1. DOMAIN new = DOMAIN ds /\ DOMAIN ds = 1 .. Len(ds)
  BY DevicesFit
<1>2. new[i] = e /\ \A j \in 1 .. Len(ds) : j # i => new[j] = ds[j]
  BY <1>1
<1>3. \A j \in 1 .. Len(ds) : DeviceAt(new[j], j) /\ new[j].addr = ds[j].addr
  BY <1>2 DEF DevicesTyped
<1>4. new = [j \in DOMAIN ds |-> new[j]]
  BY <1>1
<1> QED BY <1>1, <1>2, <1>3, <1>4, DevicesMapped

(* The time of a POLL_ACK is noted.                                        *)
LEMMA AnswerNoted ==
  ASSUME PairTypes, NEW i \in 1 .. Len(devices)
  PROVE  \E noted :
         /\ noted = [devices EXCEPT ![i].pollAckReceived = TRUE, ![i].age = 0, ![i].silent = FALSE]
         /\ DevicesTyped(noted) /\ Len(noted) = Len(devices) /\ DOMAIN noted = DOMAIN devices
         /\ \A j \in 1 .. Len(devices) :
              noted[j].addr = devices[j].addr /\ noted[j].pollSent = devices[j].pollSent
         /\ noted[i].pollAckReceived
<1>1. PICK d, e, f, g, v, w : /\ d = devices[i] /\ v = TRUE /\ w = FALSE
                              /\ e = [d EXCEPT !.pollAckReceived = v]
                              /\ f = [e EXCEPT !.age = 0] /\ g = [f EXCEPT !.silent = w]
  OBVIOUS
<1>2. DeviceAt(d, i)
  BY <1>1 DEF PairTypes, DevicesTyped
<1>3. DeviceAt(e, i) /\ e.addr = d.addr /\ e.pollAckReceived = v /\ e.pollSent = d.pollSent
  BY <1>1, <1>2 DEF DeviceAt, DeviceFields
<1>4. DeviceAt(f, i) /\ f.addr = d.addr /\ f.pollAckReceived = v /\ f.pollSent = d.pollSent
  BY <1>1, <1>3 DEF DeviceAt, DeviceFields
<1>5. DeviceAt(g, i) /\ g.addr = d.addr /\ g.pollAckReceived = v /\ g.pollSent = d.pollSent
  BY <1>1, <1>4 DEF DeviceAt, DeviceFields
<1>6. DevicesTyped(devices) /\ DOMAIN devices = 1 .. Len(devices)
  BY DevicesFit DEF PairTypes
<1>0. PICK noted :
        noted = [devices EXCEPT ![i].pollAckReceived = TRUE, ![i].age = 0, ![i].silent = FALSE]
  OBVIOUS
<1>7. noted = [devices EXCEPT ![i] = g]
  <2>1. PICK two, three : /\ two = [devices EXCEPT ![i] = e] /\ three = [two EXCEPT ![i] = f]
    OBVIOUS
  <2>2. two = [devices EXCEPT ![i].pollAckReceived = TRUE]
    BY <1>1, <2>1
  <2>3. two[i] = e /\ i \in DOMAIN two
    BY <1>6, <2>1
  <2>4. three = [two EXCEPT ![i].age = 0]
    BY <1>1, <2>1, <2>3
  <2>5. three[i] = f /\ i \in DOMAIN three
    BY <2>1, <2>3
  <2>6. [three EXCEPT ![i].silent = FALSE] = [three EXCEPT ![i] = g]
    BY <1>1, <2>5
  <2>7. [three EXCEPT ![i] = g] = [devices EXCEPT ![i] = g]
    BY <2>1
  <2>8. noted = [three EXCEPT ![i].silent = FALSE]
    BY <1>0, <2>2, <2>4
  <2> QED BY <2>6, <2>7, <2>8
<1>8. /\ DevicesTyped(noted) /\ Len(noted) = Len(devices) /\ DOMAIN noted = DOMAIN devices
      /\ noted[i] = g /\ \A j \in 1 .. Len(devices) : noted[j].addr = devices[j].addr
      /\ \A j \in 1 .. Len(devices) : j # i => noted[j] = devices[j]
  <2>1. DeviceAt(g, i) /\ g.addr = devices[i].addr
    BY <1>1, <1>3, <1>4, <1>5
  <2>2. PICK ds : ds = devices
    OBVIOUS
  <2>3. DevicesTyped(ds) /\ i \in 1 .. Len(ds) /\ g.addr = ds[i].addr /\ noted = [ds EXCEPT ![i] = g]
    BY <1>6, <1>7, <2>1, <2>2
  <2>4. DevicesTyped(noted)
    BY <2>1, <2>3, DeviceNoted
  <2>5. Len(noted) = Len(ds)
    BY <2>1, <2>3, DeviceNoted
  <2>6. DOMAIN noted = DOMAIN ds
    BY <2>3
  <2>7. noted[i] = g /\ \A j \in 1 .. Len(ds) : j # i => noted[j] = ds[j]
    BY <2>1, <2>3, DeviceNoted
  <2>8. \A j \in 1 .. Len(ds) : noted[j].addr = ds[j].addr
    BY <2>1, <2>3, DeviceNoted
  <2> QED BY <2>2, <2>4, <2>5, <2>6, <2>7, <2>8
<1>9. \A j \in 1 .. Len(devices) : noted[j].pollSent = devices[j].pollSent
  BY <1>1, <1>5, <1>8
<1>10. noted[i].pollAckReceived
  BY <1>1, <1>5, <1>8, Zenon
<1> QED BY <1>0, <1>8, <1>9, <1>10

(* The tag takes a frame that it does not expect.                          *)
LEMMA TagIgnoresKeeps ==
  ASSUME PairInv, Pair!TagIgnores
  PROVE  PairInv'
<1> USE PairFacts
<1>1. /\ Pair!Receive(Tag)
      /\ UNCHANGED <<devices, counter, known, failed, slot, ranges, expected, tx>>
  BY DEF Pair!TagIgnores, Pair!tagVars, Pair!anchorVars
<1>2. PairTypes
  BY DEF PairInv
<1>3. sent' = sent /\ \A n \in Module : got'[n] \in {got[n], NoFrame} /\ sent'[n] \in {sent[n], "none"}
  BY <1>1, <1>2, Received
<1>4. PairTypes'
  BY <1>1, <1>2, ReceivedOnly DEF PairTypes
<1>5. \A z \in Anchors : (Heard(z) => Heard(z)') /\ (Answered(z) => Answered(z)')
  BY <1>1, <1>3 DEF Heard, Answered
<1>6. \A l : Exchange(l) => Timed'
  BY <1>1, <1>3 DEF Exchange, Timed
<1>7. devices' = <<>> \/ (devices # <<>> /\ SameDevices(devices', devices))
  BY <1>1 DEF SameDevices
<1>8. \A n \in Module : tx'[n] \in {tx[n], NoFrame}
  BY <1>1
<1> QED BY <1>3, <1>4, <1>5, <1>6, <1>7, <1>8, PairGoesOn

(* RANGING_INIT, which no exchange has.                                    *)
LEMMA TagRangingInitKeeps ==
  ASSUME PairInv, Pair!TagRangingInit
  PROVE  PairInv'
<1> USE PairFacts
<1>1. PICK age : /\ Pair!Receive(Tag) /\ got[Tag].type = "RANGING_INIT"
                 /\ devices' = Pair!AddDevice(devices, Pair!NewAnchor(got[Tag].from, age))
                 /\ UNCHANGED <<counter, known, failed, slot, ranges, expected, tx>>
  BY DEF Pair!TagRangingInit, Pair!anchorVars
<1>2. PairTypes
  BY DEF PairInv
<1>3. \A n \in Module : got'[n] \in {got[n], NoFrame} /\ sent'[n] \in {sent[n], "none"}
  BY <1>1, <1>2, Received
<1>4. got[Tag].from \in Anchors /\ got[Tag] # NoFrame
  BY <1>1, <1>2, Received DEF PairTypes, FramesTyped, FrameTyped, OfTag
<1>5. PICK a, new : a = got[Tag].from /\ new = devices'
  OBVIOUS
<1>6. DevicesTyped(new)
  BY <1>1, <1>2, <1>4, <1>5, DeviceAdded DEF PairTypes
<1>7. PairTypes'
  BY <1>1, <1>2, <1>5, <1>6, ReceivedOnly DEF PairTypes
<1>8. \A l : ~Exchange(l)
  BY <1>1, <1>4 DEF Exchange, PollKind
<1>9. \A n \in Module : tx'[n] \in {tx[n], NoFrame}
  BY <1>1
<1> QED BY <1>3, <1>7, <1>8, <1>9, PairGoesOn

(* An anchor whose answer the tag expects is in its table.                 *)
LEMMA PlaceIs ==
  ASSUME PairTypes, NEW type, Pair!TagExpects(type), NEW i, i = Pair!Position(devices, got[Tag].from)
  PROVE  /\ i \in 1 .. Len(devices) /\ devices[i].addr = got[Tag].from
         /\ devices # <<>> /\ got[Tag].type = type
<1>1. i # 0 /\ got[Tag].type = type
  BY DEF Pair!TagExpects
<1>2. Len(devices) \in Nat /\ DOMAIN devices = 1 .. Len(devices) /\ (devices = <<>> <=> Len(devices) = 0)
  BY DevicesFit DEF PairTypes
<1>3. PICK n, ds, a : n \in Nat /\ n = Len(devices) /\ ds = devices /\ a = got[Tag].from
  BY <1>2
<1>4. i \in 1 .. n /\ ds[i].addr = a
  BY <1>1, <1>2, <1>3, PositionIs
<1> QED BY <1>1, <1>2, <1>3, <1>4

(* RANGE_REPORT.                                                           *)
LEMMA TagRangeReportKeeps ==
  ASSUME PairInv, Pair!TagRangeReport
  PROVE  PairInv'
<1> USE PairFacts
<1>1. /\ Pair!Receive(Tag) /\ Pair!TagExpects("RANGE_REPORT")
      /\ UNCHANGED <<counter, known, failed, slot, ranges, expected, tx>>
  BY DEF Pair!TagRangeReport, Pair!anchorVars
<1>2. PairTypes
  BY DEF PairInv
<1>3. sent' = sent /\ \A n \in Module : got'[n] \in {got[n], NoFrame} /\ sent'[n] \in {sent[n], "none"}
  BY <1>1, <1>2, Received
<1>4. PICK i, r : /\ i = Pair!Position(devices, got[Tag].from) /\ r = got[Tag].list
  OBVIOUS
<1>5. i \in 1 .. Len(devices) /\ devices # <<>>
  BY <1>1, <1>2, <1>4, PlaceIs
<1>6. PICK ds, d, e, new : ds = devices /\ d = ds[i] /\ e = [d EXCEPT !.range = r] /\ new = devices'
  OBVIOUS
<1>7. new = [ds EXCEPT ![i] = e]
  BY <1>4, <1>6 DEF Pair!TagRangeReport
<1>8. DeviceAt(d, i) /\ DevicesTyped(ds) /\ i \in 1 .. Len(ds)
  BY <1>2, <1>5, <1>6 DEF PairTypes, DevicesTyped
<1>9. DeviceAt(e, i) /\ e.addr = d.addr /\ e.pollSent = d.pollSent
  BY <1>6, <1>8 DEF DeviceAt, DeviceFields
<1>10. e.addr = ds[i].addr
  BY <1>6, <1>9
<1>11. DevicesTyped(new)
  BY <1>7, <1>8, <1>9, <1>10, DeviceNoted
<1>12. Len(new) = Len(ds)
  BY <1>7, <1>8, <1>9, <1>10, DeviceNoted
<1>13. \A j \in 1 .. Len(ds) : new[j].addr = ds[j].addr
  BY <1>7, <1>8, <1>9, <1>10, DeviceNoted
<1>14. \A j \in 1 .. Len(ds) : new[j].pollSent = ds[j].pollSent
  BY <1>6, <1>7, <1>8, <1>9, DevicesFit
<1>15. PairTypes'
  BY <1>1, <1>2, <1>6, <1>11, ReceivedOnly DEF PairTypes
<1>16. \A z \in Anchors : (Heard(z) => Heard(z)') /\ (Answered(z) => Answered(z)')
  BY <1>1, <1>3 DEF Heard, Answered
<1>17. \A l : Exchange(l) => Timed'
  <2> SUFFICES ASSUME NEW l, Exchange(l) PROVE Timed'
    OBVIOUS
  <2>1. CASE \A j \in 1 .. Len(devices) : devices[j].pollSent
    <3>1. \A j \in 1 .. Len(new) : new[j].pollSent
      BY <1>6, <1>12, <1>14, <2>1
    <3> QED BY <1>6, <3>1 DEF Timed
  <2>2. CASE ~\A j \in 1 .. Len(devices) : devices[j].pollSent
    BY <1>1, <1>3, <2>2 DEF Exchange, Timed
  <2> QED BY <2>1, <2>2
<1>18. devices # <<>> /\ SameDevices(devices', devices)
  BY <1>5, <1>6, <1>12, <1>13 DEF SameDevices
<1>19. \A n \in Module : tx'[n] \in {tx[n], NoFrame}
  BY <1>1
<1> QED BY <1>3, <1>15, <1>16, <1>17, <1>18, <1>19, PairGoesOn

(* POLL_ACK: that of the last device is the answer that lets the RANGE go, *)
(* so when it goes the last device's own times have been noted.            *)
LEMMA TagPollAckKeeps ==
  ASSUME PairInv, Pair!TagPollAck
  PROVE  PairInv'
<1> USE PairFacts
<1>1. /\ Pair!Receive(Tag) /\ Pair!TagExpects("POLL_ACK")
      /\ UNCHANGED <<counter, known, failed, slot, ranges>>
  BY DEF Pair!TagPollAck, Pair!anchorVars
<1>2. PairTypes
  BY DEF PairInv
<1>3. sent' = sent /\ \A n \in Module : got'[n] \in {got[n], NoFrame} /\ sent'[n] \in {sent[n], "none"}
  BY <1>1, <1>2, Received
<1>4. PICK i, ds : i = Pair!Position(devices, got[Tag].from) /\ ds = devices
  OBVIOUS
<1>5. i \in 1 .. Len(ds) /\ ds # <<>> /\ ds[i].addr = got[Tag].from /\ got[Tag].type = "POLL_ACK"
  BY <1>1, <1>2, <1>4, PlaceIs, SMTT(30)
<1>6. PICK noted :
         /\ noted = [devices EXCEPT ![i].pollAckReceived = TRUE, ![i].age = 0, ![i].silent = FALSE]
         /\ DevicesTyped(noted) /\ Len(noted) = Len(devices) /\ DOMAIN noted = DOMAIN devices
         /\ \A j \in 1 .. Len(devices) :
              noted[j].addr = devices[j].addr /\ noted[j].pollSent = devices[j].pollSent
         /\ noted[i].pollAckReceived
  BY <1>2, <1>4, <1>5, AnswerNoted
<1>7. PICK f : f = Pair!Frame("RANGE", Tag, 1, Pair!Times(noted))
  OBVIOUS
<1>8. f.type = "RANGE" /\ f.from = Tag /\ f.list = Pair!Times(noted)
  BY <1>7 DEF Pair!Frame
<1>9. devices' = noted
  BY <1>4, <1>6 DEF Pair!TagPollAck
<1>10. \/ devices[i].index = Len(devices) - 1 /\ Pair!Transmit(Tag, f)
          /\ expected' = [expected EXCEPT ![Tag] = "RANGE_REPORT"]
       \/ UNCHANGED <<expected, tx>>
  <2>1. PICK last : last = (devices[i].index = Len(devices) - 1)
    OBVIOUS
  <2>2. IF last
        THEN /\ expected' = [expected EXCEPT ![Tag] = "RANGE_REPORT"] /\ Pair!Transmit(Tag, f)
        ELSE UNCHANGED <<expected, tx>>
    BY <1>4, <1>6, <1>7, <2>1 DEF Pair!TagPollAck
  <2> QED BY <2>1, <2>2
<1>11. /\ FramesTyped' /\ expected' \in [Module -> Pair!MsgId]
       /\ \/ i = Len(ds) /\ tx'[Tag] = f /\ \A n \in Module \ {Tag} : tx'[n] = tx[n]
          \/ tx' = tx
  <2>1. CASE UNCHANGED <<expected, tx>>
    BY <1>1, <1>2, <2>1, ReceivedOnly DEF PairTypes
  <2>2. CASE devices[i].index = Len(devices) - 1 /\ Pair!Transmit(Tag, f)
             /\ expected' = [expected EXCEPT ![Tag] = "RANGE_REPORT"]
    <3>1. i = Len(ds)
      BY <1>2, <1>4, <1>5, <2>2, LastPlace DEF PairTypes
    <3>2. expected' \in [Module -> Pair!MsgId]
      BY <1>2, <2>2 DEF PairTypes, Pair!MsgId
    <3>3. DOMAIN got' = Module
      BY <1>1, <1>2, Received
    <3>4. FramesTyped' /\ tx'[Tag] = f /\ \A n \in Module \ {Tag} : tx'[n] = tx[n]
      BY <1>2, <1>3, <1>8, <2>2, <3>3, TransmitTyped DEF PairTypes, OfTag
    <3> QED BY <3>1, <3>2, <3>4
  <2> QED BY <1>10, <2>1, <2>2
<1>12. PairTypes'
  BY <1>1, <1>2, <1>6, <1>9, <1>11 DEF PairTypes
<1>13. \A z \in Anchors : (Heard(z) => Heard(z)') /\ (Answered(z) => Answered(z)')
  BY <1>1, <1>3 DEF Heard, Answered
<1>14. got[Tag] # NoFrame /\ \A n \in Module : got[n] # NoFrame => got[n] = got[n]
  BY <1>1, <1>2, Received
<1>15. ~Blinking
  BY <1>5, <1>14 DEF Blinking, BlinkKind
<1>16. ASSUME NEW l, Exchange(l)
       PROVE  Timed' /\ \A n \in Module : tx'[n] \in {tx[n], NoFrame} \/ Answers(l, n)
  <2>1. \A j \in 1 .. Len(devices) : devices[j].pollSent
    <3>1. sent[Tag] # "POLL"
      BY <1>5, <1>14 DEF PairInv, OneAir
    <3>2. ~(tx[Tag] # NoFrame /\ tx[Tag].type = "POLL")
      BY <1>14, <1>16 DEF Exchange
    <3> QED BY <1>16, <3>1, <3>2 DEF Exchange, Timed
  <2>2. \A j \in 1 .. Len(noted) : noted[j].pollSent
    BY <1>6, <2>1
  <2>3. Timed'
    BY <1>9, <2>2 DEF Timed
  <2>4. CASE tx' = tx
    BY <2>3, <2>4
  <2>5. CASE i = Len(ds) /\ tx'[Tag] = f /\ \A n \in Module \ {Tag} : tx'[n] = tx[n]
    <3>1. PICK t, n : t = Pair!Times(noted) /\ n \in Nat /\ n = Len(noted)
      BY <1>6, DevicesFit
    <3>2. t = [j \in 1 .. n |-> [addr |-> noted[j].addr, pollSent |-> noted[j].pollSent,
                                  pollAckReceived |-> noted[j].pollAckReceived]]
      BY <1>6, <3>1, DevicesFit DEF Pair!Times
    <3>3. DOMAIN t = 1 .. n /\ Len(t) = n
      <4>1. t \in [1 .. n -> {t[j] : j \in 1 .. n}]
        BY <3>2
      <4>2. n \in Nat
        BY <3>1
      <4>3. Len(t) = n
        BY <4>1, <4>2, FunctionIsSeq
      <4> QED BY <3>2, <4>3
    <3>4. i = n /\ i \in 1 .. n /\ n = Len(ds) /\ n # 0
      BY <1>4, <1>5, <1>6, <2>5, <3>1
    <3>5. \A j \in 1 .. n : t[j].addr = noted[j].addr
      BY <3>2
    <3>6. t[n].pollSent
      BY <2>2, <3>1, <3>2, <3>4
    <3>7. t[n].pollAckReceived
      BY <1>6, <3>2, <3>4, Zenon
    <3>8. SameDevices(devices, l) /\ Len(l) = n /\ DOMAIN l = 1 .. n
      BY <1>4, <1>5, <1>16, <3>4, Zenon DEF Exchange, SameDevices
    <3>9. SameDevices(t, l)
      BY <1>6, <3>1, <3>3, <3>5, <3>8, ZenonT(60) DEF SameDevices
    <3>10. l[n].addr = got[Tag].from
      BY <1>4, <1>5, <3>4, <3>8 DEF SameDevices
    <3>11. Answered(l[n].addr)
      <4>1. PICK z : z = got[Tag].from
        OBVIOUS
      <4>2. Answered(z)
        BY <1>5, <1>14, <1>16, <4>1 DEF Exchange, Answered
      <4> QED BY <3>10, <4>1, <4>2 DEF Answered
    <3>12. Answered(l[n].addr)'
      <4>1. l[n].addr \in Anchors
        BY <1>16, <3>4, <3>8 DEF Exchange
      <4> QED BY <1>13, <3>11, <4>1
    <3>13. RangeSays(l, f)'
      BY <1>8, <3>1, <3>3, <3>4, <3>6, <3>7, <3>8, <3>9, <3>12 DEF RangeSays
    <3>14. Answers(l, Tag)
      BY <1>8, <1>14, <2>5, <3>13 DEF Answers, RangeSays, PollKind
    <3> QED BY <2>3, <2>5, <3>14
  <2> QED BY <1>11, <2>4, <2>5
<1>17. devices # <<>> /\ SameDevices(devices', devices)
  BY <1>4, <1>5, <1>6, <1>9 DEF SameDevices
<1> QED BY <1>3, <1>12, <1>13, <1>15, <1>16, <1>17, PairGoesOn

(* A step of an anchor.                                                    *)
LEMMA AnchorSteps ==
  ASSUME PairInv, NEW a \in Anchors, UNCHANGED <<devices, counter>>, PairTypes',
         \A n \in Module : got'[n] \in {got[n], NoFrame} /\ sent'[n] \in {sent[n], "none"},
         \A n \in Module \ {a} : tx'[n] = tx[n] /\ sent'[n] = sent[n],
         \A z \in Anchors \ {a} : known'[z] = known[z],
         tx'[a] \in {tx[a], NoFrame} \/
           /\ Blinking => tx'[a].type \in BlinkKind
           /\ \A l : Exchange(l) => Answers(l, a),
         \A l : Exchange(l) => (Heard(a) => Heard(a)') /\ (Answered(a) => Answered(a)')
  PROVE  PairInv'
<1> USE PairFacts
<1>1. tx'[Tag] = tx[Tag] /\ sent'[Tag] = sent[Tag]
  OBVIOUS
<1>2. \A l : Exchange(l) => Timed'
  BY <1>1 DEF Exchange, Timed
<1>3. \A z \in Anchors \ {a} : (Heard(z) => Heard(z)') /\ (Answered(z) => Answered(z)')
  BY DEF Heard, Answered
<1>4. \A l : Exchange(l) =>
        \A z \in Anchors : (Heard(z) => Heard(z)') /\ (Answered(z) => Answered(z)')
  BY <1>3
<1>5. devices' = <<>> \/ (devices # <<>> /\ SameDevices(devices', devices))
  BY DEF SameDevices
<1>6. Blinking => \A n \in Module : tx'[n] \in {tx[n], NoFrame} \/ tx'[n].type \in BlinkKind
  OBVIOUS
<1>7. \A l : Exchange(l) => \A n \in Module : tx'[n] \in {tx[n], NoFrame} \/ Answers(l, n)
  OBVIOUS
<1> QED BY <1>2, <1>4, <1>5, <1>6, <1>7, PairGoesOn

(* An anchor takes a frame.                                                *)
LEMMA AnchorReceives ==
  ASSUME PairTypes, NEW a \in Anchors, Pair!Receive(a)
  PROVE  /\ got[a] # NoFrame /\ DOMAIN got' = Module /\ sent' = sent
         /\ \A m \in Module : got'[m] \in {got[m], NoFrame} /\ sent'[m] \in {sent[m], "none"}
         /\ a \in Module
  BY Received, PairFacts

(* Nothing happens but that a frame goes.                                  *)
LEMMA AnchorIgnoresKeeps ==
  ASSUME PairInv, NEW a \in Anchors, Pair!AnchorIgnores(a) \/ Pair!AnchorNotListed(a)
  PROVE  PairInv'
<1> USE PairFacts
<1>1. /\ Pair!Receive(a)
      /\ UNCHANGED <<devices, counter, known, slot, ranges, expected, tx>>
      /\ failed' = failed \/ failed' = [failed EXCEPT ![a] = Pair!Unexpected(a)]
  BY DEF Pair!AnchorIgnores, Pair!AnchorNotListed, Pair!tagVars, Pair!anchorVars
<1>2. PairTypes
  BY DEF PairInv
<1>3. /\ sent' = sent
      /\ \A n \in Module : got'[n] \in {got[n], NoFrame} /\ sent'[n] \in {sent[n], "none"}
  BY <1>1, <1>2, AnchorReceives
<1>4. Pair!Unexpected(a) \in BOOLEAN
  BY <1>2 DEF Pair!Unexpected, PairTypes
<1>5. failed' \in [Anchors -> BOOLEAN]
  BY <1>1, <1>2, <1>4 DEF PairTypes
<1>6. PairTypes'
  BY <1>1, <1>2, <1>5, ReceivedOnly DEF PairTypes
<1>7. (Heard(a) => Heard(a)') /\ (Answered(a) => Answered(a)')
  BY <1>1, <1>3 DEF Heard, Answered
<1>8. \A n \in Module \ {a} : tx'[n] = tx[n] /\ sent'[n] = sent[n]
  BY <1>1, <1>3
<1> QED BY <1>1, <1>3, <1>6, <1>7, <1>8, AnchorSteps

(* BLINK, which no exchange has.                                           *)
LEMMA AnchorBlinkKeeps ==
  ASSUME PairInv, NEW a \in Anchors, Pair!AnchorBlink(a)
  PROVE  PairInv'
<1> USE PairFacts
<1>1. PICK f : f = Pair!Frame("RANGING_INIT", a, 0, <<>>)
  OBVIOUS
<1>2. /\ Pair!Receive(a) /\ got[a].type = "BLINK"
      /\ UNCHANGED <<devices, counter, failed, slot, ranges>>
      /\ expected' = [expected EXCEPT ![a] = "POLL"]
      /\ \/ UNCHANGED <<known, tx>>
         \/ /\ \E age \in 0 .. Pair!Inactive : known' = [known EXCEPT ![a] = Pair!NewTag(age)]
            /\ Pair!Transmit(a, f)
  BY <1>1 DEF Pair!AnchorBlink, Pair!tagVars
<1>3. PairTypes
  BY DEF PairInv
<1>4. /\ sent' = sent /\ got[a] # NoFrame /\ DOMAIN got' = Module
      /\ \A n \in Module : got'[n] \in {got[n], NoFrame} /\ sent'[n] \in {sent[n], "none"}
  BY <1>2, <1>3, AnchorReceives
<1>5. f.type = "RANGING_INIT" /\ f.from = a
  BY <1>1 DEF Pair!Frame
<1>6. /\ FramesTyped' /\ \A n \in Module \ {a} : tx'[n] = tx[n]
      /\ tx'[a] = tx[a] \/ tx'[a].type = "RANGING_INIT"
  <2>1. CASE UNCHANGED <<known, tx>>
    BY <1>2, <1>3, <2>1, ReceivedOnly
  <2>2. CASE Pair!Transmit(a, f)
    BY <1>3, <1>4, <1>5, <2>2, TransmitTyped DEF PairTypes, OfAnchor
  <2> QED BY <1>2, <2>1, <2>2
<1>7. known' \in [Anchors -> Known \cup {Pair!NoTag}] /\ \A z \in Anchors \ {a} : known'[z] = known[z]
  <2>1. \A g \in 0 .. Pair!Inactive : Pair!NewTag(g) \in Known
    BY KnownWith
  <2> QED BY <1>2, <1>3, <2>1 DEF PairTypes
<1>8. PairTypes'
  <2>1. expected' \in [Module -> Pair!MsgId]
    BY <1>2, <1>3 DEF PairTypes, Pair!MsgId
  <2> QED BY <1>2, <1>3, <1>6, <1>7, <2>1 DEF PairTypes
<1>9. \A l : ~Exchange(l)
  BY <1>2, <1>4 DEF Exchange, PollKind
<1>10. tx'[a] \in {tx[a], NoFrame} \/ tx'[a].type \in BlinkKind
  BY <1>6 DEF BlinkKind
<1>11. \A n \in Module \ {a} : tx'[n] = tx[n] /\ sent'[n] = sent[n]
  BY <1>4, <1>6
<1> QED BY <1>2, <1>4, <1>7, <1>8, <1>9, <1>10, <1>11, AnchorSteps

(* In an exchange, what the anchor receives belongs to it.                 *)
LEMMA InExchange ==
  ASSUME PairInv, NEW n \in Module, got[n] # NoFrame, got[n].type \in PollKind
  PROVE  ~Blinking /\ \E l : Exchange(l)
  BY DEF PairInv, Blinking, BlinkKind, PollKind

(* POLL: the answer is due in the slot of the anchor's place in the list.  *)
LEMMA AnchorPollKeeps ==
  ASSUME PairInv, NEW a \in Anchors, Pair!AnchorPoll(a)
  PROVE  PairInv'
<1> USE PairFacts
<1>1. PICK i, f : i = Pair!Position(got[a].list, a) /\ f = Pair!Frame("POLL_ACK", a, 2 * i - 1, <<>>)
  OBVIOUS
<1>2. /\ Pair!Receive(a) /\ got[a].type = "POLL" /\ known[a] # Pair!NoTag
      /\ UNCHANGED <<devices, counter, ranges>>
      /\ i # 0 /\ slot' = [slot EXCEPT ![a] = 2 * i - 1] /\ Pair!Transmit(a, f)
      /\ failed' = [failed EXCEPT ![a] = FALSE]
      /\ known' = [known EXCEPT ![a].pollReceived = TRUE, ![a].age = 0]
      /\ expected' = [expected EXCEPT ![a] = "RANGE"]
  BY <1>1 DEF Pair!AnchorPoll, Pair!tagVars, Pair!FromKnown
<1>3. PairTypes
  BY DEF PairInv
<1>4. /\ sent' = sent /\ got[a] # NoFrame /\ DOMAIN got' = Module /\ a \in Module
      /\ \A n \in Module : got'[n] \in {got[n], NoFrame} /\ sent'[n] \in {sent[n], "none"}
  BY <1>2, <1>3, AnchorReceives
<1>5. f.type = "POLL_ACK" /\ f.from = a /\ f.slot = 2 * i - 1
  BY <1>1 DEF Pair!Frame
<1>6. ~Blinking /\ \E l : Exchange(l)
  BY <1>2, <1>4, InExchange DEF PollKind
<1>7. \A l : Exchange(l) => i = Pair!Position(l, a) /\ i \in 1 .. Cardinality(Anchors)
  <2> SUFFICES ASSUME NEW l, Exchange(l)
               PROVE  i = Pair!Position(l, a) /\ i \in 1 .. Cardinality(Anchors)
    OBVIOUS
  <2>1. got[a].list = l
    BY <1>2, <1>4, SMTT(30) DEF Exchange, PollSays
  <2>2. PICK m \in Nat : m = Len(l) /\ DOMAIN l = 1 .. m /\ m <= Cardinality(Anchors)
    BY DEF Exchange
  <2>3. i = Pair!Position(l, a)
    BY <1>1, <2>1
  <2>4. i \in 1 .. m
    BY <1>2, <2>2, <2>3, PositionIs
  <2> QED BY <2>2, <2>3, <2>4
<1>8. FramesTyped' /\ tx'[a] = f /\ \A n \in Module \ {a} : tx'[n] = tx[n]
  BY <1>2, <1>3, <1>4, <1>5, TransmitTyped DEF PairTypes, OfAnchor
<1>9. PICK k, j, v, h : /\ k = known[a] /\ v = TRUE /\ h = [k EXCEPT !.pollReceived = v]
                        /\ j = [k EXCEPT !.pollReceived = v, !.age = 0]
  OBVIOUS
<1>10. /\ k \in Known /\ j \in Known
       /\ j.pollReceived = v /\ j.pollAckSent = k.pollAckSent
  <2>1. k \in Known
    BY <1>2, <1>3, <1>9 DEF PairTypes
  <2>0. 0 \in 0 .. Pair!Inactive
    OBVIOUS
  <2>2. DOMAIN k = {"age", "pollReceived", "pollAckSent"}
    BY <2>1, KnownWith
  <2>3. j \in Known
    BY <1>9, <2>0, <2>1, KnownWith
  <2> QED BY <1>9, <2>1, <2>2, <2>3
<1>11. known' = [known EXCEPT ![a] = j]
  BY <1>2, <1>3, <1>9 DEF PairTypes
<1>12. /\ known' \in [Anchors -> Known \cup {Pair!NoTag}] /\ known'[a] = j
       /\ \A z \in Anchors \ {a} : known'[z] = known[z]
  BY <1>3, <1>10, <1>11 DEF PairTypes
<1>13. slot' \in [Anchors -> 1 .. 2 * Cardinality(Anchors) - 1]
  <2>1. 2 * i - 1 \in 1 .. 2 * Cardinality(Anchors) - 1
    BY <1>6, <1>7
  <2> QED BY <1>2, <1>3, <2>1 DEF PairTypes
<1>14. failed' \in [Anchors -> BOOLEAN] /\ expected' \in [Module -> Pair!MsgId]
  BY <1>2, <1>3 DEF PairTypes, Pair!MsgId
<1>15. PairTypes'
  BY <1>2, <1>3, <1>8, <1>12, <1>13, <1>14 DEF PairTypes
<1>16. Heard(a)' /\ (Answered(a) => Answered(a)')
  <2>1. known'[a].pollReceived
    BY <1>9, <1>10, <1>12
  <2>2. known'[a].pollAckSent = known[a].pollAckSent
    BY <1>9, <1>10, <1>12
  <2> QED BY <1>2, <1>4, <2>1, <2>2 DEF Heard, Answered
<1>17. \A l : Exchange(l) => Answers(l, a)
  BY <1>2, <1>4, <1>5, <1>7, <1>8, <1>16 DEF Answers, RangeSays, PollKind
<1>18. \A n \in Module \ {a} : tx'[n] = tx[n] /\ sent'[n] = sent[n]
  BY <1>4, <1>8
<1> QED BY <1>2, <1>4, <1>6, <1>12, <1>15, <1>16, <1>17, <1>18, AnchorSteps

(* RANGE.                                                                  *)
LEMMA AnchorRangeKeeps ==
  ASSUME PairInv, NEW a \in Anchors, Pair!AnchorRange(a)
  PROVE  PairInv'
<1> USE PairFacts
<1>1. PICK f, r : /\ r \in {"right", "wrong", ranges[a]}
                  /\ Pair!Receive(a) /\ got[a].type = "RANGE"
                  /\ UNCHANGED <<devices, counter, known, slot>>
                  /\ f.type \in {"RANGE_FAILED", "RANGE_REPORT"} /\ f.from = a
                  /\ Pair!Transmit(a, f)
                  /\ ranges' = [ranges EXCEPT ![a] = r] \/ ranges' = ranges
                  /\ failed' = [failed EXCEPT ![a] = Pair!Unexpected(a)]
                  /\ expected' = [expected EXCEPT ![a] = "POLL"]
  <2>1. PICK t, q, fail, report :
          /\ t = got[a].list[Pair!Position(got[a].list, a)]
          /\ q = IF t.pollSent /\ t.pollAckReceived /\ known[a].pollReceived /\ known[a].pollAckSent
                 THEN "right" ELSE "wrong"
          /\ fail = Pair!Frame("RANGE_FAILED", a, 0, <<>>)
          /\ report = Pair!Frame("RANGE_REPORT", a, slot[a], q)
    OBVIOUS
  <2>2. /\ fail.type = "RANGE_FAILED" /\ fail.from = a
        /\ report.type = "RANGE_REPORT" /\ report.from = a /\ q \in {"right", "wrong"}
    BY <2>1 DEF Pair!Frame
  <2>3. /\ Pair!Receive(a) /\ got[a].type = "RANGE"
        /\ UNCHANGED <<devices, counter, known, slot>>
        /\ failed' = [failed EXCEPT ![a] = Pair!Unexpected(a)]
        /\ expected' = [expected EXCEPT ![a] = "POLL"]
    BY DEF Pair!AnchorRange, Pair!tagVars
  <2>4. \/ ranges' = ranges /\ Pair!Transmit(a, fail)
        \/ ranges' = [ranges EXCEPT ![a] = q] /\ Pair!Transmit(a, report)
    BY <2>1 DEF Pair!AnchorRange
  <2> QED BY <2>2, <2>3, <2>4
<1>2. PairTypes
  BY DEF PairInv
<1>3. /\ sent' = sent /\ got[a] # NoFrame /\ DOMAIN got' = Module /\ a \in Module
      /\ \A n \in Module : got'[n] \in {got[n], NoFrame} /\ sent'[n] \in {sent[n], "none"}
  BY <1>1, <1>2, AnchorReceives
<1>4. ~Blinking
  BY <1>1, <1>3, InExchange DEF PollKind
<1>5. FramesTyped' /\ tx'[a] = f /\ \A n \in Module \ {a} : tx'[n] = tx[n]
  BY <1>1, <1>2, <1>3, TransmitTyped DEF PairTypes, OfAnchor
<1>6. Pair!Unexpected(a) \in BOOLEAN
  BY <1>2 DEF Pair!Unexpected, PairTypes
<1>7. /\ failed' \in [Anchors -> BOOLEAN] /\ expected' \in [Module -> Pair!MsgId]
      /\ ranges' \in [Anchors -> {"none", "right", "wrong"}]
  BY <1>1, <1>2, <1>6 DEF PairTypes, Pair!MsgId
<1>8. PairTypes'
  BY <1>1, <1>2, <1>5, <1>7 DEF PairTypes
<1>9. (Heard(a) => Heard(a)') /\ (Answered(a) => Answered(a)')
  BY <1>1, <1>3 DEF Heard, Answered
<1>10. \A l : Exchange(l) => Answers(l, a)
  BY <1>1, <1>3, <1>5 DEF Answers, RangeSays, PollKind
<1>11. \A n \in Module \ {a} : tx'[n] = tx[n] /\ sent'[n] = sent[n]
  BY <1>3, <1>5
<1> QED BY <1>1, <1>3, <1>4, <1>8, <1>9, <1>10, <1>11, AnchorSteps

(* The slot of an anchor that was never polled.                            *)
LEMMA FirstSlot == \A a \in Anchors : 1 \in 1 .. 2 * Cardinality(Anchors) - 1
<1> SUFFICES ASSUME NEW a \in Anchors
             PROVE  1 \in 1 .. 2 * Cardinality(Anchors) - 1
  OBVIOUS
<1>1. Cardinality(Anchors) # 0
  BY PairFacts, FS_EmptySet
<1> QED BY <1>1, PairFacts

(* An anchor forgets the tag, what it expected, or all.                    *)
LEMMA AnchorForgetsKeeps ==
  ASSUME PairInv, NEW a \in Anchors,
         Pair!AnchorCheck(a) \/ Pair!AnchorReset(a) \/ Pair!AnchorRestarts(a)
  PROVE  PairInv'
<1> USE PairFacts
<1>1. PairTypes
  BY DEF PairInv
<1>2. /\ UNCHANGED <<devices, counter>>
      /\ known' = known \/ known' = [known EXCEPT ![a] = Pair!NoTag]
      /\ failed' = failed \/ failed' = [failed EXCEPT ![a] = FALSE]
      /\ slot' = slot \/ slot' = [slot EXCEPT ![a] = 1]
      /\ ranges' = ranges \/ ranges' = [ranges EXCEPT ![a] = "none"]
      /\ expected' = expected \/ expected' = [expected EXCEPT ![a] = "POLL"]
      /\ tx' = tx \/ tx' = [tx EXCEPT ![a] = NoFrame]
      /\ got' = got \/ got' = [got EXCEPT ![a] = NoFrame]
      /\ UNCHANGED <<sent, known>> \/ UNCHANGED sent \/
         (sent' = [sent EXCEPT ![a] = "none"] /\ known' = [known EXCEPT ![a] = Pair!NoTag])
  BY DEF Pair!AnchorCheck, Pair!AnchorReset, Pair!AnchorRestarts, Pair!TurnOff, Pair!tagVars,
         Pair!anchorVars
<1>3. /\ \A n \in Module : /\ got'[n] \in {got[n], NoFrame} /\ sent'[n] \in {sent[n], "none"}
                           /\ tx'[n] \in {tx[n], NoFrame}
      /\ \A n \in Module \ {a} : tx'[n] = tx[n] /\ sent'[n] = sent[n]
      /\ DOMAIN tx' = Module /\ DOMAIN got' = Module /\ DOMAIN sent' = Module
      /\ sent' = [n \in Module |-> sent'[n]]
  BY <1>1, <1>2 DEF PairTypes, FramesTyped
<1>4. FramesTyped'
  BY <1>1, <1>3, FramesGo
<1>5. /\ known' \in [Anchors -> Known \cup {Pair!NoTag}]
      /\ \A z \in Anchors \ {a} : known'[z] = known[z]
      /\ known'[a] \in {known[a], Pair!NoTag}
      /\ known'[a] = Pair!NoTag \/ (known'[a] = known[a] /\ sent'[a] = sent[a])
  BY <1>1, <1>2 DEF PairTypes, FramesTyped
<1>6. /\ slot' \in [Anchors -> 1 .. 2 * Cardinality(Anchors) - 1]
      /\ expected' \in [Module -> Pair!MsgId]
  BY <1>1, <1>2, FirstSlot DEF PairTypes, Pair!MsgId
<1>7. failed' \in [Anchors -> BOOLEAN] /\ ranges' \in [Anchors -> {"none", "right", "wrong"}]
  BY <1>1, <1>2 DEF PairTypes
<1>8. PairTypes'
  BY <1>1, <1>2, <1>4, <1>5, <1>6, <1>7 DEF PairTypes
<1>9. (Heard(a) => Heard(a)') /\ (Answered(a) => Answered(a)')
  BY <1>5 DEF Heard, Answered
<1> QED BY <1>2, <1>3, <1>5, <1>8, <1>9, AnchorSteps

(* The tag restarts.                                                       *)
LEMMA TagRestartsKeeps ==
  ASSUME PairInv, Pair!TagRestarts
  PROVE  PairInv'
<1> USE PairFacts
<1>1. PairTypes
  BY DEF PairInv
<1>2. /\ devices' = <<>> /\ counter' = 0 /\ UNCHANGED <<known, failed, slot, ranges>>
      /\ expected' = [expected EXCEPT ![Tag] = "POLL"]
      /\ tx' = [tx EXCEPT ![Tag] = NoFrame]
      /\ sent' = [sent EXCEPT ![Tag] = "none"]
      /\ got' = [got EXCEPT ![Tag] = NoFrame]
  BY DEF Pair!TagRestarts, Pair!TurnOff, Pair!anchorVars
<1>3. /\ \A n \in Module : /\ got'[n] \in {got[n], NoFrame} /\ sent'[n] \in {sent[n], "none"}
                           /\ tx'[n] \in {tx[n], NoFrame}
      /\ DOMAIN tx' = Module /\ DOMAIN got' = Module /\ DOMAIN sent' = Module
      /\ sent' = [n \in Module |-> sent'[n]]
      /\ \A z \in Anchors : sent'[z] = sent[z]
  BY <1>1, <1>2 DEF PairTypes, FramesTyped
<1>4. FramesTyped'
  BY <1>1, <1>3, FramesGo
<1>5. Len(devices') = 0
  BY <1>2, EmptySeq
<1>6. DevicesTyped(devices')
  BY <1>2, <1>5, EmptySeq DEF DevicesTyped, Distinct, IsSequence
<1>7. counter' \in 0 .. BlinkPeriod - 1 /\ expected' \in [Module -> Pair!MsgId]
  BY <1>1, <1>2 DEF PairTypes, Pair!MsgId
<1>8. PairTypes'
  BY <1>1, <1>2, <1>4, <1>6, <1>7 DEF PairTypes
<1>9. Timed'
  BY <1>5 DEF Timed
<1>10. \A z \in Anchors : (Heard(z) => Heard(z)') /\ (Answered(z) => Answered(z)')
  BY <1>2, <1>3 DEF Heard, Answered
<1> QED BY <1>2, <1>3, <1>8, <1>9, <1>10, PairGoesOn

(* Nothing of the invariant changes.                                       *)
LEMMA PairStutters ==
  ASSUME PairInv,
         UNCHANGED <<devices, counter, known, failed, slot, ranges, expected, tx, sent, got>>
  PROVE  PairInv'
<1>1. PairTypes
  BY DEF PairInv
<1>2. FramesTyped'
  BY <1>1 DEF PairTypes, FramesTyped, FrameTyped
<1>3. PairTypes'
  BY <1>1, <1>2 DEF PairTypes
<1>4. \A z \in Anchors : (Heard(z) => Heard(z)') /\ (Answered(z) => Answered(z)')
  BY DEF Heard, Answered
<1>5. \A l : Exchange(l) => Timed'
  BY DEF Exchange, Timed
<1>6. devices' = <<>> \/ (devices # <<>> /\ SameDevices(devices', devices))
  BY DEF SameDevices
<1> QED BY <1>3, <1>4, <1>5, <1>6, PairGoesOn

(* The first state.                                                        *)
LEMMA PairInit == Pair!Init => PairInv
<1> SUFFICES ASSUME Pair!Init
             PROVE  PairInv
  OBVIOUS
<1> USE PairFacts
<1>1. /\ devices = <<>> /\ counter = 0
      /\ known = [a \in Anchors |-> Pair!NoTag]
      /\ failed = [a \in Anchors |-> FALSE]
      /\ slot = [a \in Anchors |-> 1]
      /\ ranges = [a \in Anchors |-> "none"]
      /\ expected = [n \in Module |-> "POLL"]
      /\ tx = [n \in Module |-> NoFrame]
      /\ sent = [n \in Module |-> "none"]
      /\ got = [n \in Module |-> NoFrame]
  BY DEF Pair!Init, Module
<1>2. DevicesTyped(devices)
  BY <1>1, EmptySeq DEF DevicesTyped, Distinct, IsSequence
<1>3. FramesTyped
  BY <1>1 DEF FramesTyped, FrameTyped, OfAnchor
<1>4. slot \in [Anchors -> 1 .. 2 * Cardinality(Anchors) - 1]
  BY <1>1, FirstSlot
<1>5. expected \in [Module -> Pair!MsgId] /\ counter \in 0 .. BlinkPeriod - 1
  BY <1>1 DEF Pair!MsgId
<1>6. /\ known \in [Anchors -> Known \cup {Pair!NoTag}]
      /\ failed \in [Anchors -> BOOLEAN] /\ ranges \in [Anchors -> {"none", "right", "wrong"}]
  BY <1>1
<1>7. PairTypes
  BY <1>2, <1>3, <1>4, <1>5, <1>6 DEF PairTypes
<1>8. OneAir /\ Blinking
  BY <1>1 DEF OneAir, Blinking
<1> QED BY <1>7, <1>8 DEF PairInv

(* Every step.                                                             *)
LEMMA PairStep == PairInv /\ [Pair!Next]_(Pair!vars) => PairInv'
<1>1. ASSUME PairInv, UNCHANGED Pair!vars
      PROVE  PairInv'
  BY <1>1, PairStutters DEF Pair!vars, Pair!tagVars, Pair!anchorVars
<1>2. ASSUME PairInv, Pair!CalmDown
      PROVE  PairInv'
  BY <1>2, PairStutters DEF Pair!CalmDown, Pair!tagVars, Pair!anchorVars
<1>3. ASSUME PairInv, NEW a \in Anchors, Pair!AnchorReceived(a)
      PROVE  PairInv'
  BY <1>3, AnchorBlinkKeeps, AnchorPollKeeps, AnchorRangeKeeps, AnchorIgnoresKeeps
     DEF Pair!AnchorReceived
<1>4. ASSUME PairInv, Pair!TagReceived
      PROVE  PairInv'
  BY <1>4, TagRangingInitKeeps, TagPollAckKeeps, TagRangeReportKeeps, TagIgnoresKeeps
     DEF Pair!TagReceived
<1>5. ASSUME PairInv, Pair!Next
      PROVE  PairInv'
  BY <1>2, <1>3, <1>4, <1>5, TickKeeps, TagSentKeeps, TagRestartsKeeps, AirKeeps,
     AnchorSentKeeps, AnchorForgetsKeeps DEF Pair!Next, Module
<1> QED BY <1>1, <1>5

-----------------------------------------------------------------------------
(* What the invariant says of the answers and the ranges.                  *)
LEMMA PairTyped == PairInv => Pair!TypeOK
<1> SUFFICES ASSUME PairInv
             PROVE  Pair!TypeOK
  OBVIOUS
<1>1. PairTypes
  BY DEF PairInv
<1>2. \A i \in DOMAIN devices : devices[i].addr \in Anchors /\ devices[i].index = i - 1
  <2> SUFFICES ASSUME NEW i \in DOMAIN devices
               PROVE  devices[i].addr \in Anchors /\ devices[i].index = i - 1
    OBVIOUS
  <2>1. PICK d : d = devices[i]
    OBVIOUS
  <2>2. DeviceAt(d, i)
    BY <1>1, <2>1, DevicesFit DEF PairTypes, DevicesTyped
  <2>3. d.addr \in Anchors /\ d.index = i - 1
    BY <2>2 DEF DeviceAt, DeviceFields
  <2> QED BY <2>1, <2>3
<1>3. Pair!Cardinality(Anchors) = Cardinality(Anchors)
  BY SamePairOperators
<1>4. \A a \in Anchors : known[a] = Pair!NoTag \/ known[a] \in Known
  BY <1>1 DEF PairTypes
<1> QED BY <1>1, <1>2, <1>3, <1>4 DEF PairTypes, Pair!TypeOK, Known, Module

(* Two answers to a POLL are of two places of its list.                    *)
LEMMA PairApart == PairInv => Pair!AnswersApart
<1> SUFFICES ASSUME PairInv, NEW m \in Anchors, NEW n \in Anchors,
                    tx[m] # NoFrame, tx[n] # NoFrame,
                    tx[m].type = "POLL_ACK", tx[n].type = "POLL_ACK", tx[m].slot = tx[n].slot
             PROVE  m = n
  BY DEF Pair!AnswersApart
<1>1. m \in Module /\ n \in Module
  BY PairFacts
<1>2. PICK l : Exchange(l)
  BY <1>1, SMTT(30) DEF PairInv, Blinking, BlinkKind
<1>3. PICK k \in Nat : DOMAIN l = 1 .. k
  BY <1>2 DEF Exchange
<1>4. PICK p : p = Pair!Position(l, m)
  OBVIOUS
<1>5. PICK q : q = Pair!Position(l, n)
  OBVIOUS
<1>6. p \in 1 .. k /\ l[p].addr = m
  <2>1. p # 0 BY <1>2, <1>4 DEF Exchange
  <2> QED BY <2>1, <1>3, <1>4, PositionIs
<1>7. q \in 1 .. k /\ l[q].addr = n
  <2>1. q # 0 BY <1>2, <1>5 DEF Exchange
  <2> QED BY <2>1, <1>3, <1>5, PositionIs
<1>8. 2 * p - 1 = 2 * q - 1
  BY <1>2, <1>4, <1>5 DEF Exchange
<1>9. p = q
  BY <1>3, <1>6, <1>7, <1>8, SMT
<1> QED BY <1>6, <1>7, <1>9

(* The range of an anchor is computed from an exchange's own times, if the *)
(* anchor is the last of it.                                               *)
LEMMA RangeOfLast ==
  ASSUME PairInv, NEW a \in Anchors, Pair!AnchorRange(a)
  PROVE  /\ \A z \in Anchors \ {a} : ranges'[z] = ranges[z]
         /\ \E l : /\ Exchange(l) /\ \E i \in 1 .. Len(l) : l[i].addr = a
                   /\ l[Len(l)].addr = a => ranges'[a] \in {ranges[a], "right"}
<1> USE PairFacts
<1>1. PairTypes
  BY DEF PairInv
<1>2. PICK p, t, q : /\ p = Pair!Position(got[a].list, a) /\ t = got[a].list[p]
                     /\ q = IF t.pollSent /\ t.pollAckReceived
                               /\ known[a].pollReceived /\ known[a].pollAckSent
                            THEN "right" ELSE "wrong"
  OBVIOUS
<1>3. /\ Pair!Receive(a) /\ got[a].type = "RANGE" /\ known[a] # Pair!NoTag /\ p # 0
      /\ ranges' = ranges \/ ranges' = [ranges EXCEPT ![a] = q]
  BY <1>2 DEF Pair!AnchorRange, Pair!FromKnown
<1>4. \A z \in Anchors \ {a} : ranges'[z] = ranges[z]
  BY <1>1, <1>3 DEF PairTypes
<1>5. got[a] # NoFrame /\ a \in Module
  BY <1>1, <1>3, AnchorReceives
<1>6. PICK l : Exchange(l)
  BY <1>3, <1>5, InExchange DEF PollKind
<1>7. PICK n, list : n \in Nat /\ n = Len(l) /\ list = got[a].list /\ DOMAIN l = 1 .. n
  BY <1>6 DEF Exchange
<1>8. /\ n # 0 /\ SameDevices(list, l) /\ DOMAIN list = 1 .. n
      /\ list[n].pollSent /\ list[n].pollAckReceived
      /\ Answered(l[n].addr)
  <2>1. PICK f : f = got[a]
    OBVIOUS
  <2>2. RangeSays(l, f) /\ f.type = "RANGE" /\ f.list = list
    BY <1>3, <1>5, <1>6, <1>7, <2>1 DEF Exchange
  <2> QED BY <1>7, <2>2 DEF RangeSays
<1>9. p \in 1 .. n /\ list[p].addr = a
  <2>1. p = Pair!Position(list, a)
    BY <1>2, <1>7
  <2> QED BY <1>3, <1>7, <1>8, <2>1, PositionIs
<1>10. l[p].addr = a
  BY <1>7, <1>8, <1>9 DEF SameDevices
<1>11. ASSUME l[n].addr = a
       PROVE  ranges'[a] \in {ranges[a], "right"}
  <2>1. p = n
    BY <1>6, <1>7, <1>8, <1>9, <1>10, <1>11 DEF Exchange, Distinct
  <2>2. t.pollSent /\ t.pollAckReceived
    BY <1>2, <1>7, <1>8, <2>1
  <2>3. sent[a] # "POLL_ACK"
    BY <1>3, <1>5 DEF PairInv, OneAir
  <2>4. known[a].pollReceived /\ known[a].pollAckSent
    BY <1>3, <1>8, <1>11, <2>3 DEF Answered
  <2>5. q = "right"
    BY <1>2, <2>2, <2>4
  <2> QED BY <1>1, <1>3, <2>5 DEF PairTypes
<1> QED BY <1>4, <1>6, <1>7, <1>9, <1>10, <1>11

(* No other step makes a range wrong.                                      *)
LEMMA RangesMove ==
  ASSUME PairInv, [Pair!Next]_(Pair!vars), NEW a \in Anchors,
         ranges'[a] = "wrong", ranges[a] # "wrong"
  PROVE  Pair!AnchorRange(a)
<1> USE PairFacts
<1>1. PairTypes
  BY DEF PairInv
<1>2. ASSUME NEW z \in Anchors, Pair!AnchorRange(z)
      PROVE  z = a
  BY <1>2, RangeOfLast
<1>3. ASSUME Pair!TickPoll
      PROVE  FALSE
  BY <1>3 DEF Pair!TickPoll, Pair!NewExchange
<1>4. ASSUME NEW z \in Anchors, Pair!AnchorRestarts(z)
      PROVE  FALSE
  BY <1>1, <1>4 DEF Pair!AnchorRestarts, PairTypes
<1>5. ASSUME NEW z \in Anchors,
             Pair!AnchorSent(z) \/ Pair!AnchorCheck(z) \/ Pair!AnchorReset(z)
             \/ Pair!AnchorBlink(z) \/ Pair!AnchorPoll(z) \/ Pair!AnchorNotListed(z)
             \/ Pair!AnchorIgnores(z)
      PROVE  FALSE
  BY <1>5 DEF Pair!AnchorSent, Pair!AnchorCheck, Pair!AnchorReset, Pair!AnchorBlink, Pair!AnchorPoll,
              Pair!AnchorNotListed, Pair!AnchorIgnores, Pair!anchorVars
<1>6. ASSUME UNCHANGED Pair!vars \/ Pair!TickBlink \/ Pair!TickIdle \/ Pair!TagSent
             \/ Pair!TagRangingInit \/ Pair!TagPollAck \/ Pair!TagRangeReport \/ Pair!TagIgnores
             \/ Pair!TagRestarts \/ Pair!CalmDown \/ \E n \in Module : Pair!Air(n)
      PROVE  FALSE
  BY <1>6 DEF Pair!vars, Pair!TickBlink, Pair!TickIdle, Pair!TagSent, Pair!TagRangingInit,
              Pair!TagPollAck, Pair!TagRangeReport, Pair!TagIgnores, Pair!TagRestarts, Pair!CalmDown,
              Pair!Air, Pair!anchorVars
<1> QED BY <1>2, <1>3, <1>4, <1>5, <1>6
        DEF Pair!Next, Pair!Tick, Pair!TagReceived, Pair!AnchorReceived, Module

(* No step makes the range of the last device wrong.                       *)
LEMMA LastRangeRight ==
  ASSUME PairInv, [Pair!Next]_(Pair!vars), NEW a \in Anchors,
         ranges'[a] = "wrong", ranges[a] # "wrong"
  PROVE  devices = <<>> \/ devices[Len(devices)].addr # a
<1>1. PICK l : /\ Exchange(l) /\ \E i \in 1 .. Len(l) : l[i].addr = a
               /\ l[Len(l)].addr = a => ranges'[a] \in {ranges[a], "right"}
  BY RangesMove, RangeOfLast
<1>2. l[Len(l)].addr # a /\ Len(l) \in Nat /\ Len(l) # 0
  BY <1>1 DEF Exchange
<1> QED BY <1>1, <1>2 DEF Exchange, SameDevices

(* With one anchor, every device is the last.                              *)
LEMMA OneAnchorRight ==
  ASSUME PairInv, [Pair!Next]_(Pair!vars), Cardinality(Anchors) = 1, Pair!OneExchange
  PROVE  Pair!OneExchange'
<1> SUFFICES ASSUME NEW a \in Anchors, ranges'[a] = "wrong"
             PROVE  FALSE
  BY DEF Pair!OneExchange
<1>1. ranges[a] # "wrong"
  BY DEF Pair!OneExchange
<1>2. PICK l : /\ Exchange(l) /\ \E i \in 1 .. Len(l) : l[i].addr = a
               /\ l[Len(l)].addr = a => ranges'[a] \in {ranges[a], "right"}
  BY <1>1, RangesMove, RangeOfLast
<1>3. Len(l) \in Nat /\ Len(l) <= 1
  BY <1>2 DEF Exchange
<1>4. PICK i : i \in 1 .. Len(l) /\ l[i].addr = a
  BY <1>2
<1>5. i = Len(l)
  BY <1>3, <1>4
<1> QED BY <1>1, <1>2, <1>4, <1>5

(* Whatever is lost and whichever module restarts, with any number of      *)
(* anchors: the answers to a poll are never due at the same moment, and    *)
(* the range with the last device of the table is computed from the times  *)
(* of one exchange; with one anchor every range is.                        *)
THEOREM PairDoesRange == Pair!Spec => PairRanges
<1>1. PairInv /\ [Pair!Next]_(Pair!vars) =>
        (\A a \in Anchors : ranges'[a] = "wrong" /\ ranges[a] # "wrong" =>
           devices = <<>> \/ devices[Len(devices)].addr # a)
  BY LastRangeRight
<1>2. Pair!Init => (Cardinality(Anchors) = 1 => Pair!OneExchange)
  BY DEF Pair!Init, Pair!OneExchange
<1>3. PairInv /\ [Pair!Next]_(Pair!vars) /\ (Cardinality(Anchors) = 1 => Pair!OneExchange)
        => (Cardinality(Anchors) = 1 => Pair!OneExchange)'
  BY OneAnchorRight
<1> QED BY PairInit, PairStep, PairTyped, PairApart, <1>1, <1>2, <1>3, PTL
        DEF Pair!Spec, PairRanges, Pair!LastIsRight
=============================================================================
