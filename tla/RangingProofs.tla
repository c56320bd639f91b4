---------------------------- MODULE RangingProofs ---------------------------
(***************************************************************************)
(* The two-way ranging, for every number of devices, every network, and    *)
(* all timings and widths that the assumptions allow, in three parts: the  *)
(* arithmetic of Timestamps, the steps of Ranging (types, frames, masks),  *)
(* and its safety: IInv is inductive, and each property follows from it.   *)
(***************************************************************************)
EXTENDS Ranging, TLAPS

----------------------------------------------------------------------------
(* Arithmetic.  The provers know little of division by a variable, so each *)
(* fact is led back to a quotient and a remainder, which are unique.       *)

(* Quotient and remainder.                                                 *)
LEMMA DivMod ==
  ASSUME NEW a \in Int, NEW n \in Nat \ {0}
  PROVE  /\ a % n \in 0 .. n - 1
         /\ a \div n \in Int
         /\ a = n * (a \div n) + (a % n)
  BY SMT

(* There is only one of each.                                              *)
LEMMA ModUnique ==
  ASSUME NEW q \in Int, NEW n \in Nat \ {0}, NEW r \in 0 .. n - 1
  PROVE  (n * q + r) % n = r /\ (n * q + r) \div n = q
  BY SMT

(* The remainder of a number between -n and n.                             *)
LEMMA SmallMod ==
  ASSUME NEW a \in Int, NEW n \in Nat \ {0}, -n <= a, a < n
  PROVE  a % n = IF a >= 0 THEN a ELSE a + n
<1>1. CASE a >= 0
  BY <1>1, SMT
<1>2. CASE a < 0
  <2>1. n * (-1) + (a + n) = a /\ a + n \in 0 .. n - 1 /\ -1 \in Int
    BY <1>2
  <2> DEFINE r == a + n
  <2> HIDE DEF r
  <2>2. (n * (-1) + r) % n = r
    BY <2>1, ModUnique DEF r
  <2> QED BY <1>2, <2>1, <2>2 DEF r
<1> QED BY <1>1, <1>2

(* Multiples of the modulus do not change the remainder.                   *)
LEMMA ModShift ==
  ASSUME NEW a \in Int, NEW k \in Int, NEW n \in Nat \ {0}
  PROVE  (a + n * k) % n = a % n
<1> DEFINE q == a \div n
           r == a % n
<1>1. r \in 0 .. n - 1 /\ q \in Int /\ a = n * q + r
  BY DivMod
<1>2. a + n * k = n * (q + k) + r
  BY <1>1, SMT
<1>3. (n * (q + k) + r) % n = r
  <2> HIDE DEF q, r
  <2> QED BY <1>1, ModUnique
<1> QED BY <1>2, <1>3

(* Reducing modulo a multiple first does not change the remainder.         *)
LEMMA ModOfMod ==
  ASSUME NEW a \in Int, NEW n \in Nat \ {0}, NEW s \in Nat \ {0}, n % s = 0
  PROVE  (a % n) % s = a % s
<1> DEFINE q == a \div n
           r == a % n
           k == n \div s
<1>1. r \in 0 .. n - 1 /\ q \in Int /\ a = n * q + r
  BY DivMod
<1>2. k \in Int /\ n = s * k
  BY DivMod
<1>3. k * q \in Int /\ n * q = s * (k * q)
  <2> HIDE DEF q, k
  <2> QED BY <1>1, <1>2, SMT
<1>4. a = r + s * (k * q)
  <2> HIDE DEF q, k, r
  <2> QED BY <1>1, <1>3, SMT
<1>5. (r + s * (k * q)) % s = r % s
  <2> DEFINE j == k * q
  <2>1. r \in Int /\ j \in Int
    <3> HIDE DEF q, k, r
    <3> QED BY <1>1, <1>3
  <2> HIDE DEF j, r
  <2>2. (r + s * j) % s = r % s
    BY <2>1, ModShift
  <2> QED BY <2>2 DEF j
<1> QED BY <1>4, <1>5

(* Reducing the operands first does not change a difference modulo n.      *)
LEMMA ModOfDifference ==
  ASSUME NEW a \in Int, NEW b \in Int, NEW n \in Nat \ {0}
  PROVE  ((a % n) - (b % n)) % n = (a - b) % n
<1> DEFINE p == a \div n
           q == b \div n
           x == a % n
           y == b % n
<1>1. x \in 0 .. n - 1 /\ p \in Int /\ a = n * p + x
  BY DivMod
<1>2. y \in 0 .. n - 1 /\ q \in Int /\ b = n * q + y
  BY DivMod
<1>3. a - b = (x - y) + n * (p - q)
  <2> HIDE DEF p, q, x, y
  <2> QED BY <1>1, <1>2, SMT
<1>4. ((x - y) + n * (p - q)) % n = (x - y) % n
  <2> DEFINE d == x - y
             j == p - q
  <2>1. d \in Int /\ j \in Int
    <3> HIDE DEF p, q, x, y
    <3> QED BY <1>1, <1>2
  <2> HIDE DEF d, j
  <2>2. (d + n * j) % n = d % n
    BY <2>1, ModShift
  <2> QED BY <2>2 DEF d, j
<1> QED BY <1>3, <1>4

-----------------------------------------------------------------------------
(* The difference of two 32-bit stamps is the time between them, when that *)
(* is less than half the range of a stamp and the stamps were taken in the *)
(* order of the subtraction, wherever the counter has wrapped.             *)
LEMMA SignedDiffIsElapsed ==
  ASSUME NEW s \in Int, NEW t \in Int, NEW offset \in Int,
         0 <= t - s, t - s < StampMod \div 2
  PROVE  SignedDiff(Lo32((t + offset) % ClockMod), Lo32((s + offset) % ClockMod)) = t - s
<1> USE WidthAssumption
<1> DEFINE a == t + offset
           b == s + offset
<1>0. a \in Int /\ b \in Int
  OBVIOUS
<1>1. (a % ClockMod) % StampMod = a % StampMod
  BY <1>0, ModOfMod
<1>2. (b % ClockMod) % StampMod = b % StampMod
  BY <1>0, ModOfMod
<1>3. ((a % StampMod) - (b % StampMod)) % StampMod = (a - b) % StampMod
  BY <1>0, ModOfDifference
<1>4. a - b = t - s
  OBVIOUS
<1>5. (t - s) % StampMod = t - s
  <2>1. t - s \in 0 .. StampMod - 1
    BY SMT
  <2>2. StampMod * 0 + (t - s) = t - s
    OBVIOUS
  <2> QED BY <2>1, <2>2, ModUnique
<1> QED BY <1>1, <1>2, <1>3, <1>4, <1>5 DEF SignedDiff, Lo32

(* The chip starts a programmed transmission at the requested time, or     *)
(* less than two units of programming before it, counted modulo ClockMod.  *)
LEMMA ChipStartRoundsDown ==
  ASSUME NEW rx40 \in Int, NEW delay \in Int
  PROVE  \E r \in 0 .. 2 * DxUnit - 1, k \in Int :
           ChipStart(RespTxTime(rx40, delay)) = (rx40 + delay - r) + ClockMod * k
<1> DEFINE u == DxUnit
           a == rx40 + delay
           h == ClockMod \div (2 * u)
           b == a \div u
           low == a % u
           n == 2 * h
           j == b \div n
           t == b % n
           c == t \div 2
           p == t % 2
<1>1. u \in Nat \ {0} /\ ClockMod \in Nat \ {0} /\ ClockMod % (2 * u) = 0 /\ a \in Int
  BY WidthAssumption DEF WidthAssumption
<1>2. h \in Int /\ ClockMod = (2 * u) * h
  <2> HIDE DEF a, u
  <2>1. 2 * u \in Nat \ {0}
    BY <1>1
  <2> DEFINE m == 2 * u
  <2>2. h \in Int /\ ClockMod = m * (ClockMod \div m) + (ClockMod % m)
    <3> HIDE DEF m
    <3>1. m \in Nat \ {0}
      BY <2>1 DEF m
    <3>2. ClockMod \div m \in Int /\ ClockMod = m * (ClockMod \div m) + (ClockMod % m)
      BY <1>1, <3>1, DivMod
    <3> QED BY <3>2 DEF m
  <2> QED BY <1>1, <2>2, SMT
<1>3. ClockMod = u * n /\ n \in Nat \ {0}
  <2> HIDE DEF a, u, h
  <2>1. ClockMod = u * n
    BY <1>1, <1>2, SMT
  <2>2. h > 0
    BY <1>1, <1>2, SMT
  <2> QED BY <1>2, <2>1, <2>2
<1>4. ClockMod \div u = n
  <2> HIDE DEF a, u, h
  <2>1. n \in Int /\ 0 \in 0 .. u - 1 /\ u * n + 0 = ClockMod
    BY <1>1, <1>3
  <2> HIDE DEF n
  <2>2. (u * n + 0) \div u = n
    BY <1>1, <2>1, ModUnique
  <2> QED BY <2>1, <2>2
<1>5. b \in Int /\ low \in 0 .. u - 1 /\ a = u * b + low
  BY <1>1, DivMod
<1>6. j \in Int /\ t \in 0 .. n - 1 /\ b = n * j + t
  <2> HIDE DEF a, b, h, n, u
  <2> QED BY <1>3, <1>5, DivMod
<1>7. c \in Int /\ p \in 0 .. 1 /\ t = 2 * c + p
  <2> HIDE DEF t, n
  <2> QED BY <1>6, SMT
<1>8. ChipStart(RespTxTime(rx40, delay)) = (c * 2) * u
  BY <1>4 DEF ChipStart, RespTxTime
<1> DEFINE r == u * p + low
<1>9. r \in 0 .. 2 * u - 1
  <2> HIDE DEF low, p, u
  <2>1. CASE p = 0
    BY <2>1, <1>1, <1>5, SMT
  <2>2. CASE p = 1
    BY <2>2, <1>1, <1>5, SMT
  <2> QED BY <2>1, <2>2, <1>7
<1>10. (c * 2) * u = (a - r) + ClockMod * (-j)
  <2> HIDE DEF a, b, low, n, j, t, c, p, u
  <2>1. u * (n * j) = (u * n) * j
    BY <1>1, <1>3, <1>6, SMT
  <2>2. a = u * (n * j) + u * (2 * c) + u * p + low
    BY <1>1, <1>3, <1>5, <1>6, <1>7, SMT
  <2> QED BY <1>1, <1>3, <1>5, <1>6, <1>7, <2>1, <2>2, SMT DEF r
<1>11. -j \in Int
  BY <1>6
<1> QED
  <2> HIDE DEF a, b, low, n, j, t, c, p, u, r
  <2>1. ChipStart(RespTxTime(rx40, delay)) = (a - r) + ClockMod * (-j)
    BY <1>8, <1>10
  <2>2. ChipStart(RespTxTime(rx40, delay)) = ((rx40 + delay) - r) + ClockMod * (-j)
    BY <2>1 DEF a
  <2>3. r \in 0 .. 2 * DxUnit - 1
    BY <1>9 DEF u
  <2> QED BY <1>11, <2>2, <2>3

(* The stamp put in a response is the time the chip starts to send it,     *)
(* plus the antenna delay.                                                 *)
LEMMA StampIsChipStart ==
  ASSUME NEW time \in Int, NEW antennaDelay \in Int
  PROVE  RespTxStamp(time, antennaDelay) = ChipStart(time) + antennaDelay
<1>1. time - (time % 2) = (time \div 2) * 2
  BY SMT
<1> QED BY <1>1 DEF RespTxStamp, ChipStart

(* resp_tx_time is an integer.                                             *)
LEMMA RespTxTimeType ==
  ASSUME NEW rx40 \in Int, NEW delay \in Int
  PROVE  RespTxTime(rx40, delay) \in Int
<1>1. DxUnit \in Nat \ {0} /\ ClockMod \in Nat \ {0} /\ ClockMod % (2 * DxUnit) = 0
  BY WidthAssumption DEF WidthAssumption
<1>2. (rx40 + delay) \div DxUnit \in Int
  BY <1>1, DivMod
<1>3. ClockMod \div DxUnit \in Nat \ {0}
  <2>1. ClockMod \div DxUnit \in Int /\ ClockMod % DxUnit \in 0 .. DxUnit - 1
        /\ ClockMod = DxUnit * (ClockMod \div DxUnit) + (ClockMod % DxUnit)
    BY <1>1, DivMod
  <2>2. ClockMod >= DxUnit
    <3> DEFINE m == 2 * DxUnit
    <3>1. m \in Nat \ {0}
      BY <1>1
    <3>2. ClockMod % m = 0
      BY <1>1
    <3> HIDE DEF m
    <3>3. ClockMod \div m \in Int /\ ClockMod = m * (ClockMod \div m)
      BY <1>1, <3>1, <3>2, DivMod, SMT
    <3>4. ClockMod >= m
      BY <1>1, <3>1, <3>3, SMT
    <3> QED BY <1>1, <3>4 DEF m
  <2> QED BY <1>1, <2>1, <2>2, SMT
<1> QED BY <1>2, <1>3, DivMod DEF RespTxTime

(* At the time t, for a poll received at h, a response is programmed and   *)
(* found by the chip not to be late.                                       *)
Armed(h, t, offset, delay, latency, antennaDelay, time, lead) ==
  /\ h \in Int /\ t \in Int /\ offset \in Int
  /\ delay \in Nat /\ latency \in Nat /\ antennaDelay \in Int
  /\ h <= t /\ t <= h + latency
  /\ delay + latency + 2 * DxUnit < ClockMod \div 2
  /\ time = RespTxTime((h + offset) % ClockMod, delay)
  /\ lead = (ChipStart(time) - ((t + offset) % ClockMod)) % ClockMod
  /\ lead # 0 /\ lead < ClockMod \div 2

(* It starts after t, at most delay after h, and is emitted when its stamp *)
(* says.                                                                   *)
LEMMA DelayedStart ==
  ASSUME NEW h, NEW t, NEW offset, NEW delay, NEW latency, NEW antennaDelay, NEW time, NEW lead,
         Armed(h, t, offset, delay, latency, antennaDelay, time, lead)
  PROVE  /\ lead \in Nat
         /\ t < t + lead
         /\ t + lead <= h + delay
         /\ Lo32(RespTxStamp(time, antennaDelay))
              = Lo32((t + lead + antennaDelay + offset) % ClockMod)
<1>h. /\ h \in Int /\ t \in Int /\ offset \in Int
      /\ delay \in Nat /\ latency \in Nat /\ antennaDelay \in Int
      /\ h <= t /\ t <= h + latency
      /\ delay + latency + 2 * DxUnit < ClockMod \div 2
      /\ time = RespTxTime((h + offset) % ClockMod, delay)
      /\ lead = (ChipStart(time) - ((t + offset) % ClockMod)) % ClockMod
      /\ lead # 0 /\ lead < ClockMod \div 2
  BY DEF Armed
<1> USE <1>h
<1> DEFINE x == (h + offset) % ClockMod
           y == (t + offset) % ClockMod
           p == (h + offset) \div ClockMod
           q == (t + offset) \div ClockMod
<1>1. ClockMod \in Nat \ {0} /\ DxUnit \in Nat \ {0} /\ StampMod \in Nat \ {0} /\ ClockMod % StampMod = 0
  BY WidthAssumption DEF WidthAssumption
<1> DEFINE a == h + offset
           b == t + offset
<1>0. a \in Int /\ b \in Int
  OBVIOUS
<1>2. x \in 0 .. ClockMod - 1 /\ p \in Int /\ h + offset = ClockMod * p + x
  <2> HIDE DEF a
  <2>1. /\ a % ClockMod \in 0 .. ClockMod - 1 /\ a \div ClockMod \in Int
        /\ a = ClockMod * (a \div ClockMod) + (a % ClockMod)
    BY <1>0, <1>1, DivMod
  <2> QED BY <2>1 DEF a
<1>3. y \in 0 .. ClockMod - 1 /\ q \in Int /\ t + offset = ClockMod * q + y
  <2> HIDE DEF b
  <2>1. /\ b % ClockMod \in 0 .. ClockMod - 1 /\ b \div ClockMod \in Int
        /\ b = ClockMod * (b \div ClockMod) + (b % ClockMod)
    BY <1>0, <1>1, DivMod
  <2> QED BY <2>1 DEF b
<1>4. PICK r \in 0 .. 2 * DxUnit - 1, k \in Int :
        ChipStart(time) = (x + delay - r) + ClockMod * k
  <2>1. x \in Int /\ delay \in Int /\ time = RespTxTime(x, delay)
    BY <1>1, <1>2
  <2> HIDE DEF x
  <2>2. \E r \in 0 .. 2 * DxUnit - 1, k \in Int :
          ChipStart(RespTxTime(x, delay)) = (x + delay - r) + ClockMod * k
    BY <2>1, ChipStartRoundsDown, Zenon
  <2> QED BY <2>1, <2>2, Zenon
<1> DEFINE start == h + delay - r
           ahead == start - t
<1>5. start \in Int /\ ahead \in Int
  BY <1>1
<1>6. /\ k - p + q \in Int /\ k - p \in Int
      /\ ChipStart(time) - y = ahead + ClockMod * (k - p + q)
      /\ ChipStart(time) = start + offset + ClockMod * (k - p)
  <2> HIDE DEF x, y, p, q
  <2>1. /\ ClockMod * (k - p) = ClockMod * k - ClockMod * p
        /\ ClockMod * (k - p + q) = ClockMod * k - ClockMod * p + ClockMod * q
    BY <1>1, <1>2, <1>3, SMT
  <2> DEFINE ck == ClockMod * k
             cp == ClockMod * p
             cq == ClockMod * q
  <2>2. /\ ck \in Int /\ cp \in Int /\ cq \in Int
        /\ ChipStart(time) = (x + delay - r) + ck
        /\ h + offset = cp + x
        /\ t + offset = cq + y
    BY <1>1, <1>2, <1>3, <1>4
  <2> HIDE DEF ck, cp, cq
  <2>3. x \in Int /\ y \in Int /\ r \in Int
    BY <1>1, <1>2, <1>3
  <2> DEFINE chip == ChipStart(time)
  <2>4. chip = (x + delay - r) + ck
    BY <2>2
  <2> HIDE DEF chip
  <2>5. chip = start + offset + (ck - cp)
    BY <2>2, <2>3, <2>4
  <2>6. chip - y = ahead + (ck - cp + cq)
    BY <2>2, <2>3, <2>5
  <2> QED BY <1>2, <1>3, <2>1, <2>5, <2>6 DEF ck, cp, cq, chip
<1>7. lead = ahead % ClockMod
  <2> DEFINE j == k - p + q
  <2>1. j \in Int
    BY <1>6
  <2> HIDE DEF j, ahead
  <2>2. (ahead + ClockMod * j) % ClockMod = ahead % ClockMod
    BY <1>1, <1>5, <2>1, ModShift, ZenonT(60)
  <2> QED BY <1>6, <2>2 DEF j
<1>8. -(ClockMod \div 2) < ahead /\ ahead < ClockMod \div 2
  <2> QED BY <1>1, SMT
<1>9. lead = ahead /\ ahead > 0
  <2> HIDE DEF ahead, start
  <2>0. -ClockMod <= ahead /\ ahead < ClockMod
    BY <1>1, <1>5, <1>8
  <2>m. ahead % ClockMod = IF ahead >= 0 THEN ahead ELSE ahead + ClockMod
    BY <1>1, <1>5, <2>0, SmallMod
  <2>1. CASE ahead >= 0
    BY <1>5, <1>7, <2>1, <2>m
  <2>2. CASE ahead < 0
    <3>1. lead = ahead + ClockMod
      BY <1>5, <1>7, <2>2, <2>m
    <3> QED BY <1>1, <1>5, <1>8, <3>1, SMT
  <2> QED BY <1>5, <2>1, <2>2
<1>10. lead \in Nat /\ t < t + lead /\ t + lead <= h + delay
  BY <1>1, <1>5, <1>9
<1>11. time \in Int
  <2>1. x \in Int
    BY <1>1, <1>2
  <2> HIDE DEF x
  <2> QED BY <2>1, RespTxTimeType DEF x
<1> DEFINE sent == start + antennaDelay + offset
<1>12. sent \in Int /\ sent = t + lead + antennaDelay + offset
  BY <1>5, <1>9
<1>13. RespTxStamp(time, antennaDelay) = sent + ClockMod * (k - p)
  <2> DEFINE j == ClockMod * (k - p)
  <2>1. j \in Int
    BY <1>1, <1>6
  <2>2. RespTxStamp(time, antennaDelay) = (start + offset + j) + antennaDelay
    BY <1>6, <1>11, StampIsChipStart
  <2> HIDE DEF j, start
  <2>3. (start + offset + j) + antennaDelay = (start + antennaDelay + offset) + j
    BY <1>5, <2>1
  <2> QED BY <2>2, <2>3 DEF j
<1>14. (sent + ClockMod * (k - p)) % StampMod = sent % StampMod
  <2> DEFINE w == ClockMod \div StampMod
             j == k - p
  <2>1. w \in Int /\ ClockMod = StampMod * w
    <3> QED BY <1>1, DivMod
  <2>2. j \in Int /\ w * j \in Int /\ ClockMod * j = StampMod * (w * j)
    <3>1. j \in Int
      BY <1>6
    <3> HIDE DEF w, j
    <3> QED BY <1>1, <2>1, <3>1, SMT
  <2> DEFINE v == w * j
  <2>3. v \in Int
    BY <2>2
  <2> HIDE DEF v, sent
  <2>4. (sent + StampMod * v) % StampMod = sent % StampMod
    BY <1>1, <1>12, <2>3, ModShift
  <2> QED BY <2>2, <2>4 DEF v
<1>15. (sent % ClockMod) % StampMod = sent % StampMod
  <2> HIDE DEF sent
  <2> QED BY <1>1, <1>12, ModOfMod, ZenonT(60)
<1> QED
  <2> HIDE DEF sent, start, ahead, x, y, p, q
  <2> QED BY <1>10, <1>12, <1>13, <1>14, <1>15 DEF Lo32

----------------------------------------------------------------------------
(* The types of the constants, and of each step.                           *)

(* The constants, with the types the provers need.                         *)
LEMMA ConstantTypes ==
  /\ ClockMod \in Nat \ {0} /\ StampMod \in Nat \ {0} /\ DxUnit \in Nat \ {0}
  /\ SeqMod \in Nat \ {0} /\ FwtoMod \in Nat \ {0}
  /\ Offset \in [Device -> Nat]
  /\ Flight \in [Device -> [Device -> Nat]]
  /\ AntennaDelay \in Nat /\ PollTxToRespRx \in Nat /\ PollRxToRespTx \in Nat
  /\ CommandGap \in Nat /\ MaxLatency \in Nat
  /\ TimeoutUus \subseteq Nat /\ ForeignLen \subseteq Nat /\ ForeignPan \notin Pan
  BY WidthAssumption, RangingAssumption DEF WidthAssumption, RangingAssumption

LEMMA StampType ==
  ASSUME NEW x \in Int
  PROVE  Lo32(x) \in 0 .. StampMod - 1
  BY ConstantTypes, DivMod DEF Lo32

LEMMA ClockType ==
  ASSUME NEW d \in Device, NEW t \in Int
  PROVE  Clock(d, t) \in Int
<1> DEFINE x == t + Offset[d]
<1>1. x \in Int
  BY ConstantTypes
<1> HIDE DEF x
<1>2. x % ClockMod \in 0 .. ClockMod - 1
  BY <1>1, ConstantTypes, DivMod
<1> QED BY <1>2, ConstantTypes DEF Clock, x

LEMMA RoundTripType ==
  ASSUME NEW a \in Int, NEW b \in Int, NEW c \in Int, NEW d \in Int
  PROVE  RoundTrip(a, b, c, d) \in Int
<1>1. \A x, y \in Int : SignedDiff(x, y) \in Int
  BY StampType, ConstantTypes DEF SignedDiff
<1> QED BY <1>1 DEF RoundTrip

LEMMA FrameWaitType ==
  ASSUME NEW timeout \in Nat
  PROVE  FrameWait(timeout) \in Nat
  BY ConstantTypes, DivMod DEF FrameWait

-----------------------------------------------------------------------------
(* Types.                                                                  *)
LEMMA PollType ==
  ASSUME NEW pan \in Pan \union {ForeignPan}, NEW dst \in Device, NEW src \in Device,
         NEW s \in 0 .. SeqMod - 1, NEW t \in Nat
  PROVE  Poll(pan, dst, src, s, t) \in Frame
  BY ConstantTypes DEF Poll, Frame

LEMMA RespType ==
  ASSUME NEW pan \in Pan \union {ForeignPan}, NEW dst \in Device, NEW src \in Device,
         NEW s \in 0 .. SeqMod - 1, NEW t \in Nat,
         NEW prx \in 0 .. StampMod - 1, NEW rtx \in 0 .. StampMod - 1
  PROVE  Resp(pan, dst, src, s, prx, rtx, t) \in Frame
  BY ConstantTypes DEF Resp, Frame

LEMMA BlankType ==
  ASSUME NEW d \in Device
  PROVE  Blank(d) \in Frame
  BY ConstantTypes, PollType DEF Blank

LEMMA ForeignType ==
  ASSUME NEW d \in Device, NEW f \in ForeignFrames(d)
  PROVE  f \in Frame /\ f.pan = ForeignPan
  BY ConstantTypes DEF ForeignFrames, Frame

LEMMA CopiesType ==
  ASSUME NEW d \in Device, NEW f \in Frame, NEW t \in Nat
  PROVE  Copies(d, f, t) \subseteq [to : Device, at : Nat, frame : Frame]
  BY ConstantTypes DEF Copies

(* The initial states have the types.                                      *)
LEMMA InitType == Init => TypeOK
  BY ConstantTypes, BlankType DEF Init, TypeOK, NoCmd, NoRet, Error, StatusBit

LEMMA ReturnType ==
  ASSUME TypeOK, NEW d \in Device, NEW op \in {"initiate", "listen"},
         NEW peer \in Device, NEW err \in Error, NEW rtt \in Int,
         Return(d, op, peer, err, rtt)
  PROVE  (pc \in [Device -> {"idle", "poll", "listen", "respond"}])'
         /\ (cmd \in [Device -> [pan : Pan \union {ForeignPan}, peer : Device, timeout : Nat]])'
         /\ (rest \in [Device -> Nat])'
         /\ (ret \in [Device -> [op : {"none", "initiate", "listen"}, err : Error,
                        peer : Device, rtt : Int]])'
  BY ConstantTypes DEF TypeOK, Return, NoCmd

LEMMA BumpSeqType ==
  ASSUME TypeOK, NEW d \in Device, BumpSeq(d)
  PROVE  (seq \in [Device -> 0 .. SeqMod - 1])'
<1>1. seq[d] + 1 \in Int
  BY ConstantTypes DEF TypeOK
<1>2. (seq[d] + 1) % SeqMod \in 0 .. SeqMod - 1
  BY <1>1, ConstantTypes, DivMod
<1> QED BY <1>2 DEF TypeOK, BumpSeq

LEMMA SwitchOffType ==
  ASSUME TypeOK, NEW d \in Device, NEW bit \in StatusBit, SwitchOff(d, bit)
  PROVE  /\ (radio \in [Device -> {"off", "rx", "dtx"}])'
         /\ (on \in [Device -> Nat])'
         /\ (until \in [Device -> Nat])'
         /\ (status \in [Device -> SUBSET StatusBit])'
  BY DEF TypeOK, SwitchOff

LEMMA ReceiveType ==
  ASSUME TypeOK, NEW d \in Device, NEW f \in Frame, Receive(d, f)
  PROVE  /\ (radio \in [Device -> {"off", "rx", "dtx"}])'
         /\ (on \in [Device -> Nat])'
         /\ (until \in [Device -> Nat])'
         /\ (status \in [Device -> SUBSET StatusBit])'
         /\ (rxBuf \in [Device -> Frame])'
         /\ (rxAt \in [Device -> Nat])'
<1>1. "RXFCG" \in StatusBit /\ "RXERR" \in StatusBit
  BY DEF StatusBit
<1>2. CASE SwitchOff(d, "RXFCG") /\ rxBuf' = [rxBuf EXCEPT ![d] = f]
           /\ rxAt' = [rxAt EXCEPT ![d] = now]
  <2>1. (rxBuf \in [Device -> Frame])' /\ (rxAt \in [Device -> Nat])'
    BY <1>2 DEF TypeOK
  <2> QED BY <1>1, <1>2, <2>1, SwitchOffType
<1>3. CASE SwitchOff(d, "RXERR") /\ UNCHANGED <<rxBuf, rxAt>>
  <2>1. (rxBuf \in [Device -> Frame])' /\ (rxAt \in [Device -> Nat])'
    BY <1>3 DEF TypeOK
  <2> QED BY <1>1, <1>3, <2>1, SwitchOffType
<1> QED BY <1>2, <1>3 DEF Receive

(* Every step keeps the types: the radio's steps first.                    *)
LEMMA RadioTypes ==
  ASSUME TypeOK,
         \/ Tick
         \/ \E m \in air : Arrive(m)
         \/ \E d \in Device : Radio(d)
  PROVE  TypeOK'
<1>1. CASE Tick
  <2>1. (now \in Nat)' /\ (rest \in [Device -> Nat])'
    <3> DEFINE left(d) == IF rest[d] = 0 THEN 0 ELSE rest[d] - 1
    <3>1. \A d \in Device : left(d) \in Nat
      BY DEF TypeOK
    <3>2. rest' = [d \in Device |-> left(d)] /\ now' = now + 1
      BY <1>1 DEF Tick
    <3> HIDE DEF left
    <3> QED BY <3>1, <3>2 DEF TypeOK
  <2>2. UNCHANGED <<air, radio, on, until, status, txAt, rxAt, txBuf, rxBuf, pc, cmd, seq, ret>>
    BY <1>1 DEF Tick, radioVars
  <2> QED BY <2>1, <2>2 DEF TypeOK
<1>2. CASE \E m \in air : Arrive(m)
  <2>1. PICK m \in air : Arrive(m)
    BY <1>2
  <2>2. m.to \in Device /\ m.frame \in Frame
    BY DEF TypeOK
  <2>3. CASE Receive(m.to, m.frame)
    BY <2>1, <2>2, <2>3, ReceiveType DEF Arrive, TypeOK, taskVars
  <2>4. CASE UNCHANGED <<radio, on, until, status, rxBuf, rxAt>>
    BY <2>1, <2>4 DEF Arrive, TypeOK, taskVars
  <2> QED BY <2>1, <2>3, <2>4 DEF Arrive
<1>3. ASSUME NEW d \in Device, Interfere(d)
      PROVE  TypeOK'
  <2>1. PICK f \in ForeignFrames(d) : Receive(d, f)
    BY <1>3 DEF Interfere
  <2>2. f \in Frame
    BY ForeignType
  <2> QED BY <1>3, <2>1, <2>2, ReceiveType DEF Interfere, TypeOK, taskVars
<1>4. ASSUME NEW d \in Device, RxTimeout(d)
      PROVE  TypeOK'
  <2>1. "RXTO" \in StatusBit /\ SwitchOff(d, "RXTO")
    BY <1>4 DEF StatusBit, RxTimeout
  <2> QED BY <1>4, <2>1, SwitchOffType DEF RxTimeout, TypeOK, taskVars
<1>5. ASSUME NEW d \in Device, DelayedTx(d)
      PROVE  TypeOK'
  <2>1. "TXFRS" \in StatusBit /\ SwitchOff(d, "TXFRS")
    BY <1>5 DEF StatusBit, DelayedTx
  <2>2. Copies(d, txBuf[d], now + AntennaDelay)
          \subseteq [to : Device, at : Nat, frame : Frame]
    <3>1. txBuf[d] \in Frame /\ now + AntennaDelay \in Nat
      BY ConstantTypes DEF TypeOK
    <3> QED BY <3>1, CopiesType
  <2>3. (air \subseteq [to : Device, at : Nat, frame : Frame])'
        /\ (txBuf \in [Device -> Frame])'
    BY <1>5, <2>2, BlankType DEF DelayedTx, TypeOK
  <2> QED BY <1>5, <2>1, <2>3, SwitchOffType DEF DelayedTx, TypeOK, taskVars
<1> QED BY <1>1, <1>2, <1>3, <1>4, <1>5 DEF Radio

LEMMA CommandTypes ==
  ASSUME TypeOK, NEW d \in Device, Command(d)
  PROVE  TypeOK'
<1>1. ASSUME NEW op \in {"initiate", "listen"}, NEW peer \in Device, Refuse(d, op, peer)
      PROVE  TypeOK'
  <2>1. Return(d, op, peer, "InvalidArgument", 0) /\ "InvalidArgument" \in Error
    BY <1>1 DEF Refuse, Error
  <2> QED BY <1>1, <2>1, ReturnType DEF Refuse, TypeOK, radioVars
<1>2. ASSUME NEW peer \in Device, NEW pan \in Pan, NEW timeout \in TimeoutUus,
             Initiate(d, peer, pan, timeout)
      PROVE  TypeOK'
  <2> DEFINE poll == Poll(pan, peer, d, seq[d], now + AntennaDelay)
             open == now + PollTxToRespRx
  <2>1. timeout \in Nat /\ FrameWait(timeout) \in Nat /\ open \in Nat
        /\ now + AntennaDelay \in Nat
    BY ConstantTypes, FrameWaitType DEF TypeOK
  <2>2. poll \in Frame
    BY <2>1, PollType DEF TypeOK
  <2>3. Copies(d, poll, now + AntennaDelay) \subseteq [to : Device, at : Nat, frame : Frame]
    BY <2>1, <2>2, CopiesType
  <2>4. (air \subseteq [to : Device, at : Nat, frame : Frame])'
    BY <1>2, <2>3 DEF Initiate, TypeOK
  <2>5. (status \in [Device -> SUBSET StatusBit])'
    BY <1>2 DEF Initiate, TypeOK, StatusBit
  <2>6. /\ (radio \in [Device -> {"off", "rx", "dtx"}])'
        /\ (on \in [Device -> Nat])'
        /\ (until \in [Device -> Nat])'
        /\ (txAt \in [Device -> Nat])'
    BY <1>2, <2>1 DEF Initiate, TypeOK
  <2>7. /\ (pc \in [Device -> {"idle", "poll", "listen", "respond"}])'
        /\ (cmd \in [Device -> [pan : Pan \union {ForeignPan}, peer : Device, timeout : Nat]])'
        /\ (ret \in [Device -> [op : {"none", "initiate", "listen"}, err : Error,
                        peer : Device, rtt : Int]])'
    BY <1>2, <2>1 DEF Initiate, Begin, TypeOK, NoRet, Error
  <2> QED BY <1>2, <2>4, <2>5, <2>6, <2>7 DEF Initiate, TypeOK
<1>3. ASSUME NEW peer \in Device, NEW pan \in Pan, NEW timeout \in TimeoutUus,
             Listen(d, peer, pan, timeout)
      PROVE  TypeOK'
  <2>1. timeout \in Nat /\ FrameWait(timeout) \in Nat
    BY ConstantTypes, FrameWaitType
  <2>2. /\ (status \in [Device -> SUBSET StatusBit])'
        /\ (radio \in [Device -> {"off", "rx", "dtx"}])'
        /\ (on \in [Device -> Nat])'
        /\ (until \in [Device -> Nat])'
    BY <1>3, <2>1 DEF Listen, TypeOK
  <2>3. /\ (pc \in [Device -> {"idle", "poll", "listen", "respond"}])'
        /\ (cmd \in [Device -> [pan : Pan \union {ForeignPan}, peer : Device, timeout : Nat]])'
        /\ (ret \in [Device -> [op : {"none", "initiate", "listen"}, err : Error,
                        peer : Device, rtt : Int]])'
    BY <1>3, <2>1 DEF Listen, Begin, TypeOK, NoRet, Error
  <2> QED BY <1>3, <2>2, <2>3 DEF Listen, TypeOK
<1> QED BY <1>1, <1>2, <1>3 DEF Command

LEMMA TakeFrameTypes ==
  ASSUME TypeOK, NEW d \in Device, TakeFrame(d)
  PROVE  /\ (status \in [Device -> SUBSET StatusBit])'
         /\ (rxBuf \in [Device -> Frame])'
         /\ (rxAt \in [Device -> Nat])'
  BY BlankType DEF TakeFrame, TypeOK

LEMMA ErrorTypes ==
  ASSUME NEW f, NEW c, NEW d
  PROVE  ResponseError(f, c, d) \in Error /\ PollError(f, c, d) \in Error
  BY DEF ResponseError, PollError, Error

LEMMA PollerTypes ==
  ASSUME TypeOK, NEW d \in Device, Poller(d)
  PROVE  TypeOK'
<1> USE DEF TypeOK
<1>c. cmd[d].peer \in Device /\ cmd[d].pan \in Pan \union {ForeignPan} /\ rxBuf[d] \in Frame
  OBVIOUS
<1>1. CASE InitiateFails(d)
  <2> DEFINE err == IF "RXTO" \in status[d] THEN "UwbResponseRxTimeout" ELSE "UwbResponseRxFailed"
  <2>1. err \in Error
    BY DEF Error
  <2>2. (status \in [Device -> SUBSET StatusBit])' /\ (txAt \in [Device -> Nat])'
    BY <1>1 DEF InitiateFails
  <2>3. Return(d, "initiate", cmd[d].peer, err, 0) /\ BumpSeq(d)
        /\ UNCHANGED <<now, air, radio, on, until, rxAt, txBuf, rxBuf>>
    BY <1>1 DEF InitiateFails
  <2> HIDE DEF err
  <2> QED BY <1>c, <2>1, <2>2, <2>3, ReturnType, BumpSeqType, SMTT(30)
<1>2. CASE InitiateReceives(d)
  <2> DEFINE f == rxBuf[d]
             err == ResponseError(f, cmd[d], d)
             rtt == RoundTrip(Lo32(Clock(d, txAt[d])), Lo32(Clock(d, rxAt[d])),
                              f.pollRx, f.respTx)
  <2>1. Lo32(Clock(d, txAt[d])) \in Int /\ Lo32(Clock(d, rxAt[d])) \in Int
        /\ f.pollRx \in Int /\ f.respTx \in Int
    BY ClockType, StampType, ConstantTypes DEF Frame
  <2>2. rtt \in Int
    BY <2>1, RoundTripType
  <2>3. (IF err = "Ok" THEN rtt ELSE 0) \in Int /\ err \in Error
    BY <2>2, ErrorTypes
  <2> HIDE DEF err, rtt
  <2>4. Return(d, "initiate", cmd[d].peer, err, IF err = "Ok" THEN rtt ELSE 0)
    BY <1>2 DEF InitiateReceives, err, rtt
  <2>5. TakeFrame(d) /\ BumpSeq(d) /\ (txAt \in [Device -> Nat])'
    BY <1>2 DEF InitiateReceives
  <2> QED BY <1>2, <1>c, <2>3, <2>4, <2>5, ReturnType, BumpSeqType, TakeFrameTypes
          DEF InitiateReceives
<1>3. CASE ListenFails(d)
  <2>1. (IF "RXTO" \in status[d] THEN "UwbPollRxTimeout" ELSE "UwbPollRxFailed") \in Error
    BY DEF Error
  <2>2. (status \in [Device -> SUBSET StatusBit])'
    BY <1>3 DEF ListenFails
  <2> QED BY <1>3, <1>c, <2>1, <2>2, ReturnType DEF ListenFails
<1>4. CASE ListenRejects(d)
  <2>1. PollError(rxBuf[d], cmd[d], d) \in Error
    BY ErrorTypes
  <2> QED BY <1>4, <1>c, <2>1, ReturnType, TakeFrameTypes DEF ListenRejects
<1>5. CASE ListenResponds(d)
  <2> DEFINE rx40 == Clock(d, rxAt[d])
             time == RespTxTime(rx40, PollRxToRespTx)
             resp == Resp(cmd[d].pan, cmd[d].peer, d, seq[d], Lo32(rx40),
                          Lo32(RespTxStamp(time, AntennaDelay)), rxBuf[d].exch)
             lead == Lead(d, ChipStart(time))
  <2>1. rx40 \in Int /\ Clock(d, now) \in Int
    BY ClockType
  <2> HIDE DEF rx40
  <2>2. time \in Int
    BY <2>1, RespTxTimeType, ConstantTypes
  <2> HIDE DEF time
  <2>3. ChipStart(time) \in Int /\ RespTxStamp(time, AntennaDelay) \in Int
    BY <2>2, ConstantTypes, StampIsChipStart, DivMod DEF ChipStart
  <2>4. resp \in Frame
    <3>1. Lo32(rx40) \in 0 .. StampMod - 1
          /\ Lo32(RespTxStamp(time, AntennaDelay)) \in 0 .. StampMod - 1
      BY <2>1, <2>3, StampType
    <3>2. rxBuf[d].exch \in Nat
      BY DEF Frame
    <3> QED BY <1>c, <3>1, <3>2, RespType
  <2>5. lead \in Nat
    <3> DEFINE x == ChipStart(time) - Clock(d, now)
    <3>1. x \in Int
      BY <2>1, <2>3
    <3> HIDE DEF x
    <3>2. x % ClockMod \in Nat
      BY <3>1, ConstantTypes, DivMod
    <3> QED BY <3>2 DEF Lead, x
  <2> HIDE DEF resp, lead
  <2>6. /\ (status \in [Device -> SUBSET StatusBit])'
        /\ (rxBuf \in [Device -> Frame])'
        /\ (rxAt \in [Device -> Nat])'
    BY <1>5, BlankType DEF ListenResponds
  <2>7. CASE Return(d, "listen", cmd[d].peer, "UwbResponseTxFailed", 0)
             /\ UNCHANGED <<radio, on, txBuf>>
    <3>1. "UwbResponseTxFailed" \in Error
      BY DEF Error
    <3>2. UNCHANGED <<now, air, until, txAt, seq>>
      BY <1>5, Zenon DEF ListenResponds
    <3>3. /\ (pc \in [Device -> {"idle", "poll", "listen", "respond"}])'
          /\ (cmd \in [Device -> [pan : Pan \union {ForeignPan}, peer : Device, timeout : Nat]])'
          /\ (rest \in [Device -> Nat])'
          /\ (ret \in [Device -> [op : {"none", "initiate", "listen"}, err : Error,
                                  peer : Device, rtt : Int]])'
      BY <1>c, <2>7, <3>1, ReturnType
    <3> QED BY <2>6, <2>7, <3>2, <3>3
  <2>8. CASE /\ txBuf' = [txBuf EXCEPT ![d] = resp]
             /\ radio' = [radio EXCEPT ![d] = "dtx"]
             /\ on' = [on EXCEPT ![d] = now + lead]
             /\ pc' = [pc EXCEPT ![d] = "respond"]
             /\ UNCHANGED <<cmd, ret, rest>>
    BY <1>5, <2>4, <2>5, <2>6, <2>8 DEF ListenResponds
  <2> QED BY <1>5, <2>7, <2>8 DEF ListenResponds, rx40, time, resp, lead
<1>6. CASE ListenDone(d)
  <2>1. "Ok" \in Error
    BY DEF Error
  <2>2. (status \in [Device -> SUBSET StatusBit])'
    BY <1>6 DEF ListenDone
  <2> QED BY <1>6, <1>c, <2>1, <2>2, ReturnType, BumpSeqType DEF ListenDone
<1> QED BY <1>1, <1>2, <1>3, <1>4, <1>5, <1>6 DEF Poller

LEMMA NextType == TypeOK /\ [Next]_vars => TypeOK'
<1> SUFFICES ASSUME TypeOK, [Next]_vars PROVE TypeOK'
  OBVIOUS
<1>1. CASE UNCHANGED vars
  BY <1>1 DEF vars, TypeOK
<1>2. CASE Next
  BY <1>2, RadioTypes, CommandTypes, PollerTypes DEF Next
<1> QED BY <1>1, <1>2

(* TypeOK is an invariant: every variable keeps its type.                  *)
THEOREM RangingTypes == Spec => []TypeOK
  BY InitType, NextType, PTL DEF Spec

----------------------------------------------------------------------------
(* The safety properties.                                                  *)

(* What is the same before and after a step for a device that takes no     *)
(* part in it.                                                             *)
Unmoved(e) ==
  /\ now' = now
  /\ radio'[e] = radio[e] /\ on'[e] = on[e] /\ until'[e] = until[e]
  /\ status'[e] = status[e] /\ txAt'[e] = txAt[e] /\ rxAt'[e] = rxAt[e]
  /\ txBuf'[e] = txBuf[e] /\ rxBuf'[e] = rxBuf[e]
  /\ pc'[e] = pc[e] /\ cmd'[e] = cmd[e] /\ rest'[e] = rest[e]

(* An exchange that is current or over stays so.                           *)
Keeps == \A d, e \in Device, t \in Nat : CurrentOrOver(d, e, t) => CurrentOrOver(d, e, t)'

LEMMA FrameTypes ==
  ASSUME NEW f \in Frame
  PROVE  f.src \in Device /\ f.dst \in Device /\ f.exch \in Nat
         /\ f.pan \in Pan \union {ForeignPan} /\ f.fn \in {"Poll", "Resp"}
         /\ f.pollRx \in Nat /\ f.respTx \in Nat
  BY ConstantTypes DEF Frame

LEMMA FreshKept ==
  ASSUME Keeps, NEW f \in Frame, FreshInv(f)
  PROVE  FreshInv(f)'
<1>1. f.src \in Device /\ f.dst \in Device /\ f.exch \in Nat
  BY FrameTypes
<1> QED BY <1>1 DEF FreshInv, Keeps

(* The same for what a buffer of a device holds.                           *)
LEMMA FreshBufferKept ==
  ASSUME Keeps, NEW e \in Device, txBuf[e] \in Frame, rxBuf[e] \in Frame
  PROVE  /\ FreshInv(rxBuf[e]) /\ rxBuf'[e] = rxBuf[e] => FreshInv(rxBuf[e])'
         /\ FreshInv(txBuf[e]) /\ txBuf'[e] = txBuf[e] => FreshInv(txBuf[e])'
<1>1. ASSUME FreshInv(rxBuf[e]), rxBuf'[e] = rxBuf[e]
      PROVE  FreshInv(rxBuf[e])'
  <2>1. PICK f \in Frame : f = rxBuf[e]
    OBVIOUS
  <2>2. FreshInv(f)'
    BY <1>1, <2>1, FreshKept
  <2> QED BY <1>1, <2>1, <2>2 DEF FreshInv
<1>2. ASSUME FreshInv(txBuf[e]), txBuf'[e] = txBuf[e]
      PROVE  FreshInv(txBuf[e])'
  <2>1. PICK f \in Frame : f = txBuf[e]
    OBVIOUS
  <2>2. FreshInv(f)'
    BY <1>2, <2>1, FreshKept
  <2> QED BY <1>2, <2>1, <2>2 DEF FreshInv
<1> QED BY <1>1, <1>2

LEMMA Undisturbed ==
  ASSUME TypeOK, Keeps, NEW e \in Device, DeviceInv(e), Unmoved(e)
  PROVE  DeviceInv(e)'
<1>1. RadioInv(e)'
  BY DEF DeviceInv, RadioInv, Unmoved
<1>2. ReceiverInv(e)'
  BY DEF DeviceInv, ReceiverInv, Unmoved, Opening
<1>b. txBuf[e] \in Frame /\ rxBuf[e] \in Frame
  BY DEF TypeOK
<1>3. RxBufInv(e)'
  <2> SUFFICES ASSUME (rxBuf[e].pan \in Pan)'
               PROVE  TimelyInv(rxBuf[e], e, rxAt[e])' /\ FreshInv(rxBuf[e])'
    BY DEF RxBufInv
  <2>1. TimelyInv(rxBuf[e], e, rxAt[e]) /\ FreshInv(rxBuf[e])
    BY DEF RxBufInv, DeviceInv, Unmoved
  <2>2. FreshInv(rxBuf[e])'
    BY <1>b, <2>1, FreshBufferKept DEF Unmoved
  <2>3. TimelyInv(rxBuf[e], e, rxAt[e])'
    BY <2>1 DEF Unmoved, TimelyInv, StampsInv, Heard
  <2> QED BY <2>2, <2>3
<1>4. TxBufInv(e)'
  <2> SUFFICES ASSUME (txBuf[e].pan \in Pan)'
               PROVE  /\ (txBuf[e].fn = "Resp" /\ txBuf[e].src = e)'
                      /\ StampsInv(txBuf[e], on[e] + AntennaDelay)'
                      /\ FreshInv(txBuf[e])'
    BY DEF TxBufInv
  <2>1. txBuf[e].fn = "Resp" /\ txBuf[e].src = e
        /\ StampsInv(txBuf[e], on[e] + AntennaDelay) /\ FreshInv(txBuf[e])
    BY DEF TxBufInv, DeviceInv, Unmoved
  <2>2. FreshInv(txBuf[e])'
    BY <1>b, <2>1, FreshBufferKept DEF Unmoved
  <2>3. StampsInv(txBuf[e], on[e] + AntennaDelay)'
    BY <2>1 DEF Unmoved, StampsInv, Heard
  <2> QED BY <2>1, <2>2, <2>3 DEF Unmoved
<1> QED BY <1>1, <1>2, <1>3, <1>4 DEF DeviceInv

LEMMA AirKept ==
  ASSUME TypeOK, Keeps, AirInv, air' \subseteq air
  PROVE  AirInv'
<1> SUFFICES ASSUME NEW m \in air', m.frame.pan \in Pan
             PROVE  TimelyInv(m.frame, m.to, m.at)' /\ FreshInv(m.frame)'
  BY DEF AirInv
<1>1. m.frame \in Frame /\ TimelyInv(m.frame, m.to, m.at) /\ FreshInv(m.frame)
  BY DEF AirInv, TypeOK
<1>2. FreshInv(m.frame)'
  BY <1>1, FreshKept
<1> QED BY <1>1, <1>2 DEF TimelyInv, StampsInv, Heard

(* Copies of a frame of ours, sent at the time t.                          *)
LEMMA AirGrown ==
  ASSUME TypeOK, Keeps, AirInv, NEW d \in Device, NEW f \in Frame, NEW t \in Nat,
         air' = air \union Copies(d, f, t),
         f.pan \in Pan => /\ f.src = d
                          /\ f.fn = "Poll" => t = f.exch
                          /\ f.fn = "Resp" => StampsInv(f, t)
                          /\ FreshInv(f)'
  PROVE  AirInv'
<1> SUFFICES ASSUME NEW m \in air', m.frame.pan \in Pan
             PROVE  TimelyInv(m.frame, m.to, m.at)' /\ FreshInv(m.frame)'
  BY DEF AirInv
<1>1. CASE m \in air
  <2>1. m.frame \in Frame /\ TimelyInv(m.frame, m.to, m.at) /\ FreshInv(m.frame)
    BY <1>1 DEF AirInv, TypeOK
  <2>2. FreshInv(m.frame)'
    BY <2>1, FreshKept
  <2> QED BY <2>1, <2>2 DEF TimelyInv, StampsInv, Heard
<1>2. CASE m \in Copies(d, f, t)
  <2>1. PICK e \in Device \ {d} : m = [to |-> e, at |-> t + Flight[d][e], frame |-> f]
    BY <1>2 DEF Copies
  <2>2. m.to = e /\ m.at = t + Flight[d][e] /\ m.frame = f /\ Flight[d][e] \in Nat
    BY <2>1, ConstantTypes
  <2>3. m.at - Flight[d][e] = t
    BY <2>2
  <2>4. TimelyInv(f, e, m.at)
    BY <2>2, <2>3 DEF TimelyInv
  <2>5. TimelyInv(f, e, m.at)'
    BY <2>4 DEF TimelyInv, StampsInv, Heard
  <2> QED BY <2>2, <2>5
<1> QED BY <1>1, <1>2

-----------------------------------------------------------------------------
(* Each way in which a step may touch what CurrentOrOver reads.            *)
LEMMA KeepsSame ==
  ASSUME UNCHANGED <<now, pc, txAt, rest>>
  PROVE  Keeps
  BY DEF Keeps, CurrentOrOver, Exchange, Opening

LEMMA ExchangeType ==
  ASSUME NEW d \in Device, NEW e \in Device
  PROVE  /\ Exchange(d, e) \in Nat
         /\ Exchange(d, e) < 2 * PollTxToRespRx + CommandGap
         /\ Exchange(d, e) < StampMod \div 2
<1>1. Flight[d][e] \in Nat
  BY ConstantTypes
<1>2. Exchange(d, e) \in Nat
  BY <1>1, ConstantTypes DEF Exchange
<1> QED BY <1>2, RangingAssumption DEF RangingAssumption, Exchange

LEMMA OpeningType ==
  ASSUME TypeOK, NEW d \in Device
  PROVE  Opening(d) \in Int
  BY ConstantTypes DEF Opening, TypeOK

(* An operation returns.                                                   *)
LEMMA KeepsReturn ==
  ASSUME TypeOK, NEW d \in Device, now' = now,
         pc' = [pc EXCEPT ![d] = "idle"], rest' = [rest EXCEPT ![d] = CommandGap],
         \A e \in Device \ {d} : txAt'[e] = txAt[e],
         IF pc[d] = "poll" THEN now >= Opening(d) ELSE rest[d] = 0
  PROVE  Keeps
<1> SUFFICES ASSUME NEW c \in Device, NEW e \in Device, NEW t \in Nat, CurrentOrOver(c, e, t)
             PROVE  CurrentOrOver(c, e, t)'
  BY DEF Keeps
<1>1. CASE c # d
  <2>1. pc'[c] = pc[c] /\ rest'[c] = rest[c] /\ txAt'[c] = txAt[c]
    BY <1>1 DEF TypeOK
  <2> QED BY <2>1 DEF CurrentOrOver, Exchange, Opening
<1>2. CASE c = d
  <2>1. pc'[d] = "idle" /\ rest'[d] = CommandGap
    BY DEF TypeOK
  <2>2. Exchange(d, e) \in Nat /\ Exchange(d, e) < 2 * PollTxToRespRx + CommandGap
    BY ExchangeType
  <2>3. t - AntennaDelay + Exchange(d, e) < now + CommandGap + PollTxToRespRx
    BY <1>2, <2>2, ConstantTypes DEF CurrentOrOver, Opening, TypeOK
  <2>4. Exchange(d, e)' = Exchange(d, e)
    BY DEF Exchange
  <2> QED BY <1>2, <2>1, <2>3, <2>4 DEF CurrentOrOver
<1> QED BY <1>1, <1>2

(* initiate sends its poll.                                                *)
LEMMA KeepsInitiate ==
  ASSUME TypeOK, NEW d \in Device, now' = now, pc[d] = "idle", rest[d] = 0,
         pc' = [pc EXCEPT ![d] = "poll"], UNCHANGED rest,
         txAt' = [txAt EXCEPT ![d] = now + AntennaDelay]
  PROVE  Keeps
<1> SUFFICES ASSUME NEW c \in Device, NEW e \in Device, NEW t \in Nat, CurrentOrOver(c, e, t)
             PROVE  CurrentOrOver(c, e, t)'
  BY DEF Keeps
<1>1. CASE c # d
  <2>1. pc'[c] = pc[c] /\ rest'[c] = rest[c] /\ txAt'[c] = txAt[c]
    BY <1>1 DEF TypeOK
  <2> QED BY <2>1 DEF CurrentOrOver, Exchange, Opening
<1>2. CASE c = d
  <2>1. pc'[d] = "poll" /\ txAt'[d] = now + AntennaDelay
    BY DEF TypeOK
  <2>2. Opening(d)' = now + PollTxToRespRx
    BY <2>1, ConstantTypes DEF Opening, TypeOK
  <2>3. t - AntennaDelay + Exchange(d, e) < now + PollTxToRespRx
    BY <1>2, ExchangeType, ConstantTypes DEF CurrentOrOver, TypeOK
  <2>4. Exchange(d, e)' = Exchange(d, e)
    BY DEF Exchange
  <2> QED BY <1>2, <2>1, <2>2, <2>3, <2>4 DEF CurrentOrOver
<1> QED BY <1>1, <1>2

(* A step that neither begins nor ends an initiate, and gives no rest.     *)
LEMMA KeepsOther ==
  ASSUME TypeOK, NEW d \in Device, now' = now, NEW to \in {"listen", "respond"},
         pc[d] # "poll", pc' = [pc EXCEPT ![d] = to], UNCHANGED <<rest, txAt>>
  PROVE  Keeps
<1> SUFFICES ASSUME NEW c \in Device, NEW e \in Device, NEW t \in Nat, CurrentOrOver(c, e, t)
             PROVE  CurrentOrOver(c, e, t)'
  BY DEF Keeps
<1>1. (pc'[c] = "poll") <=> (pc[c] = "poll")
  BY DEF TypeOK
<1> QED BY <1>1 DEF CurrentOrOver, Exchange, Opening

-----------------------------------------------------------------------------
(* A step in which one device moves.                                       *)
LEMMA OneMoves ==
  ASSUME IInv, Keeps, NEW d \in Device, \A e \in Device \ {d} : Unmoved(e), DeviceInv(d)'
  PROVE  \A e \in Device : DeviceInv(e)'
<1>1. ASSUME NEW e \in Device, e # d
      PROVE  DeviceInv(e)'
  BY <1>1, Undisturbed DEF IInv
<1> QED BY <1>1

LEMMA RangeKept ==
  ASSUME RangeCorrect, UNCHANGED ret
  PROVE  RangeCorrect'
  BY DEF RangeCorrect

LEMMA RangeReturn ==
  ASSUME TypeOK, RangeCorrect, NEW d \in Device, NEW op, NEW err, NEW peer \in Device, NEW rtt,
         Return(d, op, peer, err, rtt),
         op = "initiate" /\ err = "Ok" => rtt = 2 * Flight[d][peer]
  PROVE  RangeCorrect'
<1> SUFFICES ASSUME NEW e \in Device, ret'[e].op = "initiate", ret'[e].err = "Ok"
             PROVE  ret'[e].rtt = 2 * Flight[e][ret'[e].peer]
  BY DEF RangeCorrect
<1>1. CASE e = d
  <2>1. ret'[d] = [op |-> op, err |-> err, peer |-> peer, rtt |-> rtt]
    BY DEF Return, TypeOK
  <2> QED BY <1>1, <2>1
<1>2. CASE e # d
  <2>1. ret'[e] = ret[e]
    BY <1>2 DEF Return, TypeOK
  <2> QED BY <2>1 DEF RangeCorrect
<1> QED BY <1>1, <1>2

(* The radio of d goes off on an event that ends a wait for a frame.       *)
LEMMA SwitchOffSafe ==
  ASSUME IInv, NEW d \in Device, NEW bit \in RxEvents, radio[d] = "rx", on[d] <= now,
         SwitchOff(d, bit), UNCHANGED <<now, txAt, txBuf, taskVars>>
  PROVE  /\ RadioInv(d)'
         /\ pc[d] \in {"poll", "listen"}
         /\ pc[d] = "poll" => now >= Opening(d)
         /\ txBuf[d].pan \notin Pan
         /\ "RXFCG" \notin status[d]
         /\ status'[d] = status[d] \union {bit} /\ radio'[d] = "off"
<1>1. DeviceInv(d) /\ TypeOK
  BY DEF IInv
<1>2. radio'[d] = "off" /\ on'[d] = 0 /\ until'[d] = 0 /\ status'[d] = status[d] \union {bit}
  BY <1>1 DEF SwitchOff, TypeOK
<1>3. pc[d] \in {"poll", "listen"}
  BY <1>1 DEF DeviceInv, RadioInv, TypeOK
<1>4. pc[d] = "poll" => now >= Opening(d)
  BY <1>1 DEF DeviceInv, ReceiverInv
<1>5. txBuf[d].pan \notin Pan /\ "RXFCG" \notin status[d]
  BY <1>1 DEF DeviceInv, RadioInv
<1>6. status'[d] \intersect RxEvents # {}
  BY <1>2
<1>7. pc'[d] = pc[d] /\ rest'[d] = rest[d] /\ cmd'[d] = cmd[d] /\ txBuf'[d] = txBuf[d]
  BY DEF taskVars
<1>8. pc[d] # "idle" => rest[d] = 0 /\ cmd[d].pan \in Pan
  BY <1>1 DEF DeviceInv, RadioInv
<1>9. RadioInv(d)'
  BY <1>2, <1>3, <1>5, <1>6, <1>7, <1>8 DEF RadioInv
<1> QED BY <1>2, <1>3, <1>4, <1>5, <1>9

LEMMA ReceiveSafe ==
  ASSUME IInv, NEW d \in Device, NEW f \in Frame, Receive(d, f),
         UNCHANGED <<now, txAt, txBuf, taskVars>>,
         f.pan \in Pan => TimelyInv(f, d, now) /\ FreshInv(f)
  PROVE  \A e \in Device : DeviceInv(e)'
<1>1. DeviceInv(d) /\ TypeOK
  BY DEF IInv
<1>2. Keeps
  BY KeepsSame DEF taskVars
<1>3. radio[d] = "rx" /\ on[d] <= now
  BY DEF Receive, Listening
<1>4. \A e \in Device \ {d} : Unmoved(e)
  BY <1>1 DEF Receive, SwitchOff, Unmoved, TypeOK, taskVars
<1>5. CASE /\ SwitchOff(d, "RXFCG")
           /\ rxBuf' = [rxBuf EXCEPT ![d] = f]
           /\ rxAt' = [rxAt EXCEPT ![d] = now]
  <2>1. "RXFCG" \in RxEvents
    BY DEF RxEvents
  <2>2. rxBuf'[d] = f /\ rxAt'[d] = now
    BY <1>1, <1>5 DEF TypeOK
  <2>3. /\ RadioInv(d)'
        /\ pc[d] \in {"poll", "listen"}
        /\ pc[d] = "poll" => now >= Opening(d)
        /\ txBuf[d].pan \notin Pan
        /\ status'[d] = status[d] \union {"RXFCG"} /\ radio'[d] = "off"
    BY <1>3, <1>5, <2>1, SwitchOffSafe
  <2>4. ReceiverInv(d)'
    BY <1>1, <2>2, <2>3, ConstantTypes DEF ReceiverInv, Opening, TypeOK, taskVars
  <2>5. RxBufInv(d)'
    <3> SUFFICES ASSUME f.pan \in Pan
                 PROVE  TimelyInv(rxBuf[d], d, rxAt[d])' /\ FreshInv(rxBuf[d])'
      BY <2>2 DEF RxBufInv
    <3>1. FreshInv(f)'
      BY <1>2, FreshKept
    <3>2. FreshInv(rxBuf[d])'
      BY <2>2, <3>1 DEF FreshInv
    <3>3. TimelyInv(rxBuf[d], d, rxAt[d])'
      BY <2>2 DEF TimelyInv, StampsInv, Heard
    <3> QED BY <3>2, <3>3
  <2>6. TxBufInv(d)'
    BY <2>3 DEF TxBufInv
  <2> QED BY <1>2, <1>4, <2>3, <2>4, <2>5, <2>6, OneMoves DEF DeviceInv
<1>6. CASE SwitchOff(d, "RXERR") /\ UNCHANGED <<rxBuf, rxAt>>
  <2>1. "RXERR" \in RxEvents
    BY DEF RxEvents
  <2>2. /\ RadioInv(d)'
        /\ pc[d] = "poll" => now >= Opening(d)
        /\ txBuf[d].pan \notin Pan
        /\ "RXFCG" \notin status[d]
        /\ status'[d] = status[d] \union {"RXERR"} /\ radio'[d] = "off"
    BY <1>3, <1>6, <2>1, SwitchOffSafe
  <2>3. ReceiverInv(d)'
    BY <1>1, <2>2 DEF ReceiverInv, Opening, TypeOK, taskVars
  <2>4. RxBufInv(d)'
    <3> SUFFICES ASSUME rxBuf[d].pan \in Pan
                 PROVE  TimelyInv(rxBuf[d], d, rxAt[d])' /\ FreshInv(rxBuf[d])'
      BY <1>6 DEF RxBufInv
    <3>1. TimelyInv(rxBuf[d], d, rxAt[d]) /\ FreshInv(rxBuf[d])
      BY <1>1 DEF RxBufInv, DeviceInv
    <3>2. FreshInv(rxBuf[d])'
      BY <1>1, <1>2, <1>6, <3>1, FreshBufferKept DEF TypeOK
    <3>3. TimelyInv(rxBuf[d], d, rxAt[d])'
      BY <1>6, <3>1 DEF TimelyInv, StampsInv, Heard
    <3> QED BY <3>2, <3>3
  <2>5. TxBufInv(d)'
    BY <2>2 DEF TxBufInv
  <2> QED BY <1>2, <1>4, <2>2, <2>3, <2>4, <2>5, OneMoves DEF DeviceInv
<1> QED BY <1>5, <1>6 DEF Receive

(* A step that d's device takes alone leaves its unread frame as it was.   *)
LEMMA RxBufSame ==
  ASSUME TypeOK, Keeps, NEW d \in Device, RxBufInv(d),
         rxBuf'[d] = rxBuf[d], rxAt'[d] = rxAt[d]
  PROVE  RxBufInv(d)'
<1> SUFFICES ASSUME rxBuf[d].pan \in Pan
             PROVE  TimelyInv(rxBuf[d], d, rxAt[d])' /\ FreshInv(rxBuf[d])'
  BY DEF RxBufInv
<1>1. TimelyInv(rxBuf[d], d, rxAt[d]) /\ FreshInv(rxBuf[d])
  BY DEF RxBufInv
<1>2. FreshInv(rxBuf[d])'
  BY <1>1, FreshBufferKept DEF TypeOK
<1>3. TimelyInv(rxBuf[d], d, rxAt[d])'
  BY <1>1 DEF TimelyInv, StampsInv, Heard
<1> QED BY <1>2, <1>3

-----------------------------------------------------------------------------
(* The radio's steps.                                                      *)
LEMMA ArriveSafe ==
  ASSUME IInv, NEW m \in air, Arrive(m)
  PROVE  IInv'
<1>0. TypeOK /\ TypeOK'
  BY RadioTypes DEF IInv
<1>1. m.to \in Device /\ m.frame \in Frame /\ m.at = now
  BY <1>0 DEF TypeOK, Arrive
<1>2. Keeps
  BY KeepsSame DEF Arrive, taskVars
<1>3. AirInv'
  BY <1>0, <1>2, AirKept DEF IInv, Arrive
<1>4. RangeCorrect'
  BY RangeKept DEF IInv, Arrive, taskVars
<1>5. \A e \in Device : DeviceInv(e)'
  <2>1. CASE Receive(m.to, m.frame)
    <3>1. m.frame.pan \in Pan => TimelyInv(m.frame, m.to, now) /\ FreshInv(m.frame)
      BY <1>1 DEF IInv, AirInv
    <3> QED BY <1>1, <2>1, <3>1, ReceiveSafe DEF Arrive
  <2>2. CASE UNCHANGED <<radio, on, until, status, rxBuf, rxAt>>
    <3>1. \A e \in Device : Unmoved(e)
      BY <2>2 DEF Arrive, taskVars, Unmoved
    <3> QED BY <1>0, <1>2, <3>1, Undisturbed DEF IInv
  <2> QED BY <2>1, <2>2 DEF Arrive
<1> QED BY <1>0, <1>3, <1>4, <1>5 DEF IInv

LEMMA InterfereSafe ==
  ASSUME IInv, NEW d \in Device, Interfere(d)
  PROVE  IInv'
<1>0. TypeOK /\ TypeOK'
  BY RadioTypes DEF IInv, Radio
<1>1. PICK f \in ForeignFrames(d) : Receive(d, f)
  BY DEF Interfere
<1>2. f \in Frame /\ f.pan \notin Pan
  BY ForeignType, ConstantTypes
<1>3. Keeps
  BY KeepsSame DEF Interfere, taskVars
<1>4. AirInv'
  BY <1>0, <1>3, AirKept DEF IInv, Interfere
<1>5. RangeCorrect'
  BY RangeKept DEF IInv, Interfere, taskVars
<1>6. \A e \in Device : DeviceInv(e)'
  BY <1>1, <1>2, ReceiveSafe DEF Interfere
<1> QED BY <1>0, <1>4, <1>5, <1>6 DEF IInv

LEMMA RxTimeoutSafe ==
  ASSUME IInv, NEW d \in Device, RxTimeout(d)
  PROVE  IInv'
<1>0. TypeOK /\ TypeOK' /\ DeviceInv(d)
  BY RadioTypes DEF IInv, Radio
<1>1. radio[d] = "rx" /\ until[d] = now /\ SwitchOff(d, "RXTO") /\ "RXTO" \in RxEvents
  BY DEF RxTimeout, RxEvents
<1>2. on[d] <= now
  BY <1>0, <1>1 DEF DeviceInv, RadioInv, TypeOK
<1>3. Keeps
  BY KeepsSame DEF RxTimeout, taskVars
<1>4. AirInv'
  BY <1>0, <1>3, AirKept DEF IInv, RxTimeout
<1>5. RangeCorrect'
  BY RangeKept DEF IInv, RxTimeout, taskVars
<1>6. /\ RadioInv(d)'
      /\ pc[d] = "poll" => now >= Opening(d)
      /\ txBuf[d].pan \notin Pan
      /\ "RXFCG" \notin status[d]
      /\ status'[d] = status[d] \union {"RXTO"} /\ radio'[d] = "off"
  BY <1>1, <1>2, SwitchOffSafe DEF RxTimeout
<1>7. ReceiverInv(d)'
  BY <1>0, <1>6 DEF ReceiverInv, Opening, TypeOK, RxTimeout, taskVars
<1>8. RxBufInv(d)' /\ TxBufInv(d)'
  BY <1>0, <1>3, <1>6, RxBufSame DEF DeviceInv, RxTimeout, TxBufInv
<1>9. \A e \in Device \ {d} : Unmoved(e)
  BY <1>0 DEF RxTimeout, SwitchOff, Unmoved, TypeOK, taskVars
<1>10. \A e \in Device : DeviceInv(e)'
  BY <1>3, <1>6, <1>7, <1>8, <1>9, OneMoves DEF DeviceInv
<1> QED BY <1>0, <1>4, <1>5, <1>10 DEF IInv

LEMMA DelayedTxSafe ==
  ASSUME IInv, NEW d \in Device, DelayedTx(d)
  PROVE  IInv'
<1>0. TypeOK /\ TypeOK' /\ DeviceInv(d)
  BY RadioTypes DEF IInv, Radio
<1>1. /\ radio[d] = "dtx" /\ on[d] = now
      /\ radio'[d] = "off" /\ status'[d] = status[d] \union {"TXFRS"}
      /\ txBuf'[d] = Blank(d)
      /\ UNCHANGED <<now, txAt, rxAt, rxBuf, pc, cmd, seq, rest, ret>>
  BY <1>0 DEF DelayedTx, SwitchOff, TypeOK, taskVars
<1>2. Keeps
  BY <1>1, KeepsSame
<1>3. pc[d] = "respond" /\ "RXFCG" \notin status[d]
  BY <1>0, <1>1 DEF DeviceInv, RadioInv, TypeOK
<1>4. AirInv'
  <2> DEFINE f == txBuf[d]
             t == now + AntennaDelay
  <2>1. f \in Frame /\ t \in Nat /\ air' = air \union Copies(d, f, t)
    BY <1>0, ConstantTypes DEF TypeOK, DelayedTx
  <2>2. PICK g \in Frame : g = f
    BY <2>1
  <2>3. ASSUME g.pan \in Pan
        PROVE  g.fn = "Resp" /\ g.src = d /\ StampsInv(g, t) /\ FreshInv(g)
    BY <1>0, <1>1, <2>2, <2>3 DEF DeviceInv, TxBufInv
  <2>4. g.pan \in Pan => FreshInv(g)'
    BY <1>2, <2>3, FreshKept
  <2> HIDE DEF f, t
  <2>5. g.pan \in Pan => /\ g.src = d
                         /\ g.fn = "Poll" => t = g.exch
                         /\ g.fn = "Resp" => StampsInv(g, t)
                         /\ FreshInv(g)'
    BY <2>3, <2>4
  <2>6. air' = air \union Copies(d, g, t)
    BY <2>1, <2>2
  <2>7. PICK s \in Nat : s = t
    BY <2>1
  <2> QED BY <1>0, <1>2, <2>5, <2>6, <2>7, AirGrown DEF IInv
<1>5. RangeCorrect'
  BY <1>1, RangeKept DEF IInv
<1>6. RadioInv(d)'
  <2>1. txBuf'[d].pan \notin Pan
    BY <1>1, ConstantTypes DEF Blank, Poll
  <2>2. pc[d] # "idle" => rest[d] = 0 /\ cmd[d].pan \in Pan
    BY <1>0 DEF DeviceInv, RadioInv
  <2> QED BY <1>1, <1>3, <2>1, <2>2 DEF RadioInv
<1>7. ReceiverInv(d)'
  BY <1>1, <1>3 DEF ReceiverInv
<1>8. RxBufInv(d)'
  BY <1>0, <1>1, <1>2, RxBufSame DEF DeviceInv
<1>9. TxBufInv(d)'
  BY <1>1, ConstantTypes DEF TxBufInv, Blank, Poll
<1>10. \A e \in Device \ {d} : Unmoved(e)
  BY <1>0 DEF DelayedTx, SwitchOff, Unmoved, TypeOK, taskVars
<1>11. \A e \in Device : DeviceInv(e)'
  BY <1>2, <1>6, <1>7, <1>8, <1>9, <1>10, OneMoves DEF DeviceInv
<1> QED BY <1>0, <1>4, <1>5, <1>11 DEF IInv

LEMMA TickSafe ==
  ASSUME IInv, Tick
  PROVE  IInv'
<1>0. TypeOK /\ TypeOK'
  BY RadioTypes DEF IInv
<1>1. /\ now' = now + 1
      /\ UNCHANGED <<air, radio, on, until, status, txAt, rxAt, txBuf, rxBuf, pc, cmd, seq, ret>>
  BY DEF Tick, radioVars
<1>2. ASSUME NEW d \in Device
      PROVE  /\ radio[d] = "rx" => until[d] >= now + 1
             /\ radio[d] = "dtx" => on[d] >= now + 1
             /\ pc[d] = "listen" /\ "RXFCG" \in status[d] => now + 1 <= rxAt[d] + MaxLatency
             /\ rest'[d] \in Nat
             /\ now' + rest'[d] >= now + rest[d]
             /\ rest[d] = 0 => rest'[d] = 0
  <2>1. /\ radio[d] = "rx" => until[d] > now
        /\ radio[d] = "dtx" => on[d] > now
        /\ pc[d] = "listen" /\ "RXFCG" \in status[d] => now < rxAt[d] + MaxLatency
    BY DEF Tick
  <2>2. rest'[d] = IF rest[d] = 0 THEN 0 ELSE rest[d] - 1
    BY DEF Tick
  <2> QED BY <1>0, <1>1, <2>1, <2>2, ConstantTypes DEF TypeOK
<1>3. Keeps
  <2> SUFFICES ASSUME NEW d \in Device, NEW e \in Device, NEW t \in Nat, CurrentOrOver(d, e, t)
               PROVE  CurrentOrOver(d, e, t)'
    BY DEF Keeps
  <2>1. CASE pc[d] = "poll"
    BY <1>1, <2>1 DEF CurrentOrOver, Opening, Exchange
  <2>2. CASE pc[d] # "poll"
    <3>1. t - AntennaDelay + Exchange(d, e) < now + rest[d] + PollTxToRespRx
      BY <2>2 DEF CurrentOrOver
    <3>2. t - AntennaDelay + Exchange(d, e) < now' + rest'[d] + PollTxToRespRx
      BY <1>0, <1>1, <1>2, <3>1, ExchangeType, ConstantTypes DEF TypeOK
    <3>3. Exchange(d, e)' = Exchange(d, e)
      BY DEF Exchange
    <3> QED BY <1>1, <2>2, <3>2, <3>3 DEF CurrentOrOver
  <2> QED BY <2>1, <2>2
<1>4. AirInv'
  BY <1>0, <1>1, <1>3, AirKept DEF IInv
<1>5. RangeCorrect'
  BY <1>1, RangeKept DEF IInv
<1>6. ASSUME NEW d \in Device
      PROVE  DeviceInv(d)'
  <2>0. DeviceInv(d)
    BY DEF IInv
  <2>1. RadioInv(d)'
    BY <1>0, <1>1, <1>2, <2>0 DEF DeviceInv, RadioInv, TypeOK
  <2>2. ReceiverInv(d)'
    <3>1. Opening(d) \in Int /\ Opening(d)' = Opening(d)
      BY <1>0, <1>1, OpeningType DEF Opening
    <3> QED BY <1>0, <1>1, <1>2, <2>0, <3>1 DEF DeviceInv, ReceiverInv, TypeOK
  <2>3. RxBufInv(d)'
    BY <1>0, <1>1, <1>3, <2>0, RxBufSame DEF DeviceInv
  <2>4. TxBufInv(d)'
    <3> SUFFICES ASSUME txBuf[d].pan \in Pan
                 PROVE  /\ (txBuf[d].fn = "Resp" /\ txBuf[d].src = d)'
                        /\ StampsInv(txBuf[d], on[d] + AntennaDelay)'
                        /\ FreshInv(txBuf[d])'
      BY <1>1 DEF TxBufInv
    <3>1. txBuf[d].fn = "Resp" /\ txBuf[d].src = d
          /\ StampsInv(txBuf[d], on[d] + AntennaDelay) /\ FreshInv(txBuf[d])
      BY <2>0 DEF TxBufInv, DeviceInv
    <3>2. FreshInv(txBuf[d])'
      BY <1>0, <1>1, <1>3, <3>1, FreshBufferKept DEF TypeOK
    <3>3. StampsInv(txBuf[d], on[d] + AntennaDelay)'
      BY <1>1, <3>1 DEF StampsInv, Heard
    <3> QED BY <1>1, <3>1, <3>2, <3>3
  <2> QED BY <2>1, <2>2, <2>3, <2>4 DEF DeviceInv
<1> QED BY <1>0, <1>4, <1>5, <1>6 DEF IInv

-----------------------------------------------------------------------------
(* The firmware's steps.                                                   *)
LEMMA RefuseSafe ==
  ASSUME IInv, NEW d \in Device, NEW op \in {"initiate", "listen"}, NEW peer \in Device,
         Refuse(d, op, peer), TypeOK'
  PROVE  IInv'
<1>0. TypeOK /\ DeviceInv(d)
  BY DEF IInv
<1>1. /\ pc[d] = "idle" /\ rest[d] = 0
      /\ Return(d, op, peer, "InvalidArgument", 0)
      /\ UNCHANGED <<now, air, radio, on, until, status, txAt, rxAt, txBuf, rxBuf>>
  BY DEF Refuse, MayStart, radioVars
<1>2. pc' = [pc EXCEPT ![d] = "idle"] /\ rest' = [rest EXCEPT ![d] = CommandGap]
      /\ pc'[d] = "idle"
  BY <1>0, <1>1 DEF Return, TypeOK
<1>3. Keeps
  BY <1>0, <1>1, <1>2, KeepsReturn
<1>4. AirInv'
  BY <1>0, <1>1, <1>3, AirKept DEF IInv
<1>5. RangeCorrect'
  BY <1>0, <1>1, RangeReturn DEF IInv
<1>6. RadioInv(d)' /\ ReceiverInv(d)'
  BY <1>0, <1>1, <1>2 DEF DeviceInv, RadioInv, ReceiverInv
<1>7. RxBufInv(d)'
  BY <1>0, <1>1, <1>3, RxBufSame DEF DeviceInv
<1>8. TxBufInv(d)'
  BY <1>0, <1>1 DEF DeviceInv, RadioInv, TxBufInv
<1>9. \A e \in Device \ {d} : Unmoved(e)
  BY <1>0, <1>1 DEF Return, Unmoved, TypeOK
<1>10. \A e \in Device : DeviceInv(e)'
  BY <1>3, <1>6, <1>7, <1>8, <1>9, OneMoves DEF DeviceInv
<1> QED BY <1>4, <1>5, <1>10 DEF IInv

LEMMA NoRetSafe ==
  ASSUME TypeOK, RangeCorrect, NEW d \in Device, ret' = [ret EXCEPT ![d] = NoRet(d)]
  PROVE  RangeCorrect'
  BY DEF RangeCorrect, NoRet, TypeOK

LEMMA InitiateSafe ==
  ASSUME IInv, NEW d \in Device, NEW peer \in Device, NEW pan \in Pan, NEW timeout \in TimeoutUus,
         Initiate(d, peer, pan, timeout), TypeOK'
  PROVE  IInv'
<1> DEFINE poll == Poll(pan, peer, d, seq[d], now + AntennaDelay)
           open == now + PollTxToRespRx
<1>0. TypeOK /\ DeviceInv(d) /\ timeout \in Nat /\ FrameWait(timeout) \in Nat
  BY ConstantTypes, FrameWaitType DEF IInv
<1>1. /\ pc[d] = "idle" /\ rest[d] = 0
      /\ status' = [status EXCEPT ![d] = (@ \ (RxEvents \union AllTx)) \union {"TXFRS"}]
      /\ txAt' = [txAt EXCEPT ![d] = now + AntennaDelay]
      /\ air' = air \union Copies(d, poll, now + AntennaDelay)
      /\ radio' = [radio EXCEPT ![d] = "rx"]
      /\ on' = [on EXCEPT ![d] = open]
      /\ until' = [until EXCEPT ![d] = open + FrameWait(timeout)]
      /\ pc' = [pc EXCEPT ![d] = "poll"]
      /\ cmd' = [cmd EXCEPT ![d] = [pan |-> pan, peer |-> peer, timeout |-> timeout]]
      /\ ret' = [ret EXCEPT ![d] = NoRet(d)]
      /\ UNCHANGED <<now, rxAt, txBuf, rxBuf, seq, rest>>
  BY DEF Initiate, Begin, MayStart
<1>2. /\ status'[d] = (status[d] \ (RxEvents \union AllTx)) \union {"TXFRS"}
      /\ radio'[d] = "rx" /\ on'[d] = open /\ until'[d] = open + FrameWait(timeout)
      /\ pc'[d] = "poll" /\ cmd'[d].pan = pan /\ txAt'[d] = now + AntennaDelay
  BY <1>0, <1>1 DEF TypeOK
<1>3. Keeps
  BY <1>0, <1>1, KeepsInitiate
<1>4. AirInv'
  <2>1. poll \in Frame /\ now + AntennaDelay \in Nat
    BY <1>0, PollType, ConstantTypes DEF TypeOK
  <2>2. poll.src = d /\ poll.fn = "Poll" /\ poll.exch = now + AntennaDelay /\ poll.dst = peer
    BY DEF Poll
  <2> HIDE DEF poll
  <2>3. PICK f \in Frame, t \in Nat : f = poll /\ t = now + AntennaDelay
    BY <2>1
  <2>4. FreshInv(f)'
    BY <1>2, <2>2, <2>3 DEF FreshInv, CurrentOrOver
  <2> QED BY <1>0, <1>1, <1>3, <2>2, <2>3, <2>4, AirGrown DEF IInv
<1>5. RangeCorrect'
  BY <1>0, <1>1, NoRetSafe DEF IInv
<1>6. txBuf[d].pan \notin Pan
  BY <1>0, <1>1 DEF DeviceInv, RadioInv
<1>7. RadioInv(d)'
  <2>1. "RXFCG" \notin status'[d] /\ status'[d] \intersect RxEvents = {}
    BY <1>2 DEF RxEvents
  <2>2. open + FrameWait(timeout) >= open /\ open >= now
    BY <1>0, ConstantTypes DEF TypeOK
  <2> QED BY <1>1, <1>2, <1>6, <2>1, <2>2, ConstantTypes DEF RadioInv, TypeOK
<1>8. ReceiverInv(d)'
  <2>1. Opening(d)' = open
    BY <1>0, <1>2, ConstantTypes DEF Opening, TypeOK
  <2>2. "RXFCG" \notin status'[d]
    BY <1>2 DEF RxEvents
  <2> QED BY <1>2, <2>1, <2>2 DEF ReceiverInv
<1>9. RxBufInv(d)'
  BY <1>0, <1>1, <1>3, RxBufSame DEF DeviceInv
<1>10. TxBufInv(d)'
  BY <1>1, <1>6 DEF TxBufInv
<1>11. \A e \in Device \ {d} : Unmoved(e)
  BY <1>0, <1>1 DEF Unmoved, TypeOK
<1>12. \A e \in Device : DeviceInv(e)'
  BY <1>3, <1>7, <1>8, <1>9, <1>10, <1>11, OneMoves DEF DeviceInv
<1> QED BY <1>4, <1>5, <1>12 DEF IInv

LEMMA ListenSafe ==
  ASSUME IInv, NEW d \in Device, NEW peer \in Device, NEW pan \in Pan, NEW timeout \in TimeoutUus,
         Listen(d, peer, pan, timeout), TypeOK'
  PROVE  IInv'
<1>0. TypeOK /\ DeviceInv(d) /\ timeout \in Nat /\ FrameWait(timeout) \in Nat
  BY ConstantTypes, FrameWaitType DEF IInv
<1>1. /\ pc[d] = "idle" /\ rest[d] = 0
      /\ status' = [status EXCEPT ![d] = @ \ RxEvents]
      /\ radio' = [radio EXCEPT ![d] = "rx"]
      /\ on' = [on EXCEPT ![d] = now]
      /\ until' = [until EXCEPT ![d] = now + FrameWait(timeout)]
      /\ pc' = [pc EXCEPT ![d] = "listen"]
      /\ cmd' = [cmd EXCEPT ![d] = [pan |-> pan, peer |-> peer, timeout |-> timeout]]
      /\ ret' = [ret EXCEPT ![d] = NoRet(d)]
      /\ UNCHANGED <<now, air, txAt, rxAt, txBuf, rxBuf, seq, rest>>
  BY DEF Listen, Begin, MayStart
<1>2. /\ status'[d] = status[d] \ RxEvents
      /\ radio'[d] = "rx" /\ on'[d] = now /\ until'[d] = now + FrameWait(timeout)
      /\ pc'[d] = "listen" /\ cmd'[d].pan = pan
  BY <1>0, <1>1 DEF TypeOK
<1>3. Keeps
  BY <1>0, <1>1, KeepsOther
<1>4. AirInv'
  BY <1>0, <1>1, <1>3, AirKept DEF IInv
<1>5. RangeCorrect'
  BY <1>0, <1>1, NoRetSafe DEF IInv
<1>6. txBuf[d].pan \notin Pan
  BY <1>0, <1>1 DEF DeviceInv, RadioInv
<1>7. "RXFCG" \notin status'[d] /\ status'[d] \intersect RxEvents = {}
  BY <1>2 DEF RxEvents
<1>8. RadioInv(d)'
  BY <1>0, <1>1, <1>2, <1>6, <1>7 DEF RadioInv, TypeOK
<1>9. ReceiverInv(d)'
  BY <1>2, <1>7 DEF ReceiverInv
<1>10. RxBufInv(d)'
  BY <1>0, <1>1, <1>3, RxBufSame DEF DeviceInv
<1>11. TxBufInv(d)'
  BY <1>1, <1>6 DEF TxBufInv
<1>12. \A e \in Device \ {d} : Unmoved(e)
  BY <1>0, <1>1 DEF Unmoved, TypeOK
<1>13. \A e \in Device : DeviceInv(e)'
  BY <1>3, <1>8, <1>9, <1>10, <1>11, <1>12, OneMoves DEF DeviceInv
<1> QED BY <1>4, <1>5, <1>13 DEF IInv

(* Every way to return from an operation that has used the radio.          *)
LEMMA ReturnSafe ==
  ASSUME IInv, NEW d \in Device, TypeOK', NEW op, NEW peer \in Device, NEW err, NEW rtt,
         Return(d, op, peer, err, rtt),
         op = "initiate" /\ err = "Ok" => rtt = 2 * Flight[d][peer],
         pc[d] # "idle", radio[d] = "off", "RXFCG" \notin status'[d],
         UNCHANGED <<now, air, radio, on, until, txBuf>>,
         \A e \in Device \ {d} : /\ status'[e] = status[e] /\ txAt'[e] = txAt[e]
                                 /\ rxAt'[e] = rxAt[e] /\ rxBuf'[e] = rxBuf[e],
         \/ rxAt'[d] = rxAt[d] /\ rxBuf'[d] = rxBuf[d]
         \/ rxBuf'[d] = Blank(d)
  PROVE  IInv'
<1>0. TypeOK /\ DeviceInv(d)
  BY DEF IInv
<1>1. pc' = [pc EXCEPT ![d] = "idle"] /\ rest' = [rest EXCEPT ![d] = CommandGap]
      /\ pc'[d] = "idle"
  BY <1>0 DEF Return, TypeOK
<1>2. IF pc[d] = "poll" THEN now >= Opening(d) ELSE rest[d] = 0
  BY <1>0 DEF DeviceInv, RadioInv, ReceiverInv
<1>3. Keeps
  BY <1>0, <1>1, <1>2, KeepsReturn
<1>4. AirInv'
  BY <1>0, <1>3, AirKept DEF IInv
<1>5. RangeCorrect'
  BY <1>0, RangeReturn DEF IInv
<1>6. txBuf[d].pan \notin Pan
  BY <1>0 DEF DeviceInv, RadioInv
<1>7. RadioInv(d)' /\ ReceiverInv(d)'
  BY <1>1, <1>6 DEF RadioInv, ReceiverInv
<1>8. RxBufInv(d)'
  <2>1. CASE rxAt'[d] = rxAt[d] /\ rxBuf'[d] = rxBuf[d]
    BY <1>0, <1>3, <2>1, RxBufSame DEF DeviceInv
  <2>2. CASE rxBuf'[d] = Blank(d)
    BY <2>2, ConstantTypes DEF RxBufInv, Blank, Poll
  <2> QED BY <2>1, <2>2
<1>9. TxBufInv(d)'
  BY <1>6 DEF TxBufInv
<1>10. \A e \in Device \ {d} : Unmoved(e)
  BY <1>0 DEF Return, Unmoved, TypeOK
<1>11. \A e \in Device : DeviceInv(e)'
  BY <1>3, <1>7, <1>8, <1>9, <1>10, OneMoves DEF DeviceInv
<1> QED BY <1>4, <1>5, <1>11 DEF IInv

(* What holds when the firmware leaves a wait for a frame.                 *)
LEMMA WaitEnds ==
  ASSUME IInv, NEW d \in Device, pc[d] \in {"poll", "listen"},
         status[d] \intersect RxEvents # {}
  PROVE  radio[d] = "off" /\ cmd[d].pan \in Pan /\ cmd[d].peer \in Device
  BY DEF IInv, DeviceInv, RadioInv, TypeOK

LEMMA InitiateFailsSafe ==
  ASSUME IInv, NEW d \in Device, InitiateFails(d), TypeOK'
  PROVE  IInv'
<1> DEFINE err == IF "RXTO" \in status[d] THEN "UwbResponseRxTimeout" ELSE "UwbResponseRxFailed"
<1>0. TypeOK
  BY DEF IInv
<1>1. /\ Return(d, "initiate", cmd[d].peer, err, 0) /\ err # "Ok"
      /\ pc[d] = "poll" /\ "RXFCG" \notin status[d] /\ status[d] \intersect RxEvents # {}
      /\ status' = [status EXCEPT ![d] = @ \ {"RXTO", "RXERR"}]
      /\ txAt' = [txAt EXCEPT ![d] = 0]
      /\ UNCHANGED <<now, air, radio, on, until, rxAt, txBuf, rxBuf>>
  BY DEF InitiateFails
<1> HIDE DEF err
<1>2. "RXFCG" \notin status'[d]
  BY <1>0, <1>1 DEF TypeOK
<1>3. \A e \in Device \ {d} : status'[e] = status[e] /\ txAt'[e] = txAt[e]
  BY <1>0, <1>1 DEF TypeOK
<1> QED BY <1>1, <1>2, <1>3, WaitEnds, ReturnSafe

LEMMA ListenFailsSafe ==
  ASSUME IInv, NEW d \in Device, ListenFails(d), TypeOK'
  PROVE  IInv'
<1> DEFINE err == IF "RXTO" \in status[d] THEN "UwbPollRxTimeout" ELSE "UwbPollRxFailed"
<1>0. TypeOK
  BY DEF IInv
<1>1. /\ Return(d, "listen", cmd[d].peer, err, 0)
      /\ pc[d] = "listen" /\ "RXFCG" \notin status[d] /\ status[d] \intersect RxEvents # {}
      /\ status' = [status EXCEPT ![d] = @ \ {"RXTO", "RXERR"}]
      /\ UNCHANGED <<now, air, radio, on, until, txAt, rxAt, txBuf, rxBuf>>
  BY DEF ListenFails
<1> HIDE DEF err
<1>2. "RXFCG" \notin status'[d]
  BY <1>0, <1>1 DEF TypeOK
<1>3. \A e \in Device \ {d} : status'[e] = status[e]
  BY <1>0, <1>1 DEF TypeOK
<1> QED BY <1>1, <1>2, <1>3, WaitEnds, ReturnSafe

LEMMA ListenRejectsSafe ==
  ASSUME IInv, NEW d \in Device, ListenRejects(d), TypeOK'
  PROVE  IInv'
<1> DEFINE err == PollError(rxBuf[d], cmd[d], d)
<1>0. TypeOK
  BY DEF IInv
<1>1. /\ Return(d, "listen", cmd[d].peer, err, 0)
      /\ pc[d] = "listen" /\ "RXFCG" \in status[d]
      /\ status' = [status EXCEPT ![d] = @ \ {"RXFCG"}]
      /\ rxBuf' = [rxBuf EXCEPT ![d] = Blank(d)]
      /\ rxAt' = [rxAt EXCEPT ![d] = 0]
      /\ UNCHANGED <<now, air, radio, on, until, txAt, txBuf, seq>>
  BY DEF ListenRejects, TakeFrame
<1> HIDE DEF err
<1>2. "RXFCG" \notin status'[d] /\ rxBuf'[d] = Blank(d)
  BY <1>0, <1>1 DEF TypeOK
<1>3. \A e \in Device \ {d} : status'[e] = status[e] /\ rxBuf'[e] = rxBuf[e] /\ rxAt'[e] = rxAt[e]
  BY <1>0, <1>1 DEF TypeOK
<1>4. status[d] \intersect RxEvents # {}
  BY <1>1 DEF RxEvents
<1> QED BY <1>1, <1>2, <1>3, <1>4, WaitEnds, ReturnSafe

LEMMA ListenDoneSafe ==
  ASSUME IInv, NEW d \in Device, ListenDone(d), TypeOK'
  PROVE  IInv'
<1>0. TypeOK /\ DeviceInv(d)
  BY DEF IInv
<1>1. /\ Return(d, "listen", cmd[d].peer, "Ok", 0)
      /\ pc[d] = "respond" /\ "TXFRS" \in status[d]
      /\ status' = [status EXCEPT ![d] = @ \ {"TXFRS"}]
      /\ UNCHANGED <<now, air, radio, on, until, txAt, rxAt, txBuf, rxBuf>>
  BY DEF ListenDone
<1>2. radio[d] = "off" /\ "RXFCG" \notin status[d] /\ cmd[d].peer \in Device
  BY <1>0, <1>1 DEF DeviceInv, RadioInv, TypeOK
<1>3. "RXFCG" \notin status'[d]
  BY <1>0, <1>1, <1>2 DEF TypeOK
<1>4. \A e \in Device \ {d} : status'[e] = status[e]
  BY <1>0, <1>1 DEF TypeOK
<1> QED BY <1>1, <1>2, <1>3, <1>4, ReturnSafe

(* A response that initiate accepts answers the poll that it has just      *)
(* sent: one to an earlier poll would have come in before the receiver     *)
(* opened.  So its stamps and initiate's own are those of one exchange.    *)
LEMMA AcceptedResponse ==
  ASSUME IInv, NEW d \in Device, pc[d] = "poll", "RXFCG" \in status[d],
         ResponseError(rxBuf[d], cmd[d], d) = "Ok"
  PROVE  /\ rxBuf[d].exch = txAt[d]
         /\ RoundTrip(Lo32(Clock(d, txAt[d])), Lo32(Clock(d, rxAt[d])),
                      rxBuf[d].pollRx, rxBuf[d].respTx) = 2 * Flight[d][cmd[d].peer]
<1> DEFINE f == rxBuf[d]
           e == cmd[d].peer
           h == txAt[d]
           t == rxAt[d]
<1>0. TypeOK /\ DeviceInv(d)
  BY DEF IInv
<1>1. f \in Frame /\ e \in Device /\ h \in Nat /\ t \in Nat /\ f.exch \in Nat
  BY <1>0, FrameTypes DEF TypeOK
<1>2. f.pan \in Pan /\ f.dst = d /\ f.src = e /\ f.fn = "Resp"
  BY <1>0 DEF ResponseError, HasExpectedHeader, DeviceInv, RadioInv
<1> HIDE DEF f, e, h, t
<1>3. Flight[d][e] \in Nat /\ Flight[e][d] = Flight[d][e]
  BY <1>1, ConstantTypes, RangingAssumption DEF RangingAssumption
<1> DEFINE w == Flight[d][e]
           heard == f.exch + w
           sent == t - w
<1>4. /\ f.pollRx = Lo32(Clock(e, heard))
      /\ f.respTx = Lo32(Clock(e, sent))
      /\ heard <= sent
      /\ sent <= heard + PollRxToRespTx + AntennaDelay
  <2>1. TimelyInv(f, d, t)
    BY <1>0, <1>2 DEF DeviceInv, RxBufInv, f, t
  <2> QED BY <1>2, <1>3, <2>1 DEF TimelyInv, StampsInv, Heard
<1>5. f.exch = h \/ f.exch - AntennaDelay + Exchange(d, e) < Opening(d)
  <2>1. FreshInv(f)
    BY <1>0, <1>2 DEF DeviceInv, RxBufInv, f
  <2> QED BY <1>2, <2>1 DEF FreshInv, CurrentOrOver, h
<1>6. t >= Opening(d) /\ Opening(d) \in Int
  BY <1>0, OpeningType DEF DeviceInv, ReceiverInv, t
<1>7. Exchange(d, e) = 2 * (AntennaDelay + w) + PollRxToRespTx /\ Exchange(d, e) < StampMod \div 2
  BY <1>1, ExchangeType DEF Exchange
<1> HIDE DEF w
<1>8. w \in Nat
  BY <1>3 DEF w
<1>9. f.exch = h
  BY <1>1, <1>4, <1>5, <1>6, <1>7, <1>8, ConstantTypes
<1>10. SignedDiff(Lo32(Clock(d, t)), Lo32(Clock(d, h))) = t - h
  <2>1. 0 <= t - h /\ t - h < StampMod \div 2
    BY <1>1, <1>4, <1>7, <1>8, <1>9, ConstantTypes
  <2>2. Offset[d] \in Int /\ h \in Int /\ t \in Int
    BY <1>1, ConstantTypes
  <2> QED BY <2>1, <2>2, SignedDiffIsElapsed DEF Clock
<1>11. SignedDiff(f.respTx, f.pollRx) = sent - heard
  <2>1. 0 <= sent - heard /\ sent - heard < StampMod \div 2
    BY <1>1, <1>4, <1>7, <1>8, ConstantTypes
  <2>2. Offset[e] \in Int /\ sent \in Int /\ heard \in Int
    BY <1>1, <1>8, ConstantTypes
  <2> HIDE DEF sent, heard
  <2>3. SignedDiff(Lo32(Clock(e, sent)), Lo32(Clock(e, heard))) = sent - heard
    BY <2>1, <2>2, SignedDiffIsElapsed DEF Clock
  <2> QED BY <1>4, <2>3
<1>12. (t - h) - (sent - heard) = 2 * w
  BY <1>1, <1>8, <1>9
<1>13. RoundTrip(Lo32(Clock(d, h)), Lo32(Clock(d, t)), f.pollRx, f.respTx) = 2 * w
  BY <1>10, <1>11, <1>12 DEF RoundTrip
<1> QED BY <1>9, <1>13 DEF w, e, f, h, t

LEMMA InitiateReceivesSafe ==
  ASSUME IInv, NEW d \in Device, InitiateReceives(d), TypeOK'
  PROVE  IInv'
<1> DEFINE err == ResponseError(rxBuf[d], cmd[d], d)
           trip == RoundTrip(Lo32(Clock(d, txAt[d])), Lo32(Clock(d, rxAt[d])),
                             rxBuf[d].pollRx, rxBuf[d].respTx)
           rtt == IF err = "Ok" THEN trip ELSE 0
<1>0. TypeOK
  BY DEF IInv
<1>1. /\ Return(d, "initiate", cmd[d].peer, err, rtt)
      /\ pc[d] = "poll" /\ "RXFCG" \in status[d]
      /\ status' = [status EXCEPT ![d] = @ \ {"RXFCG"}]
      /\ rxBuf' = [rxBuf EXCEPT ![d] = Blank(d)]
      /\ rxAt' = [rxAt EXCEPT ![d] = 0]
      /\ txAt' = [txAt EXCEPT ![d] = 0]
      /\ UNCHANGED <<now, air, radio, on, until, txBuf>>
  BY DEF InitiateReceives, TakeFrame
<1>2. err = "Ok" => rtt = 2 * Flight[d][cmd[d].peer]
  BY <1>1, AcceptedResponse
<1> HIDE DEF err, rtt
<1>3. "RXFCG" \notin status'[d] /\ rxBuf'[d] = Blank(d)
  BY <1>0, <1>1 DEF TypeOK
<1>4. \A e \in Device \ {d} : /\ status'[e] = status[e] /\ txAt'[e] = txAt[e]
                              /\ rxBuf'[e] = rxBuf[e] /\ rxAt'[e] = rxAt[e]
  BY <1>0, <1>1 DEF TypeOK
<1>5. status[d] \intersect RxEvents # {}
  BY <1>1 DEF RxEvents
<1> QED BY <1>1, <1>2, <1>3, <1>4, <1>5, WaitEnds, ReturnSafe

(* The response that listen arms has the stamps of its exchange.           *)
LEMMA ArmedResponse ==
  ASSUME IInv, NEW d \in Device, pc[d] = "listen", "RXFCG" \in status[d],
         PollError(rxBuf[d], cmd[d], d) = "Ok",
         NEW time, time = RespTxTime(Clock(d, rxAt[d]), PollRxToRespTx),
         NEW lead, lead = Lead(d, ChipStart(time)), ~IsLate(lead),
         NEW resp, resp = Resp(cmd[d].pan, cmd[d].peer, d, seq[d], Lo32(Clock(d, rxAt[d])),
                               Lo32(RespTxStamp(time, AntennaDelay)), rxBuf[d].exch)
  PROVE  /\ lead \in Nat
         /\ StampsInv(resp, now + lead + AntennaDelay)
         /\ resp.fn = "Resp" /\ resp.src = d /\ resp.dst = cmd[d].peer /\ resp.exch = rxBuf[d].exch
         /\ CurrentOrOver(cmd[d].peer, d, rxBuf[d].exch)
<1> DEFINE f == rxBuf[d]
           e == cmd[d].peer
           h == rxAt[d]
<1>0. TypeOK /\ DeviceInv(d)
  BY DEF IInv
<1>1. f \in Frame /\ e \in Device /\ h \in Nat /\ f.exch \in Nat /\ now \in Nat
  BY <1>0, FrameTypes DEF TypeOK
<1>2. f.pan \in Pan /\ f.dst = d /\ f.src = e /\ f.fn = "Poll"
  BY <1>0 DEF PollError, HasExpectedHeader, DeviceInv, RadioInv
<1>3. TimelyInv(f, d, h) /\ FreshInv(f)
  BY <1>0, <1>2 DEF DeviceInv, RxBufInv
<1>4. h <= now /\ now <= h + MaxLatency
  BY <1>0 DEF DeviceInv, ReceiverInv
<1>5. /\ resp.fn = "Resp" /\ resp.src = d /\ resp.dst = e /\ resp.exch = f.exch
      /\ resp.pollRx = Lo32(Clock(d, h))
      /\ resp.respTx = Lo32(RespTxStamp(time, AntennaDelay))
  BY DEF Resp
<1> HIDE DEF f, e, h
<1>6. CurrentOrOver(e, d, f.exch)
  BY <1>2, <1>3 DEF FreshInv
<1>7. h = f.exch + Flight[e][d]
  BY <1>2, <1>3 DEF TimelyInv
<1>8. /\ lead \in Nat
      /\ now < now + lead
      /\ now + lead <= h + PollRxToRespTx
      /\ Lo32(RespTxStamp(time, AntennaDelay))
           = Lo32((now + lead + AntennaDelay + Offset[d]) % ClockMod)
  <2>1. Offset[d] \in Int /\ AntennaDelay \in Int /\ PollRxToRespTx \in Nat /\ MaxLatency \in Nat
    BY ConstantTypes
  <2>2. PollRxToRespTx + MaxLatency + 2 * DxUnit < ClockMod \div 2
    BY RangingAssumption DEF RangingAssumption
  <2>3. time = RespTxTime((h + Offset[d]) % ClockMod, PollRxToRespTx)
    BY DEF Clock, h
  <2>4. /\ lead = (ChipStart(time) - ((now + Offset[d]) % ClockMod)) % ClockMod
        /\ lead # 0 /\ ~(lead >= ClockMod \div 2)
    BY DEF Lead, IsLate, Clock
  <2>5. ClockMod \div 2 \in Int /\ lead \in Int
    <3> DEFINE x == ChipStart(time) - ((now + Offset[d]) % ClockMod)
    <3>1. Clock(d, h) \in Int /\ (now + Offset[d]) % ClockMod \in Int
      BY <1>1, ClockType DEF Clock
    <3>2. time \in Int
      BY <3>1, RespTxTimeType, ConstantTypes DEF h
    <3>3. ChipStart(time) \in Int
      BY <3>2, ConstantTypes, DivMod DEF ChipStart
    <3>4. x \in Int
      BY <3>1, <3>3
    <3> HIDE DEF x
    <3>5. x % ClockMod \in Int
      BY <3>4, ConstantTypes, DivMod
    <3>6. lead \in Int
      BY <2>4, <3>5 DEF x
    <3> QED BY <3>6, ConstantTypes, DivMod
  <2>6. lead < ClockMod \div 2
    BY <2>4, <2>5
  <2> DEFINE o == Offset[d]
  <2>7. h \in Int /\ now \in Int /\ o \in Int
    BY <1>1, <2>1
  <2>8. /\ time = RespTxTime((h + o) % ClockMod, PollRxToRespTx)
        /\ lead = (ChipStart(time) - ((now + o) % ClockMod)) % ClockMod
        /\ lead # 0
    BY <2>3, <2>4
  <2> HIDE DEF o
  <2>9. /\ lead \in Nat
        /\ now < now + lead
        /\ now + lead <= h + PollRxToRespTx
        /\ Lo32(RespTxStamp(time, AntennaDelay))
             = Lo32((now + lead + AntennaDelay + o) % ClockMod)
    <3>1. Armed(h, now, o, PollRxToRespTx, MaxLatency, AntennaDelay, time, lead)
      BY <1>4, <2>1, <2>2, <2>6, <2>7, <2>8 DEF Armed
    <3> QED BY <3>1, DelayedStart
  <2> QED BY <2>9 DEF o
<1>9. resp.respTx = Lo32(Clock(d, now + lead + AntennaDelay))
  BY <1>5, <1>8 DEF Clock
<1>10. StampsInv(resp, now + lead + AntennaDelay)
  BY <1>1, <1>4, <1>5, <1>7, <1>8, <1>9, ConstantTypes DEF StampsInv, Heard
<1> QED BY <1>5, <1>6, <1>8, <1>10 DEF e, f

LEMMA ListenRespondsSafe ==
  ASSUME IInv, NEW d \in Device, ListenResponds(d), TypeOK'
  PROVE  IInv'
<1> DEFINE rx40 == Clock(d, rxAt[d])
           time == RespTxTime(rx40, PollRxToRespTx)
           resp == Resp(cmd[d].pan, cmd[d].peer, d, seq[d], Lo32(rx40),
                        Lo32(RespTxStamp(time, AntennaDelay)), rxBuf[d].exch)
           lead == Lead(d, ChipStart(time))
           late == /\ IsLate(lead)
                   /\ Return(d, "listen", cmd[d].peer, "UwbResponseTxFailed", 0)
                   /\ UNCHANGED <<radio, on, txBuf>>
           armed == /\ ~IsLate(lead)
                    /\ txBuf' = [txBuf EXCEPT ![d] = resp]
                    /\ radio' = [radio EXCEPT ![d] = "dtx"]
                    /\ on' = [on EXCEPT ![d] = now + lead]
                    /\ pc' = [pc EXCEPT ![d] = "respond"]
                    /\ UNCHANGED <<cmd, ret, rest>>
<1>0. TypeOK /\ DeviceInv(d)
  BY DEF IInv
<1>1. /\ pc[d] = "listen" /\ "RXFCG" \in status[d] /\ PollError(rxBuf[d], cmd[d], d) = "Ok"
      /\ status' = [status EXCEPT ![d] = @ \ ({"RXFCG"} \union AllTx)]
      /\ rxBuf' = [rxBuf EXCEPT ![d] = Blank(d)]
      /\ rxAt' = [rxAt EXCEPT ![d] = 0]
      /\ late \/ armed
      /\ UNCHANGED <<now, air, until, txAt, seq>>
  BY DEF ListenResponds
<1> HIDE DEF late, armed
<1>2. status'[d] = status[d] \ {"RXFCG", "TXFRS"} /\ rxBuf'[d] = Blank(d)
  BY <1>0, <1>1 DEF TypeOK, AllTx
<1>3. \A e \in Device \ {d} : /\ status'[e] = status[e] /\ txAt'[e] = txAt[e]
                              /\ rxBuf'[e] = rxBuf[e] /\ rxAt'[e] = rxAt[e]
  BY <1>0, <1>1 DEF TypeOK
<1>4. radio[d] = "off" /\ cmd[d].pan \in Pan /\ cmd[d].peer \in Device
  BY <1>1, WaitEnds DEF RxEvents
<1>5. CASE late
  <2>1. /\ Return(d, "listen", cmd[d].peer, "UwbResponseTxFailed", 0)
        /\ UNCHANGED <<radio, on, txBuf>>
    BY <1>5 DEF late
  <2> QED BY <1>1, <1>2, <1>3, <1>4, <2>1, ReturnSafe
<1>6. CASE armed
  <2>1. /\ ~IsLate(lead)
        /\ txBuf' = [txBuf EXCEPT ![d] = resp]
        /\ radio' = [radio EXCEPT ![d] = "dtx"]
        /\ on' = [on EXCEPT ![d] = now + lead]
        /\ pc' = [pc EXCEPT ![d] = "respond"]
        /\ UNCHANGED <<cmd, ret, rest>>
    BY <1>6 DEF armed
  <2>2. txBuf'[d] = resp /\ radio'[d] = "dtx" /\ on'[d] = now + lead /\ pc'[d] = "respond"
    BY <1>0, <2>1 DEF TypeOK
  <2>3. /\ lead \in Nat
        /\ StampsInv(resp, now + lead + AntennaDelay)
        /\ resp.fn = "Resp" /\ resp.src = d /\ resp.dst = cmd[d].peer
        /\ resp.exch = rxBuf[d].exch
        /\ CurrentOrOver(cmd[d].peer, d, rxBuf[d].exch)
    BY <1>1, <2>1, ArmedResponse
  <2>4. resp.pan = cmd[d].pan
    BY DEF Resp
  <2> HIDE DEF resp, lead, time
  <2>5. Keeps
    BY <1>0, <1>1, <2>1, KeepsOther
  <2>6. AirInv'
    BY <1>0, <1>1, <2>5, AirKept DEF IInv
  <2>7. RangeCorrect'
    BY <2>1, RangeKept DEF IInv
  <2>8. RadioInv(d)'
    <3>1. rest'[d] = 0 /\ cmd'[d].pan \in Pan /\ txBuf'[d].pan \in Pan
      BY <1>0, <1>1, <1>4, <2>1, <2>2, <2>4 DEF DeviceInv, RadioInv
    <3>2. on'[d] >= now' /\ "TXFRS" \notin status'[d] /\ "RXFCG" \notin status'[d]
      BY <1>0, <1>1, <1>2, <2>2, <2>3 DEF TypeOK
    <3> QED BY <2>2, <3>1, <3>2 DEF RadioInv
  <2>9. ReceiverInv(d)'
    BY <1>2, <2>2 DEF ReceiverInv
  <2>10. RxBufInv(d)'
    BY <1>2, ConstantTypes DEF RxBufInv, Blank, Poll
  <2>11. TxBufInv(d)'
    <3>1. PICK e \in Device, t \in Nat : e = cmd[d].peer /\ t = rxBuf[d].exch
      <4>1. rxBuf[d].exch \in Nat
        BY <1>0, FrameTypes DEF TypeOK
      <4> QED BY <1>4, <4>1
    <3>2. CurrentOrOver(e, d, t)'
      BY <2>3, <2>5, <3>1 DEF Keeps
    <3>3. FreshInv(txBuf[d])'
      BY <2>2, <2>3, <3>1, <3>2 DEF FreshInv, CurrentOrOver
    <3>4. StampsInv(txBuf[d], on[d] + AntennaDelay)'
      BY <2>2, <2>3 DEF StampsInv, Heard
    <3> QED BY <2>2, <2>3, <3>3, <3>4 DEF TxBufInv
  <2>12. \A e \in Device \ {d} : Unmoved(e)
    BY <1>0, <1>1, <1>3, <2>1 DEF Unmoved, TypeOK
  <2>13. \A e \in Device : DeviceInv(e)'
    BY <2>5, <2>8, <2>9, <2>10, <2>11, <2>12, OneMoves DEF DeviceInv
  <2> QED BY <2>6, <2>7, <2>13 DEF IInv
<1> QED BY <1>1, <1>5, <1>6

-----------------------------------------------------------------------------
LEMMA InitSafe == Init => IInv
<1> SUFFICES ASSUME Init PROVE IInv
  OBVIOUS
<1>1. TypeOK
  BY InitType
<1>2. ASSUME NEW d \in Device
      PROVE  DeviceInv(d)
  <2>1. /\ pc[d] = "idle" /\ radio[d] = "off" /\ status[d] = {}
        /\ txBuf[d] = Blank(d) /\ rxBuf[d] = Blank(d)
    BY DEF Init
  <2>2. Blank(d).pan \notin Pan
    BY ConstantTypes DEF Blank, Poll
  <2> QED BY <2>1, <2>2 DEF DeviceInv, RadioInv, ReceiverInv, RxBufInv, TxBufInv
<1>3. AirInv
  BY DEF Init, AirInv
<1>4. RangeCorrect
  BY DEF Init, NoRet, RangeCorrect
<1> QED BY <1>1, <1>2, <1>3, <1>4 DEF IInv

LEMMA CommandSafe ==
  ASSUME IInv, NEW d \in Device, Command(d)
  PROVE  IInv'
<1>1. TypeOK'
  BY CommandTypes DEF IInv
<1>2. PICK peer \in Device \ {d} :
        \/ \E op \in {"initiate", "listen"} : Refuse(d, op, peer)
        \/ \E pan \in Pan, timeout \in TimeoutUus :
             Initiate(d, peer, pan, timeout) \/ Listen(d, peer, pan, timeout)
  BY DEF Command
<1> QED BY <1>1, <1>2, RefuseSafe, InitiateSafe, ListenSafe

LEMMA PollerSafe ==
  ASSUME IInv, NEW d \in Device, Poller(d)
  PROVE  IInv'
<1>1. TypeOK'
  BY PollerTypes DEF IInv
<1> QED BY <1>1, InitiateFailsSafe, InitiateReceivesSafe, ListenFailsSafe, ListenRejectsSafe,
           ListenRespondsSafe, ListenDoneSafe DEF Poller

LEMMA StutterSafe ==
  ASSUME IInv, UNCHANGED vars
  PROVE  IInv'
<1>1. TypeOK /\ TypeOK'
  BY NextType DEF IInv
<1>2. Keeps
  BY KeepsSame DEF vars
<1>3. \A d \in Device : Unmoved(d)
  BY DEF Unmoved, vars
<1>4. \A d \in Device : DeviceInv(d)'
  BY <1>1, <1>2, <1>3, Undisturbed DEF IInv
<1>5. AirInv' /\ RangeCorrect'
  BY <1>1, <1>2, AirKept, RangeKept DEF IInv, vars
<1> QED BY <1>1, <1>4, <1>5 DEF IInv

LEMMA NextSafe == IInv /\ [Next]_vars => IInv'
<1> SUFFICES ASSUME IInv, [Next]_vars PROVE IInv'
  OBVIOUS
<1>1. CASE UNCHANGED vars
  BY <1>1, StutterSafe
<1>2. CASE Tick
  BY <1>2, TickSafe
<1>3. ASSUME NEW m \in air, Arrive(m)
      PROVE  IInv'
  BY <1>3, ArriveSafe
<1>4. ASSUME NEW d \in Device, Command(d) \/ Poller(d) \/ Radio(d)
      PROVE  IInv'
  BY <1>4, CommandSafe, PollerSafe, InterfereSafe, RxTimeoutSafe, DelayedTxSafe DEF Radio
<1> QED BY <1>1, <1>2, <1>3, <1>4 DEF Next

-----------------------------------------------------------------------------
(* IInv is an invariant: every frame of an exchange carries stamps of the  *)
(* exchange and belongs to the current poll or to one that is over.        *)
THEOREM RangingInvariance == Spec => []IInv
  BY InitSafe, NextSafe, PTL DEF Spec

(* An initiate that returns Ok has measured exactly twice the flight time, *)
(* for every pair of counters, wherever they wrap, and whatever frames are *)
(* lost, damaged, late or of other networks.                               *)
THEOREM RangingIsCorrect == Spec => []RangeCorrect
<1>1. IInv => RangeCorrect
  BY DEF IInv
<1> QED BY <1>1, RangingInvariance, PTL

(* The busy wait of initiate or listen is always for a bit that is set, or *)
(* that the radio will set at a time that is still to come, and no path    *)
(* out of them leaves the radio receiving, or armed.                       *)
THEOREM RangingInStep == Spec => []RadioInStep
<1>1. IInv => SpinEnds /\ RadioOffWhenIdle
  BY DEF IInv, DeviceInv, RadioInv, SpinEnds, RadioOffWhenIdle
<1>2. IInv => RadioInStep
  BY <1>1 DEF RadioInStep
<1> QED BY <1>2, RangingInvariance, PTL

(* A response that initiate accepts answers the poll that it sent last,    *)
(* though the response does not name the poll.                             *)
THEOREM RangingAnswersThisPoll == Spec => AnswersThisPoll
<1>1. IInv /\ [Next]_vars =>
        [\A d \in Device :
           InitiateReceives(d) /\ ret'[d].err = "Ok" => rxBuf[d].exch = txAt[d]]_vars
  <2> SUFFICES ASSUME IInv, NEW d \in Device, InitiateReceives(d), ret'[d].err = "Ok"
               PROVE  rxBuf[d].exch = txAt[d]
    OBVIOUS
  <2>1. pc[d] = "poll" /\ "RXFCG" \in status[d]
    BY DEF InitiateReceives, TakeFrame
  <2>2. ret'[d].err = ResponseError(rxBuf[d], cmd[d], d)
    BY DEF InitiateReceives, Return, IInv, TypeOK
  <2> QED BY <2>1, <2>2, AcceptedResponse
<1> QED BY <1>1, RangingInvariance, PTL DEF Spec, AnswersThisPoll

(* The transmission time that listen writes into a response is the time at *)
(* which the response leaves the antenna.                                  *)
THEOREM RangingPredictsTxTime == Spec => PredictedTxTime
<1>1. IInv /\ [Next]_vars =>
        [\A d \in Device :
           DelayedTx(d) => txBuf[d].respTx = Lo32(Clock(d, now + AntennaDelay))]_vars
  <2> SUFFICES ASSUME IInv, NEW d \in Device, DelayedTx(d)
               PROVE  txBuf[d].respTx = Lo32(Clock(d, now + AntennaDelay))
    OBVIOUS
  <2>1. radio[d] = "dtx" /\ on[d] = now /\ DeviceInv(d)
    BY DEF DelayedTx, IInv
  <2>2. txBuf[d].src = d /\ StampsInv(txBuf[d], on[d] + AntennaDelay)
    BY <2>1 DEF DeviceInv, RadioInv, TxBufInv
  <2> QED BY <2>1, <2>2 DEF StampsInv
<1> QED BY <1>1, RangingInvariance, PTL DEF Spec, PredictedTxTime

(* Both: what initiate computes from is of one exchange, and as sent.      *)
THEOREM RangingResponseIsTrue == Spec => ResponseTrue
BY RangingAnswersThisPoll, RangingPredictsTxTime DEF ResponseTrue
=============================================================================
