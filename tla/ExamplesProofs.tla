---------------------------- MODULE ExamplesProofs ----------------------------
(***************************************************************************)
(* Proofs of what the example programs keep true, in the composition of    *)
(* Examples: WindowsFit, ErrorsCounted, BlinksHold and LoopsInStep.        *)
(*                                                                         *)
(* Each part has an inductive invariant of its own, and a step of the      *)
(* composition is a step of one part that leaves the others alone          *)
(* (PartSteps).                                                            *)
(*   WindowInv   RespWindow and ReportWindow give the times at which the   *)
(*               initiator's receiver may be turned on, and set them       *)
(*               against the times of the answer;                          *)
(*   ErrorInv    the bits that are raised, or that a program has read, are *)
(*               those of this loop's reception;                           *)
(*   SleepInv    at each line, what the chip still holds, and that the     *)
(*               number to be sent follows the last one;                   *)
(*   BlinkInv    at each line of the sender, which number it has written,  *)
(*               and of the receiver, which events and octets it holds;    *)
(*   PlainInv    a device that waits has its counter of the STS where the  *)
(*               frame on air has it;                                      *)
(*   AesInv      the header that a device holds matches the count, and a   *)
(*               frame is sealed with the header it carries.               *)
(***************************************************************************)
EXTENDS Examples, TLAPS

(* A step of the composition is one of each part, or leaves it alone.      *)
LEMMA PartSteps ==
  ASSUME [MCNext]_allVars
  PROVE  /\ [Window!Next]_(Window!vars) /\ [Errors!Next]_(Errors!vars)
         /\ [Sleep!Next]_(Sleep!vars) /\ [Blink!Next]_(Blink!vars)
         /\ part = "loops" => [Plain!Next]_(Plain!vars)
         /\ part = "aes" => [Aes!Next]_(Aes!vars)
         /\ part' = part
<1> USE DEF windowVars, errorVars, sleepVars, blinkVars, loopVars, plainVars, aesVars,
    rangingVars,
            Window!vars, Errors!vars, Sleep!vars, Blink!vars, Plain!vars, Aes!vars
<1>1. CASE UNCHANGED allVars
  BY <1>1 DEF allVars
<1>2. CASE MCNext
  BY <1>2 DEF MCNext
<1> QED BY <1>1, <1>2

-----------------------------------------------------------------------------
(* ResponseWindow.                                                         *)

(* The values that an option selects.                                      *)
IsConfig(c) == /\ c.plen \in {64, 128, 512, 1024}
               /\ c.rate \in {850, 6800}
               /\ c.sts \in {64, 128}

(* The record of an option has such values.                                *)
LEMMA RecordIsConfig ==
  ASSUME NEW n \in 1 .. 33, NEW rate \in {850, 6800}
  PROVE  IsConfig(Window!Record(n, rate))
<1> DEFINE pair == ((n - 1) \div 2) % 4
<1>1. pair \in {0, 1, 2, 3}
  OBVIOUS
<1> HIDE DEF pair
<1>2. Window!Record(n, rate).plen \in {64, 128, 512, 1024}
  BY <1>1 DEF Window!Record, pair
<1>3. Window!Record(n, rate).rate = rate /\ Window!Record(n, rate).sts = 64
  BY DEF Window!Record
<1> QED BY <1>2, <1>3 DEF IsConfig

(* So has the configuration an option selects.                             *)
LEMMA OptionIsConfig ==
  ASSUME NEW n \in 1 .. 33
  PROVE  IsConfig(Window!Configuration(n))
<1>1. CASE n \in 1 .. 8
  <2>1. Window!Configuration(n) = Window!Record(n, 850)
    BY <1>1 DEF Window!Configuration, Window!OptionsSlowCode9
  <2> QED BY <2>1, RecordIsConfig
<1>2. CASE n \in 9 .. 16
  <2>1. Window!Configuration(n) = Window!Record(n, 850)
    BY <1>2 DEF Window!Configuration, Window!OptionsSlowCode10
  <2> QED BY <2>1, RecordIsConfig
<1>3. CASE n \in 17 .. 24
  <2>1. Window!Configuration(n) = Window!Record(n, 6800)
    BY <1>3 DEF Window!Configuration, Window!OptionsFastCode9
  <2> QED BY <2>1, RecordIsConfig
<1>4. CASE n \in 25 .. 32
  <2>1. Window!Configuration(n) = Window!Record(n, 6800)
    BY <1>4 DEF Window!Configuration, Window!OptionsFastCode10
  <2> QED BY <2>1, RecordIsConfig
<1>5. CASE n = 33
  <2>1. Window!Configuration(n) = Window!Option33
    BY <1>5 DEF Window!Configuration
  <2> QED BY <2>1 DEF Window!Option33, IsConfig
<1> QED BY <1>1, <1>2, <1>3, <1>4, <1>5

(* Programs and options that run.                                          *)
Chosen == program \in {"plain", "sts", "nodata"} /\ option \in 1 .. 33

(* The times of one exchange.                                              *)
Times ==
  /\ Window!Head \in Nat /\ Window!RespTx \in Nat /\ Window!Timeout \in Nat
  /\ \A kind \in {"poll", "resp", "report"} : Window!Tail(kind) \in Nat
  /\ \A kind \in {"resp", "report"} : Window!OpensAt(kind) \in Nat

(* A receiver that is turned on at `from' hears what begins and ends then. *)
Covers(from, rmarker, kind) ==
  from <= rmarker - Window!Head /\ rmarker + Window!Tail(kind) <= from + Window!Timeout

(* When the initiator's receiver is turned on: at the time it was told, or *)
(* at once.                                                                *)
Later(time, now) == IF time < now THEN now ELSE time

(* The times of an exchange are numbers.                                   *)
LEMMA TimesAreNat ==
  ASSUME Chosen
  PROVE  Times
<1> DEFINE c == Window!Configuration(option)
<1>1. IsConfig(c)
  BY OptionIsConfig DEF Chosen
<1> HIDE DEF c
<1>2. IsConfig(Window!Given)
  BY <1>1 DEF Window!Given, c, Chosen, IsConfig, Window!PlainConfig, Window!Sp3,
             Window!Option33
<1>3. Window!RateDelay(c.rate) \in Nat /\ Window!PreambleDelay(c.plen) \in Nat
  BY <1>1 DEF IsConfig, Window!RateDelay, Window!PreambleDelay
<1>4. Window!Head \in Nat
  BY <1>2 DEF IsConfig, Window!Head, Window!SfdSymbols
<1>5. ASSUME NEW kind \in {"poll", "resp", "report"} PROVE Window!Tail(kind) \in Nat
  <2>1. Window!Bytes(kind) \in {0, 12, 20}
    BY DEF Window!Bytes
  <2> QED BY <1>2, <2>1 DEF IsConfig, Window!Tail, Window!Parity, Window!PhyHeader
<1>6. Window!RespTx \in Nat
  BY <1>2, <1>3 DEF IsConfig, Window!RespTx, Window!StsDelay, Window!CPU_COMP, c
<1>7. Window!Timeout \in Nat
  BY <1>2, <1>3 DEF IsConfig, Window!Timeout, Window!RespRxTimeout, Window!Sp3,
                    Window!Option33, c
<1>8. ASSUME NEW kind \in {"resp", "report"} PROVE Window!OpensAt(kind) \in Nat
  BY <1>2, <1>5 DEF IsConfig, Window!OpensAt, Window!DelayedRxTime, Window!UusWrap,
                    Window!StsDelay, Window!Sp3, Window!Sp0, Window!Option33, Window!CPU_COMP
<1> QED BY <1>4, <1>5, <1>6, <1>7, <1>8 DEF Times

(* The program without data has its times from one record, and from its    *)
(* option's rate and preamble.                                             *)
LEMMA NoDataTimes ==
  ASSUME Chosen, program = "nodata"
  PROVE  /\ Window!Tail("poll") = 128 /\ Window!Tail("resp") = 128
         /\ Window!Tail("report") = 48 /\ Window!Head = 136
         /\ Window!OpensAt("resp") = 850 /\ Window!OpensAt("report") = 1900
         /\ Window!RespTx \in 1078 .. 2174
         /\ Window!Timeout = Window!RespTx + 422
<1> DEFINE c == Window!Configuration(option)
<1>1. IsConfig(c)
  BY OptionIsConfig DEF Chosen
<1> HIDE DEF c
<1>2. Window!Given = Window!Option33
  BY DEF Window!Given, Window!Sp3
<1>3. /\ Window!Tail("poll") = 128 /\ Window!Tail("resp") = 128
      /\ Window!Tail("report") = 48 /\ Window!Head = 136
  <2>1. /\ Window!Given.sts = 128 /\ Window!Given.plen = 128 /\ Window!Given.rate = 6800
    BY <1>2 DEF Window!Option33
  <2>2. /\ Window!Bytes("poll") = 0 /\ Window!Bytes("resp") = 0 /\ Window!Bytes("report") = 20
        /\ Window!HasSts("poll") /\ Window!HasSts("resp") /\ ~Window!HasSts("report")
    BY DEF Window!Bytes, Window!HasSts
  <2> QED BY <2>1, <2>2 DEF Window!Tail, Window!Parity, Window!PhyHeader, Window!Head,
                            Window!SfdSymbols
<1>4. Window!OpensAt("resp") = 850 /\ Window!OpensAt("report") = 1900
  BY DEF Window!OpensAt, Window!DelayedRxTime, Window!UusWrap, Window!StsDelay, Window!Sp3,
         Window!Sp0, Window!Option33, Window!CPU_COMP
<1>5. /\ Window!RespTx = 1078 + Window!RateDelay(c.rate) + Window!PreambleDelay(c.plen)
      /\ Window!Timeout = 1500 + Window!RateDelay(c.rate) + Window!PreambleDelay(c.plen)
  BY <1>1, <1>2 DEF IsConfig, Window!RespTx, Window!Timeout, Window!RespRxTimeout, Window!Sp3,
                    Window!StsDelay, Window!Option33, Window!CPU_COMP, Window!RateDelay,
                    Window!PreambleDelay, c
<1>6. Window!RateDelay(c.rate) \in {0, 200} /\ Window!PreambleDelay(c.plen) \in {0, 384, 896}
  BY <1>1 DEF IsConfig, Window!RateDelay, Window!PreambleDelay
<1> QED BY <1>3, <1>4, <1>5, <1>6

(* A receiver turned on for the response opens after the poll and, if the  *)
(* host was in time, before the response, which it hears whole; where the  *)
(* delay wraps around it opens when all is over.                           *)
LEMMA RespWindow ==
  ASSUME Chosen, NEW told \in Nat, Window!Tail("poll") <= told,
         program = "plain" => told = Window!Tail("poll"),
         NEW from, from = Later(Window!OpensAt("resp"), told)
  PROVE  /\ Window!Tail("poll") <= from
         /\ Window!Wraps => program = "sts" /\ from > Window!RespTx
         /\ ~Window!Wraps => /\ told <= Window!RespTx => from <= Window!RespTx
                             /\ told <= Window!RespTx - Window!Head
                                  => Covers(from, Window!RespTx, "resp")
<1> DEFINE c == Window!Configuration(option)
<1>1. IsConfig(c)
  BY OptionIsConfig DEF Chosen
<1> HIDE DEF c
<1>2. CASE program = "plain"
  <2>1. Window!Tail("poll") = 40 /\ Window!Tail("resp") = 48 /\ Window!Head = 136
    BY <1>2 DEF Window!Tail, Window!Bytes, Window!HasSts, Window!Given, Window!PlainConfig,
                Window!Parity, Window!PhyHeader, Window!Head, Window!SfdSymbols
  <2>2. /\ Window!OpensAt("resp") = 280 /\ Window!RespTx = 450 /\ Window!Timeout = 400
        /\ ~Window!Wraps
    BY <1>2, <2>1 DEF Window!OpensAt, Window!RespTx, Window!Timeout, Window!Wraps
  <2> QED BY <1>2, <2>1, <2>2 DEF Later, Covers
<1>3. CASE program = "sts"
  <2>1. Window!Given = c
    BY <1>3 DEF Window!Given, c
  <2>2. /\ Window!Tail("poll") = c.sts + 21 + (IF c.rate = 850 THEN 144 ELSE 19)
        /\ Window!Tail("resp") = c.sts + 21 + (IF c.rate = 850 THEN 208 ELSE 27)
        /\ Window!Head = c.plen + 8
    BY <1>1, <1>3, <2>1 DEF IsConfig, Window!Tail, Window!Bytes, Window!HasSts, Window!Parity,
                            Window!PhyHeader, Window!Head, Window!SfdSymbols
  <2>3. /\ Window!Wraps <=> c.plen = 1024
        /\ Window!OpensAt("resp") = (700 - c.plen + c.sts) + (IF c.plen = 1024 THEN 67215 ELSE 0)
    BY <1>1, <1>3, <2>1 DEF IsConfig, Window!OpensAt, Window!DelayedRxTime, Window!UusWrap,
                            Window!StsDelay, Window!CPU_COMP, Window!Wraps
  <2>4. /\ Window!RespTx = 850 + Window!RateDelay(c.rate) + Window!PreambleDelay(c.plen) + c.sts
        /\ Window!Timeout = 1200 + Window!RateDelay(c.rate) + Window!PreambleDelay(c.plen)
    BY <1>1, <1>3, <2>1 DEF IsConfig, Window!RespTx, Window!Timeout, Window!RespRxTimeout,
                            Window!StsDelay, Window!CPU_COMP, Window!RateDelay,
                            Window!PreambleDelay, c
  <2> QED BY <1>1, <1>3, <2>2, <2>3, <2>4 DEF IsConfig, Later, Covers, Window!RateDelay,
                                              Window!PreambleDelay
<1>4. CASE program = "nodata"
  <2>1. /\ Window!Tail("poll") = 128 /\ Window!Tail("resp") = 128 /\ Window!Head = 136
        /\ Window!OpensAt("resp") = 850
    BY <1>4, NoDataTimes
  <2>2. /\ Window!RespTx \in 1078 .. 2174
        /\ Window!Timeout = Window!RespTx + 422
    BY <1>4, NoDataTimes
  <2>3. ~Window!Wraps
    BY <1>4 DEF Window!Wraps
  <2> QED BY <2>1, <2>2, <2>3 DEF Later, Covers
<1> QED BY <1>2, <1>3, <1>4 DEF Chosen

(* So does a receiver turned on for the report, once the response is out.  *)
LEMMA ReportWindow ==
  ASSUME Chosen, program = "nodata",
         NEW told \in Nat, Window!RespTx + Window!Tail("resp") <= told,
         told <= Window!ReportTx - Window!Head,
         NEW from, from = Later(Window!OpensAt("report"), told)
  PROVE  Covers(from, Window!ReportTx, "report")
<1>1. Window!RespTx + 128 <= told /\ from = Later(1900, told)
  BY NoDataTimes
<1>2. Window!ReportTx = 2 * Window!RespTx
  BY DEF Window!ReportTx
<1> QED BY <1>1, <1>2, NoDataTimes DEF Later, Covers

(* A host of at most 674 uus has its receiver turned on in time.           *)
LEMMA HostInTime ==
  ASSUME Chosen, program # "plain", ~Window!Wraps
  PROVE  /\ Window!Tail("poll") + Window!SlowestHost <= Window!RespTx - Window!Head
         /\ program = "nodata" =>
              Window!RespTx + Window!Tail("resp") + Window!SlowestHost
                <= Window!ReportTx - Window!Head
<1> DEFINE c == Window!Configuration(option)
<1>1. IsConfig(c)
  BY OptionIsConfig DEF Chosen
<1> HIDE DEF c
<1>2. CASE program = "sts"
  <2>1. Window!Given = c
    BY <1>2 DEF Window!Given, c
  <2>2. /\ Window!Tail("poll") = c.sts + 21 + (IF c.rate = 850 THEN 144 ELSE 19)
        /\ Window!Tail("resp") = c.sts + 21 + (IF c.rate = 850 THEN 208 ELSE 27)
        /\ Window!Head = c.plen + 8
    BY <1>1, <1>2, <2>1 DEF IsConfig, Window!Tail, Window!Bytes, Window!HasSts, Window!Parity,
                            Window!PhyHeader, Window!Head, Window!SfdSymbols
  <2>3. Window!RespTx = 850 + Window!RateDelay(c.rate) + Window!PreambleDelay(c.plen) + c.sts
    BY <1>1, <1>2, <2>1 DEF IsConfig, Window!RespTx, Window!StsDelay, Window!CPU_COMP,
                            Window!RateDelay, Window!PreambleDelay, c
  <2>4. c.plen \in {64, 128, 512}
    BY <1>1, <1>2, <2>1 DEF IsConfig, Window!Wraps, Window!CPU_COMP, Window!StsDelay
  <2> QED BY <1>1, <1>2, <2>2, <2>3, <2>4
          DEF IsConfig, Window!SlowestHost, Window!RateDelay, Window!PreambleDelay
<1>3. CASE program = "nodata"
  BY <1>3, NoDataTimes DEF Window!SlowestHost, Window!ReportTx
<1> QED BY <1>2, <1>3 DEF Chosen

(* A receiver that is told to open does so at once or later.               *)
LEMMA OpensLater ==
  ASSUME NEW time \in Nat, NEW now \in Nat, Window!Open(time, now)
  PROVE  window' = [told |-> now, from |-> Later(time, now),
                    to |-> Later(time, now) + Window!Timeout]
BY DEF Window!Open, Later

(* The programs' times are those of a program and an option, which stay.   *)
LEMMA TimesStay ==
  ASSUME program' = program, option' = option
  PROVE  /\ Window!Head' = Window!Head /\ Window!RespTx' = Window!RespTx
         /\ \A kind \in {"poll", "resp", "report"} : Window!Tail(kind)' = Window!Tail(kind)
         /\ Window!Wraps' = Window!Wraps
<1>1. /\ Window!Given' = Window!Given
      /\ Window!Configuration(option)' = Window!Configuration(option)
  BY DEF Window!Given, Window!Configuration
<1>2. \A kind \in {"poll", "resp", "report"} : Window!Tail(kind)' = Window!Tail(kind)
  BY <1>1 DEF Window!Tail, Window!Bytes, Window!HasSts
<1>3. Window!Head' = Window!Head
  BY <1>1 DEF Window!Head
<1>4. Window!RespTx' = Window!RespTx
  BY <1>1 DEF Window!RespTx, Window!StsDelay, Window!RateDelay, Window!PreambleDelay
<1>5. Window!Wraps' = Window!Wraps
  BY <1>1 DEF Window!Wraps, Window!StsDelay
<1> QED BY <1>2, <1>3, <1>4, <1>5

WindowInv ==
  /\ WindowsFit
  /\ leg = "resp" => /\ answer \in {Window!Never, Window!RespTx}
                     /\ Window!Wraps => window.from > Window!RespTx
  /\ leg = "report" => ~Window!Wraps

LEMMA WindowIsChosen ==
  ASSUME WindowInv
  PROVE  Chosen /\ Times
<1>1. Chosen
  BY DEF WindowInv, WindowsFit, Window!TypeOK, Chosen
<1> QED BY <1>1, TimesAreNat

(* A window that is set has its three times.                               *)
LEMMA WindowTypes ==
  ASSUME NEW told \in Nat, NEW from \in Nat, NEW to \in Nat
  PROVE  [told |-> told, from |-> from, to |-> to]
           \in [{"told", "from", "to"} -> Nat \cup {Window!Never}]
OBVIOUS

(* The poll is out: the initiator's receiver is turned on, and the         *)
(* responder has or has not scheduled its answer.                          *)
LEMMA RespWindowFits ==
  ASSUME WindowInv, leg = "poll", leg' = "resp", UNCHANGED <<program, option, round, heard>>,
         NEW latency \in Latencies, Window!Listen(latency),
         \/ answer' = Window!Never
         \/ \E other \in ReplyLatencies :
               answer' = Window!Scheduled(Window!RespTx, Window!Tail("poll") + other)
  PROVE  WindowInv'
<1> DEFINE told == IF program = "plain" THEN Window!Tail("poll")
                   ELSE Window!Tail("poll") + latency
           from == Later(Window!OpensAt("resp"), told)
<1>1. Chosen /\ Times
  BY WindowIsChosen
<1>2. told \in Nat /\ Window!Tail("poll") <= told /\ (program = "plain" => told = Window!Tail("poll"))
  BY <1>1, HostAssumption DEF Times
<1>3. window' = [told |-> told, from |-> from, to |-> from + Window!Timeout]
  <2>1. Window!Open(Window!OpensAt("resp"), told)
    BY DEF Window!Listen
  <2> HIDE DEF told
  <2> QED BY <1>1, <1>2, <2>1, OpensLater DEF Times
<1> HIDE DEF told
<1>4. /\ Window!Tail("poll") <= from
      /\ Window!Wraps => program = "sts" /\ from > Window!RespTx
      /\ ~Window!Wraps => /\ told <= Window!RespTx => from <= Window!RespTx
                          /\ told <= Window!RespTx - Window!Head
                               => Covers(from, Window!RespTx, "resp")
  BY <1>1, <1>2, RespWindow
<1>5. from \in Nat
  BY <1>1, <1>2 DEF Times, Later
<1> HIDE DEF from
<1>6. answer' \in {Window!Never, Window!RespTx}
  BY DEF Window!Scheduled
<1>7. Window!TypeOK'
  <2>1. window' \in [{"told", "from", "to"} -> Nat \cup {Window!Never}]
    BY <1>1, <1>2, <1>3, <1>5, WindowTypes DEF Times
  <2> QED BY <1>1, <1>6, <2>1 DEF Times, WindowInv, WindowsFit, Window!TypeOK
<1>8. /\ window'.told = told /\ window'.from = from
      /\ window'.to = from + Window!Timeout
  BY <1>3
<1>9. Window!OpensBetween'
  BY <1>4, <1>8, TimesStay DEF Window!OpensBetween
<1>10. Window!AnswerFits'
  BY <1>4, <1>6, <1>8, TimesStay DEF Window!AnswerFits, Window!Fits, Covers
<1>11. Window!HostHasTime'
  BY <1>1, HostInTime, TimesStay DEF Window!HostHasTime, Window!SlowestHost
<1>12. Window!DeafIfWrapped'
  BY TimesStay DEF WindowInv, WindowsFit, Window!DeafIfWrapped
<1> QED BY <1>4, <1>6, <1>7, <1>8, <1>9, <1>10, <1>11, <1>12, TimesStay DEF WindowInv, WindowsFit

(* The response is in: with the program that has a report, the receiver is *)
(* turned on again.                                                        *)
LEMMA RespHeardFits ==
  ASSUME WindowInv, Window!RespHeard
  PROVE  WindowInv'
<1>1. Chosen /\ Times
  BY WindowIsChosen
<1>2. /\ program' = program /\ option' = option /\ round' = round
      /\ heard' = heard \cup {"resp"} /\ answer = Window!RespTx
  BY DEF Window!RespHeard, WindowInv, Window!Fits
<1>3. ~Window!Wraps
  <2>1. window.from \in Nat \cup {Window!Never}
    BY DEF WindowInv, WindowsFit, Window!TypeOK
  <2>2. window.from <= answer - Window!Head /\ leg = "resp"
    BY DEF Window!RespHeard, Window!Fits
  <2> QED BY <1>1, <1>2, <2>1, <2>2 DEF Times, WindowInv, Window!Never
<1>4. Window!HostHasTime' /\ Window!DeafIfWrapped'
  <2>1. leg' \in {"rest", "report"} /\ Window!HostHasTime'
    <3>1. CASE program = "nodata"
      BY <1>1, <1>2, <1>3, <3>1, HostInTime, TimesStay
         DEF Window!RespHeard, Window!HostHasTime, Window!SlowestHost, Window!ReportTx
    <3>2. CASE program # "nodata"
      BY <1>2, <3>2 DEF Window!RespHeard, Window!HostHasTime
    <3> QED BY <3>1, <3>2
  <2> QED BY <1>2, <1>3, <2>1, TimesStay DEF Window!DeafIfWrapped
<1>5. CASE program # "nodata"
  <2>1. leg' = "rest" /\ UNCHANGED <<answer, window>>
    BY <1>5 DEF Window!RespHeard
  <2> QED BY <1>2, <1>4, <2>1 DEF WindowInv, WindowsFit, Window!TypeOK, Window!OpensBetween,
                                  Window!AnswerFits
<1>6. CASE program = "nodata"
  <2>1. PICK mine \in Latencies, other \in ReplyLatencies :
          /\ Window!Open(Window!OpensAt("report"), answer + Window!Tail("resp") + mine)
          /\ answer' = Window!Scheduled(Window!ReportTx, answer + Window!Tail("resp") + other)
    BY <1>6 DEF Window!RespHeard
  <2>2. leg' = "report"
    BY <1>6 DEF Window!RespHeard
  <2> DEFINE told == Window!RespTx + Window!Tail("resp") + mine
             from == Later(Window!OpensAt("report"), told)
  <2>3. told \in Nat /\ Window!RespTx + Window!Tail("resp") <= told
    BY <1>1, HostAssumption DEF Times
  <2>4. window' = [told |-> told, from |-> from, to |-> from + Window!Timeout]
    BY <1>1, <1>2, <2>1, <2>3, OpensLater DEF Times
  <2> HIDE DEF told
  <2>5. told <= Window!ReportTx - Window!Head => Covers(from, Window!ReportTx, "report")
    BY <1>1, <1>6, <2>3, ReportWindow
  <2>6. from \in Nat
    BY <1>1, <2>3 DEF Times, Later
  <2> HIDE DEF from
  <2>7. Window!ReportTx \in Nat /\ answer' \in {Window!Never, Window!ReportTx}
    BY <1>1, <2>1 DEF Times, Window!ReportTx, Window!Scheduled
  <2>8. Window!TypeOK'
    <3>1. window' \in [{"told", "from", "to"} -> Nat \cup {Window!Never}]
      BY <1>1, <2>3, <2>4, <2>6, WindowTypes DEF Times
    <3> QED BY <1>2, <2>2, <2>7, <3>1 DEF WindowInv, WindowsFit, Window!TypeOK
  <2>9. /\ window'.told = told /\ window'.from = from
        /\ window'.to = from + Window!Timeout
    BY <2>4
  <2>10. Window!AnswerFits'
    BY <1>2, <2>2, <2>5, <2>7, <2>9, TimesStay DEF Window!AnswerFits, Window!Fits, Covers
  <2> QED BY <1>2, <1>3, <1>4, <2>2, <2>8, <2>10, TimesStay
          DEF WindowInv, WindowsFit, Window!OpensBetween
<1> QED BY <1>5, <1>6

(* Every step of the exchange keeps the windows.                           *)
LEMMA WindowStep ==
  ASSUME WindowInv, [Window!Next]_(Window!vars)
  PROVE  WindowInv'
<1>1. CASE Window!SendPoll
  <2>1. Window!TypeOK'
    BY <1>1, HostAssumption DEF Window!SendPoll, Window!Closed, Window!Never, WindowInv,
         WindowsFit, Window!TypeOK
  <2> QED BY <1>1, <2>1 DEF Window!SendPoll, WindowInv, WindowsFit, Window!OpensBetween,
            Window!AnswerFits, Window!HostHasTime, Window!DeafIfWrapped
<1>2. CASE Window!PollHeard
  BY <1>2, RespWindowFits DEF Window!PollHeard
<1>3. CASE Window!PollLost
  BY <1>3, RespWindowFits DEF Window!PollLost
<1>4. CASE Window!RespHeard
  BY <1>4, RespHeardFits
<1>5. CASE Window!ReportHeard \/ Window!ReceiveTimeout
  <2>1. /\ leg' = "rest" /\ UNCHANGED <<program, option, round, answer, window>>
        /\ heard' \subseteq {"resp", "report"}
    BY <1>5 DEF Window!ReportHeard, Window!ReceiveTimeout, WindowInv, WindowsFit,
         Window!TypeOK
  <2>2. Window!DeafIfWrapped'
    BY <1>5, <2>1, TimesStay DEF Window!ReportHeard, Window!ReceiveTimeout, WindowInv,
         WindowsFit, Window!DeafIfWrapped
  <2> QED BY <2>1, <2>2 DEF WindowInv, WindowsFit, Window!TypeOK, Window!OpensBetween,
            Window!AnswerFits, Window!HostHasTime
<1>6. CASE UNCHANGED Window!vars
  <2>1. Window!HostHasTime'
    BY <1>6, TimesStay DEF Window!vars, WindowInv, WindowsFit, Window!HostHasTime,
         Window!ReportTx
  <2> QED BY <1>6, <2>1, TimesStay DEF Window!vars, WindowInv, WindowsFit, Window!TypeOK,
       Window!OpensBetween, Window!AnswerFits, Window!Fits, Window!DeafIfWrapped
<1> QED BY <1>1, <1>2, <1>3, <1>4, <1>5, <1>6 DEF Window!Next

(* At the start nothing is on air.                                         *)
LEMMA WindowInit == Window!Init => WindowInv
BY HostAssumption DEF Window!Init, WindowInv, WindowsFit, Window!TypeOK, Window!Closed,
     Window!Never, Window!OpensBetween, Window!AnswerFits, Window!HostHasTime,
     Window!DeafIfWrapped

-----------------------------------------------------------------------------
(* ErrorCounters.                                                          *)
FrameKinds == {"mine", "other", "long", "crc", "header", "solomon", "sfd", "preamble", "wait"}
PacketKinds == {"packet", "sfd", "preamble", "wait"}
NoDataPrograms == {"init_nodata", "resp_nodata"}
Late == {"CPERR", "CIAERR"}

(* What is left of a loop's reception when it begins again.                *)
LeftAtTop == {"RXFR", "RXFCG", "RXFCE", "RXPHE", "RXFSL", "CIAERR", "CPERR"}

(* The reception of a loop has raised the bits of its kind, and the CIA raises no others. *)
OneReception ==
  /\ what.kind \in IF counted \in NoDataPrograms /\ stage \in {"wait", "account"}
                   THEN PacketKinds ELSE FrameKinds
  /\ what.kind \in {"preamble", "wait"} => counted \in {"init_sts", "init_nodata"}
  /\ what.sts = sts
  /\ Errors!Raised(what.kind) \subseteq sysStatus
  /\ what.raised \subseteq Errors!Raised(what.kind) \cup Late

ReceptionInv ==
  /\ what = Errors!None \/ OneReception
  /\ sysStatus \cup cia \subseteq what.raised
  /\ stage \in {"account", "account report"} =>
       /\ OneReception
       /\ Errors!Raised(what.kind) \subseteq statusReg /\ statusReg \subseteq what.raised
  /\ stage \in {"report", "account report"} => counted = "init_nodata"
  /\ grown = [c \in Errors!Counters |-> 0]

ErrorInv ==
  /\ Errors!TypeOK
  /\ what \in [kind : FrameKinds \cup {"packet", "none"}, raised : SUBSET Errors!Bits,
               sts : [quality : Errors!Quality, warn : SUBSET Warnings]]
  /\ stage = "top" => sysStatus \subseteq LeftAtTop
  /\ stage # "top" => ReceptionInv
  /\ Errors!TrueCause /\ Errors!FailureCounted
  /\ counted \in NoDataPrograms => Errors!CountedOnce

(* The bits that a kind of reception raises.                               *)
LEMMA RaisedBits ==
  ASSUME NEW kind \in FrameKinds \cup {"packet"}
  PROVE  /\ Errors!Raised(kind) \subseteq Errors!Bits
         /\ "RXFCG" \in Errors!Raised(kind) <=> kind \in {"mine", "other", "long"}
         /\ "RXFR" \in Errors!Raised(kind) <=> kind \in {"mine", "other", "long", "packet",
              "crc"}
         /\ "RXFCE" \in Errors!Raised(kind) <=> kind = "crc"
         /\ "RXFSL" \in Errors!Raised(kind) <=> kind = "solomon"
         /\ "RXPHE" \in Errors!Raised(kind) <=> kind = "header"
         /\ "RXPTO" \in Errors!Raised(kind) <=> kind = "preamble"
         /\ "RXFTO" \in Errors!Raised(kind) <=> kind = "wait"
         /\ "RXSTO" \in Errors!Raised(kind) <=> kind = "sfd"
         /\ "ARFE" \notin Errors!Raised(kind)
BY DEF Errors!Raised, Errors!Bits, FrameKinds

(* What a program has seen of the reception it accounts for.               *)
SeenBits ==
  /\ "RXFCG" \in statusReg <=> what.kind \in {"mine", "other", "long"}
  /\ "RXFR" \in statusReg <=> what.kind \in {"mine", "other", "long", "packet", "crc"}
  /\ "RXFSL" \in statusReg <=> what.kind = "solomon"
  /\ "RXPHE" \in statusReg <=> what.kind = "header"
  /\ "RXPTO" \in statusReg <=> what.kind = "preamble"
  /\ "RXFTO" \in statusReg <=> what.kind = "wait"
  /\ "RXSTO" \in statusReg <=> what.kind = "sfd"
  /\ "ARFE" \notin statusReg
  /\ "CPERR" \in statusReg => "CPERR" \in what.raised

(* The status a program has read tells the kind of its reception.          *)
LEMMA SeenIsRaised ==
  ASSUME ErrorInv, stage \in {"account", "account report"}
  PROVE  SeenBits
<1>1. /\ Errors!Raised(what.kind) \subseteq statusReg
      /\ statusReg \subseteq what.raised
      /\ what.raised \subseteq Errors!Raised(what.kind) \cup Late
      /\ what.kind \in FrameKinds \cup {"packet"}
  BY DEF ErrorInv, ReceptionInv, OneReception, FrameKinds, PacketKinds
<1>2. \A b \in {"RXFCG", "RXFR", "RXFSL", "RXPHE", "RXPTO", "RXFTO", "RXSTO", "ARFE"} :
         b \in statusReg <=> b \in Errors!Raised(what.kind)
  BY <1>1 DEF Late
<1> HIDE <1>1
<1>3. what.kind \in FrameKinds \cup {"packet"} /\ statusReg \subseteq what.raised
  BY <1>1
<1> QED BY <1>2, <1>3, RaisedBits DEF SeenBits

(* The conditions of the counters one by one.                              *)
LEMMA Causes ==
  /\ Errors!Cause("CRC") <=> what.kind \in {"crc", "packet"}
  /\ Errors!Cause("RSE") <=> what.kind = "solomon"
  /\ Errors!Cause("PHE") <=> what.kind = "header"
  /\ Errors!Cause("SFDTO") <=> what.kind = "sfd"
  /\ Errors!Cause("PTO") <=> what.kind = "preamble"
  /\ Errors!Cause("RTO") <=> what.kind \in {"preamble", "wait", "long"}
  /\ Errors!Cause("BAD_FRAME") <=> what.kind \notin {"mine", "long"}
  /\ Errors!Cause("PREAMBLE_COUNT") <=> what.sts.quality # "good"
  /\ Errors!Cause("CP_QUAL") <=> what.sts.quality = "none"
  /\ Errors!Cause("STS_PREAMBLE") <=> "CPERR" \in what.raised
  /\ \A c \in Errors!StsCounters : Errors!Cause(c) <=> "CPERR" \in what.raised
       /\ c \in what.sts.warn
BY DEF Errors!Cause, Errors!StsCounters

(* What check_for_status_errors increments a counter for.                  *)
LEMMA StatusErrorsOf ==
  ASSUME NEW c \in Errors!StatusErrors
  PROVE  \/ c = "BAD_FRAME" /\ "RXFCG" \notin statusReg
         \/ c = "RSE" /\ "RXFSL" \in statusReg
         \/ c = "PHE" /\ "RXPHE" \in statusReg
         \/ c = "PTO" /\ "RXPTO" \in statusReg
         \/ c = "ARFE" /\ "ARFE" \in statusReg
         \/ c = "CRC" /\ "RXFR" \in statusReg /\ "RXFCG" \notin statusReg
         \/ c = "RTO" /\ ("RXFTO" \in statusReg \/ "RXPTO" \in statusReg)
         \/ c = "SFDTO" /\ "RXSTO" \in statusReg
         \/ (c = "STS_PREAMBLE" \/ c \in sts.warn) /\ "CPERR" \in statusReg
BY DEF Errors!StatusErrors, Errors!AllRxTo

(* A counter that check_for_status_errors increments has its condition.    *)
LEMMA StatusErrorsTrue ==
  ASSUME ErrorInv, stage \in {"account", "account report"}
  PROVE  /\ \A c \in Errors!StatusErrors : c \in Errors!Counters /\ Errors!Cause(c)
         /\ "PREAMBLE_COUNT" \notin Errors!StatusErrors /\ "CP_QUAL" \notin Errors!StatusErrors
         /\ "RXFCG" \notin statusReg => "BAD_FRAME" \in Errors!StatusErrors
<1>1. SeenBits
  BY SeenIsRaised
<1>2. sts.warn \subseteq Errors!StsCounters /\ what.sts = sts
  BY PartAssumptions DEF ErrorInv, Errors!TypeOK, Errors!CounterAssumption, ReceptionInv,
      OneReception
<1>3. what.kind \in FrameKinds \cup {"packet"}
  BY DEF ErrorInv, ReceptionInv, OneReception, FrameKinds, PacketKinds
<1>4. ASSUME NEW c \in Errors!StatusErrors
      PROVE  c \in Errors!Counters /\ Errors!Cause(c)
  <2>1. c \in Errors!Counters
    BY <1>2, StatusErrorsOf DEF Errors!Counters
  <2>2. Errors!Cause(c)
    BY <1>1, <1>2, <1>3, StatusErrorsOf, Causes DEF SeenBits, FrameKinds
  <2> QED BY <2>1, <2>2
<1>5. ASSUME NEW c \in {"PREAMBLE_COUNT", "CP_QUAL"}, c \in Errors!StatusErrors
      PROVE  FALSE
  BY <1>2, <1>5, StatusErrorsOf DEF Errors!StsCounters
<1>6. "RXFCG" \notin statusReg => "BAD_FRAME" \in Errors!StatusErrors
  BY DEF Errors!StatusErrors
<1> QED BY <1>4, <1>5, <1>6

(* By how much a counter grows that is in some of two sets.                *)
Ones(first, second, c) ==
  IF c \in first THEN IF c \in second THEN 2 ELSE 1 ELSE IF c \in second THEN 1 ELSE 0

(* Of two sets, a counter is in none, in one or in both.                   *)
LEMMA OnesOf ==
  ASSUME NEW first, NEW second, NEW c
  PROVE  /\ Ones(first, second, c) \in 0 .. 2
         /\ Ones(first, second, c) > 0 <=> c \in first \cup second
         /\ Ones(first, second, c) = 0 <=> c \notin first \cup second
         /\ first \cap second = {} => Ones(first, second, c) <= 1
<1>1. Ones(first, second, c) =
        IF c \in first THEN IF c \in second THEN 2 ELSE 1 ELSE IF c \in second THEN 1 ELSE 0
  BY DEF Ones
<1>2. CASE c \in first /\ c \in second
  BY <1>1, <1>2
<1>3. CASE c \in first /\ c \notin second
  BY <1>1, <1>3
<1>4. CASE c \notin first /\ c \in second
  BY <1>1, <1>4
<1>5. CASE c \notin first /\ c \notin second
  BY <1>1, <1>5
<1> QED BY <1>2, <1>3, <1>4, <1>5

(* Grow moves just the counters of its two sets.                           *)
LEMMA GrownBy ==
  ASSUME NEW first, NEW second, Errors!Grow(first, second),
         \A c \in Errors!Counters : grown[c] = 0
  PROVE  /\ grown' \in [Errors!Counters -> 0 .. 2]
         /\ \A c \in Errors!Counters :
               /\ grown'[c] > 0 <=> c \in first \cup second
               /\ grown'[c] = 0 <=> c \notin first \cup second
               /\ first \cap second = {} => grown'[c] <= 1
<1>1. ASSUME NEW c \in Errors!Counters
      PROVE  grown'[c] = Ones(first, second, c)
  <2>1. grown[c] = 0
    OBVIOUS
  <2>2. grown'[c] = grown[c] + (IF c \in first THEN 1 ELSE 0) + (IF c \in second THEN 1 ELSE 0)
    BY Zenon DEF Errors!Grow
  <2> QED BY <2>1, <2>2 DEF Ones
<1>2. grown' = [c \in Errors!Counters |-> grown'[c]]
  BY Zenon DEF Errors!Grow
<1> QED BY <1>1, <1>2, OnesOf

(* What it takes for the counters of a loop to be right: those that grow   *)
(* have their conditions, and one grows if the reception was of no use.    *)
LEMMA GrownRight ==
  ASSUME ErrorInv, stage \in {"account", "account report"},
         NEW first \in SUBSET Errors!Counters, NEW second \in SUBSET Errors!Counters,
         \A c \in first \cup second : Errors!Cause(c),
         Errors!Usable <=> first \cup second = {},
         counted \in NoDataPrograms => first \cap second = {},
         Errors!Grow(first, second), what' = what, counted' = counted
  PROVE  /\ grown' \in [Errors!Counters -> 0 .. 2]
         /\ Errors!TrueCause' /\ Errors!FailureCounted'
         /\ counted' \in NoDataPrograms => Errors!CountedOnce'
<1>1. \A c \in Errors!Counters : grown[c] = 0
  BY DEF ErrorInv, ReceptionInv
<1>2. /\ grown' \in [Errors!Counters -> 0 .. 2]
      /\ \A c \in Errors!Counters :
            /\ grown'[c] > 0 <=> c \in first \cup second
            /\ grown'[c] = 0 <=> c \notin first \cup second
            /\ first \cap second = {} => grown'[c] <= 1
  BY <1>1, GrownBy
<1>3. \A c : Errors!Cause(c)' <=> Errors!Cause(c)
  BY DEF Errors!Cause
<1>4. Errors!TrueCause'
  BY <1>2, <1>3 DEF Errors!TrueCause
<1>5. Errors!Usable' <=> Errors!Usable
  BY DEF Errors!Usable
<1>6. (\A c \in Errors!Counters : grown'[c] = 0) <=> first \cup second = {}
  BY <1>2
<1>7. Errors!FailureCounted'
  BY <1>5, <1>6 DEF Errors!FailureCounted
<1>8. counted' \in NoDataPrograms => Errors!CountedOnce'
  BY <1>2 DEF Errors!CountedOnce
<1> QED BY <1>2, <1>4, <1>7, <1>8

(* What stays of the bits that a loop clears at its end.                   *)
LEMMA LeftOver ==
  ASSUME ErrorInv, stage \in {"account", "account report"}
  PROVE  /\ Errors!Cleared \subseteq LeftAtTop
         /\ "RXFCG" \in statusReg \/ "RXFR" \in statusReg => sysStatus \subseteq LeftAtTop
<1>1. /\ sysStatus \subseteq Errors!Raised(what.kind) \cup Late
      /\ what.kind \in FrameKinds \cup {"packet"}
      /\ what.kind \in {"preamble", "wait"} => counted \in {"init_sts", "init_nodata"}
  BY DEF ErrorInv, ReceptionInv, OneReception, FrameKinds, PacketKinds
<1>2. SeenBits
  BY SeenIsRaised
<1>3. ASSUME NEW b \in sysStatus
      PROVE  \/ b \in LeftAtTop
             \/ b = "RXPTO" /\ what.kind = "preamble"
             \/ b = "RXFTO" /\ what.kind = "wait"
             \/ b = "RXSTO" /\ what.kind = "sfd"
  <2>1. b \in Late \/ b \in Errors!Raised(what.kind)
    BY <1>1
  <2> HIDE <1>1
  <2>2. what.kind \in FrameKinds \cup {"packet"}
    BY <1>1
  <2>3. b \in Late => b \in LeftAtTop
    BY DEF Late, LeftAtTop
  <2>4. b \in Errors!Raised(what.kind) =>
           \/ b \in LeftAtTop
           \/ b = "RXPTO" /\ what.kind = "preamble"
           \/ b = "RXFTO" /\ what.kind = "wait"
           \/ b = "RXSTO" /\ what.kind = "sfd"
    BY <2>2 DEF Errors!Raised, LeftAtTop, FrameKinds
  <2> QED BY <2>1, <2>3, <2>4
<1>4. Errors!Cleared \subseteq LeftAtTop
  BY <1>1, <1>3 DEF Errors!Cleared, Errors!Initiator, Errors!AllRxTo, Errors!AllRxErr
<1>5. "RXFCG" \in statusReg \/ "RXFR" \in statusReg => sysStatus \subseteq LeftAtTop
  BY <1>2, <1>3 DEF SeenBits
<1> QED BY <1>4, <1>5

(* The state in which a loop begins again.                                 *)
LEMMA BackAtTop ==
  ASSUME ErrorInv, stage \in {"account", "account report"}, stage' = "top",
         NEW first \in SUBSET Errors!Counters, NEW second \in SUBSET Errors!Counters,
         \A c \in first \cup second : Errors!Cause(c),
         Errors!Usable <=> first \cup second = {},
         counted \in NoDataPrograms => first \cap second = {},
         Errors!Grow(first, second),
         sysStatus' \in SUBSET LeftAtTop,
         UNCHANGED <<what, counted, cia, sts, statusReg>>
  PROVE  ErrorInv'
<1>1. /\ grown' \in [Errors!Counters -> 0 .. 2]
      /\ Errors!TrueCause' /\ Errors!FailureCounted'
      /\ counted' \in NoDataPrograms => Errors!CountedOnce'
  BY GrownRight
<1>2. Errors!TypeOK'
  BY <1>1 DEF ErrorInv, Errors!TypeOK, LeftAtTop, Errors!Bits
<1> QED BY <1>1, <1>2 DEF ErrorInv

(* The account that the programs with an STS give of a reception.          *)
LEMMA AccountStsRight ==
  ASSUME ErrorInv, Errors!AccountSts
  PROVE  ErrorInv'
<1>1. /\ stage = "account" /\ stage' = "top" /\ counted \in {"init_sts", "resp_sts"}
      /\ UNCHANGED <<what, counted, cia, sts, statusReg>>
  BY DEF Errors!AccountSts
<1>2. SeenBits
  BY <1>1, SeenIsRaised
<1>3. /\ what.kind \in FrameKinds /\ what.sts = sts
      /\ sts.quality \in Errors!Quality
  BY <1>1 DEF ErrorInv, Errors!TypeOK, ReceptionInv, OneReception, NoDataPrograms
<1>4. Errors!Usable <=> /\ what.kind = "mine" \/ (what.kind = "other" /\ counted = "resp_sts")
                        /\ sts.quality = "good"
  BY <1>1, <1>3 DEF Errors!Usable
<1>5. CASE "RXFCG" \in statusReg /\ sts.quality = "good"
  <2> DEFINE first == IF what.kind = "long" THEN {"RTO"}
                      ELSE IF what.kind = "other" /\ Errors!Initiator THEN {"BAD_FRAME"} ELSE {}
  <2>1. Errors!Grow(first, {})
    BY <1>5 DEF Errors!AccountSts
  <2>2. /\ first \subseteq Errors!Counters
        /\ \A c \in first \cup {} : Errors!Cause(c)
    BY Causes DEF Errors!Counters
  <2>3. Errors!Usable <=> first \cup {} = {}
    BY <1>1, <1>2, <1>4, <1>5 DEF SeenBits, Errors!Initiator
  <2>4. sysStatus' \in SUBSET LeftAtTop
    BY <1>1, <1>5, LeftOver DEF Errors!AccountSts
  <2> HIDE DEF first
  <2> QED BY <1>1, <2>1, <2>2, <2>3, <2>4, BackAtTop DEF NoDataPrograms
<1>6. CASE ~("RXFCG" \in statusReg /\ sts.quality = "good")
  <2> DEFINE second == Errors!BadFrame \cup Errors!QualityErrors
  <2>1. Errors!Grow(Errors!StatusErrors, second) /\ sysStatus' = Errors!Cleared
    BY <1>6 DEF Errors!AccountSts
  <2>2. /\ \A c \in Errors!StatusErrors : c \in Errors!Counters /\ Errors!Cause(c)
        /\ "RXFCG" \notin statusReg => "BAD_FRAME" \in Errors!StatusErrors
    BY <1>1, StatusErrorsTrue
  <2>3. \A c \in second : c \in Errors!Counters /\ Errors!Cause(c)
    BY <1>2, <1>3, Causes DEF SeenBits, Errors!BadFrame, Errors!QualityErrors, Errors!Counters
  <2>4. Errors!StatusErrors \cup second # {}
    BY <1>6, <2>2 DEF Errors!QualityErrors
  <2>5. ~Errors!Usable
    BY <1>2, <1>4, <1>6 DEF SeenBits
  <2>6. sysStatus' \in SUBSET LeftAtTop
    BY <1>1, <2>1, LeftOver
  <2> HIDE DEF second
  <2> QED BY <1>1, <2>1, <2>2, <2>3, <2>4, <2>5, <2>6, BackAtTop DEF NoDataPrograms
<1> QED BY <1>5, <1>6

(* The account of a reception without data, and of a poll or response.     *)
LEMMA AccountNoDataRight ==
  ASSUME ErrorInv, Errors!AccountNoData
  PROVE  ErrorInv'
<1>1. stage = "account" /\ counted \in NoDataPrograms /\ UNCHANGED <<counted, sts, statusReg>>
  BY DEF Errors!AccountNoData, NoDataPrograms
<1>2. SeenBits
  BY <1>1, SeenIsRaised
<1>3. /\ what.kind \in PacketKinds /\ what.sts = sts
      /\ sts.quality \in Errors!Quality
  BY <1>1 DEF ErrorInv, Errors!TypeOK, ReceptionInv, OneReception
<1>4. Errors!Usable <=> /\ counted = "resp_nodata" /\ what.kind = "packet"
                        /\ sts.quality = "good"
  BY <1>1, <1>3 DEF Errors!Usable, PacketKinds, NoDataPrograms
<1>5. sysStatus \subseteq {"RXFR", "RXPTO", "RXFTO", "RXSTO"} \cup Late
  BY <1>1, <1>3 DEF ErrorInv, ReceptionInv, OneReception, PacketKinds, Errors!Raised, Late
<1>6. CASE "RXFR" \in statusReg /\ sts.quality = "good"
  <2>1. what.kind = "packet" /\ sysStatus \subseteq {"RXFR"} \cup Late
    BY <1>1, <1>2, <1>3, <1>6 DEF SeenBits, PacketKinds, ErrorInv, ReceptionInv, OneReception,
         Errors!Raised, Late
  <2>2. CASE Errors!Initiator
    <3>1. /\ counted = "init_nodata" /\ stage' = "report"
          /\ what' = Errors!None /\ cia' = {} /\ grown' = grown
          /\ sysStatus' = {}
      BY <1>1, <1>6, <2>1, <2>2 DEF Errors!AccountNoData, Errors!Initiator, NoDataPrograms, Late
    <3>2. Errors!None \in [kind : {"none"}, raised : SUBSET Errors!Bits,
                           sts : [quality : Errors!Quality, warn : SUBSET Warnings]]
      BY DEF Errors!None, Errors!NoSts, Errors!Quality
    <3>3. Errors!TypeOK'
      BY <1>1, <3>1, <3>2 DEF ErrorInv, Errors!TypeOK
    <3>4. Errors!TrueCause' /\ Errors!FailureCounted'
      BY <3>1 DEF Errors!TrueCause, Errors!FailureCounted
    <3>5. ReceptionInv'
      BY <1>1, <3>1 DEF ErrorInv, ReceptionInv, Errors!None
    <3>6. counted' \in NoDataPrograms => Errors!CountedOnce'
      BY <1>1, <3>1 DEF ErrorInv, Errors!CountedOnce
    <3> QED BY <3>1, <3>2, <3>3, <3>4, <3>5, <3>6 DEF ErrorInv
  <2>3. CASE ~Errors!Initiator
    <3>1. /\ counted = "resp_nodata" /\ stage' = "top"
          /\ UNCHANGED <<sysStatus, what, cia, grown>>
      BY <1>1, <1>6, <2>3 DEF Errors!AccountNoData, Errors!Initiator, NoDataPrograms
    <3>2. grown = [c \in Errors!Counters |-> 0]
      BY <1>1 DEF ErrorInv, ReceptionInv
    <3>3. Errors!TrueCause' /\ Errors!CountedOnce'
      BY <3>1, <3>2 DEF Errors!TrueCause, Errors!CountedOnce
    <3>4. Errors!Usable' /\ \A c \in Errors!Counters : grown'[c] = 0
      BY <1>1, <1>4, <1>6, <2>1, <3>1, <3>2 DEF Errors!Usable
    <3>5. Errors!FailureCounted'
      BY <3>4 DEF Errors!FailureCounted
    <3>6. Errors!TypeOK'
      BY <1>1, <3>1 DEF ErrorInv, Errors!TypeOK
    <3>7. sysStatus' \subseteq LeftAtTop
      BY <2>1, <3>1 DEF LeftAtTop, Late
    <3> QED BY <3>1, <3>3, <3>5, <3>6, <3>7 DEF ErrorInv
  <2> QED BY <2>2, <2>3
<1>7. CASE ~("RXFR" \in statusReg /\ sts.quality = "good")
  <2>1. stage' = "top" /\ UNCHANGED <<what, cia>> /\ sysStatus' = Errors!Cleared
    BY <1>7 DEF Errors!AccountNoData
  <2>2. ~Errors!Usable
    BY <1>2, <1>4, <1>7 DEF SeenBits
  <2>3. sysStatus' \in SUBSET LeftAtTop
    BY <1>1, <2>1, LeftOver
  <2>4. CASE "RXFR" \in statusReg
    <3>1. Errors!Grow({"PREAMBLE_COUNT"}, {})
      BY <1>7, <2>4 DEF Errors!AccountNoData
    <3>2. Errors!Cause("PREAMBLE_COUNT") /\ "PREAMBLE_COUNT" \in Errors!Counters
      BY <1>3, <1>7, <2>4, Causes DEF Errors!Counters
    <3> QED BY <1>1, <2>1, <2>2, <2>3, <3>1, <3>2, BackAtTop
  <2>5. CASE "RXFR" \notin statusReg
    <3>1. Errors!Grow(Errors!StatusErrors, Errors!QualityErrors)
      BY <1>7, <2>5 DEF Errors!AccountNoData
    <3>2. /\ \A c \in Errors!StatusErrors : c \in Errors!Counters /\ Errors!Cause(c)
          /\ "PREAMBLE_COUNT" \notin Errors!StatusErrors /\ "CP_QUAL" \notin Errors!StatusErrors
          /\ "RXFCG" \notin statusReg => "BAD_FRAME" \in Errors!StatusErrors
      BY <1>1, StatusErrorsTrue
    <3>3. \A c \in Errors!QualityErrors :
             /\ c \in {"PREAMBLE_COUNT", "CP_QUAL"} /\ c \in Errors!Counters /\ Errors!Cause(c)
      BY <1>3, Causes DEF Errors!QualityErrors, Errors!Counters
    <3>4. "RXFCG" \notin statusReg
      BY <1>2, <2>5 DEF SeenBits
    <3>5. Errors!StatusErrors \cap Errors!QualityErrors = {}
      BY <3>2, <3>3
    <3>6. Errors!StatusErrors \cup Errors!QualityErrors # {}
      BY <3>2, <3>4
    <3> QED BY <1>1, <2>1, <2>2, <2>3, <3>1, <3>2, <3>3, <3>5, <3>6, BackAtTop
  <2> QED BY <2>4, <2>5
<1> QED BY <1>6, <1>7

(* The account of the report.                                              *)
LEMMA AccountReportRight ==
  ASSUME ErrorInv, Errors!AccountReport
  PROVE  ErrorInv'
<1>1. /\ stage = "account report" /\ stage' = "top" /\ sysStatus' = Errors!Cleared
      /\ UNCHANGED <<what, counted, cia, sts, statusReg>>
  BY DEF Errors!AccountReport
<1>2. SeenBits
  BY <1>1, SeenIsRaised
<1>3. counted = "init_nodata" /\ what.kind \in FrameKinds
  BY <1>1 DEF ErrorInv, ReceptionInv, OneReception
<1>4. Errors!Usable <=> what.kind = "mine"
  BY <1>3 DEF Errors!Usable
<1>5. sysStatus' \in SUBSET LeftAtTop
  BY <1>1, LeftOver
<1>6. CASE "RXFCG" \in statusReg
  <2> DEFINE first == IF what.kind = "long" THEN {"RTO"}
                      ELSE IF what.kind = "other" THEN {"BAD_FRAME"} ELSE {}
  <2>1. Errors!Grow(first, {})
    BY <1>6 DEF Errors!AccountReport
  <2>2. /\ first \subseteq Errors!Counters
        /\ \A c \in first \cup {} : Errors!Cause(c)
    BY Causes DEF Errors!Counters
  <2>3. Errors!Usable <=> first \cup {} = {}
    BY <1>2, <1>4, <1>6 DEF SeenBits
  <2> HIDE DEF first
  <2> QED BY <1>1, <1>5, <2>1, <2>2, <2>3, BackAtTop
<1>7. CASE "RXFCG" \notin statusReg
  <2>1. Errors!Grow(Errors!StatusErrors, {})
    BY <1>7 DEF Errors!AccountReport
  <2>2. /\ \A c \in Errors!StatusErrors : c \in Errors!Counters /\ Errors!Cause(c)
        /\ "BAD_FRAME" \in Errors!StatusErrors
    BY <1>1, <1>7, StatusErrorsTrue
  <2>3. ~Errors!Usable
    BY <1>2, <1>4, <1>7 DEF SeenBits
  <2> QED BY <1>1, <1>5, <2>1, <2>2, <2>3, BackAtTop
<1> QED BY <1>6, <1>7

(* The parts of the invariant about the counters hold away from the head.  *)
LEMMA NotYet ==
  ASSUME ErrorInv, stage' # "top", counted' = counted,
         grown' = [c \in Errors!Counters |-> 0]
  PROVE  /\ Errors!TrueCause' /\ Errors!FailureCounted'
         /\ counted' \in NoDataPrograms => Errors!CountedOnce'
BY DEF Errors!TrueCause, Errors!FailureCounted, Errors!CountedOnce

(* A reception raises its kind's bits, and ends the wait for them.         *)
LEMMA ReceiveRight ==
  ASSUME ErrorInv, Errors!Receive
  PROVE  ErrorInv'
<1>1. PICK kind \in Errors!Kinds, q \in Errors!Quality, w \in SUBSET Warnings,
        failed \in BOOLEAN :
         LET late == (IF w # {} THEN {"CPERR"} ELSE {}) \cup (IF failed THEN {"CIAERR"} ELSE {})
         IN  /\ sysStatus' = sysStatus \cup Errors!Raised(kind)
             /\ cia' = late
             /\ sts' = [quality |-> q, warn |-> w]
             /\ what' = [kind |-> kind, raised |-> Errors!Raised(kind) \cup late, sts |-> sts']
  BY DEF Errors!Receive
<1>2. /\ stage \in {"wait", "report"} /\ what = Errors!None
      /\ UNCHANGED <<counted, stage, statusReg, grown>>
  BY DEF Errors!Receive
<1> DEFINE late == (IF w # {} THEN {"CPERR"} ELSE {}) \cup (IF failed THEN {"CIAERR"} ELSE {})
<1>3. late \subseteq Late /\ cia' = late
  BY <1>1 DEF Late
<1> HIDE DEF late
<1>4. sysStatus = {} /\ sysStatus' = Errors!Raised(kind)
  BY <1>1, <1>2 DEF ErrorInv, ReceptionInv, Errors!None
<1>5. what' = [kind |-> kind, raised |-> Errors!Raised(kind) \cup late, sts |-> sts']
  BY <1>1 DEF late
<1>6. /\ kind \in IF counted \in NoDataPrograms
           /\ stage = "wait" THEN PacketKinds ELSE FrameKinds
      /\ kind \in {"preamble", "wait"} => counted \in {"init_sts", "init_nodata"}
  BY <1>2 DEF ErrorInv, ReceptionInv, Errors!TypeOK, Errors!Kinds, Errors!NoData,
      Errors!Initiator,
       NoDataPrograms, PacketKinds, FrameKinds
<1>7. kind \in FrameKinds \cup {"packet"} /\ Errors!Raised(kind) \subseteq Errors!Bits
  BY <1>6, RaisedBits DEF PacketKinds, FrameKinds
<1>8. /\ Errors!Raised(kind)' = Errors!Raised(kind)
      /\ Errors!Raised(what.kind)' = Errors!Raised(kind)
  BY <1>5 DEF Errors!Raised
<1>9. OneReception'
  BY <1>1, <1>2, <1>3, <1>4, <1>5, <1>6, <1>8 DEF OneReception
<1>10. ReceptionInv'
  BY <1>2, <1>3, <1>4, <1>5, <1>9 DEF ErrorInv, ReceptionInv
<1>11. grown' = [c \in Errors!Counters |-> 0] /\ stage' # "top"
  BY <1>2 DEF ErrorInv, ReceptionInv
<1>12. sts' \in [quality : Errors!Quality, warn : SUBSET Warnings]
  BY <1>1
<1>13. what' \in [kind : FrameKinds \cup {"packet", "none"}, raised : SUBSET Errors!Bits,
                  sts : [quality : Errors!Quality, warn : SUBSET Warnings]]
  BY <1>3, <1>5, <1>7, <1>12 DEF Late, Errors!Bits
<1>14. Errors!TypeOK'
  BY <1>2, <1>3, <1>4, <1>7, <1>12, <1>13 DEF ErrorInv, Errors!TypeOK, FrameKinds, Late
<1> QED BY <1>2, <1>10, <1>11, <1>13, <1>14, NotYet DEF ErrorInv

(* The CIA finishes with what was received.                                *)
LEMMA CiaDoneRight ==
  ASSUME ErrorInv, Errors!CiaDone
  PROVE  ErrorInv'
<1>1. sysStatus' = sysStatus \cup cia /\ cia' = {} /\ UNCHANGED <<counted, stage, sts,
        statusReg, what, grown>>
  BY DEF Errors!CiaDone
<1>2. cia \subseteq Late /\ Late \subseteq LeftAtTop /\ Late \subseteq Errors!Bits
  BY DEF ErrorInv, Errors!TypeOK, Late, LeftAtTop, Errors!Bits
<1>3. Errors!TypeOK'
  BY <1>1, <1>2 DEF ErrorInv, Errors!TypeOK
<1>4. Errors!TrueCause' /\ Errors!FailureCounted'
        /\ (counted' \in NoDataPrograms => Errors!CountedOnce')
  BY <1>1 DEF ErrorInv, Errors!TrueCause, Errors!FailureCounted, Errors!CountedOnce,
      Errors!Cause,
       Errors!Usable
<1>5. stage # "top" => ReceptionInv'
  BY <1>1 DEF ErrorInv, ReceptionInv, OneReception, Errors!Raised
<1> QED BY <1>1, <1>2, <1>3, <1>4, <1>5 DEF ErrorInv

(* The receiver is turned on, and the bits of the last loop cleared.       *)
LEMMA EnableRight ==
  ASSUME ErrorInv, Errors!Enable
  PROVE  ErrorInv'
<1>1. /\ stage' = "wait" /\ cia' = {} /\ what' = Errors!None
      /\ grown' = [c \in Errors!Counters |-> 0] /\ UNCHANGED <<counted, sts, statusReg>>
  BY DEF Errors!Enable
<1>2. sysStatus' = {}
  BY DEF Errors!Enable, ErrorInv, LeftAtTop
<1>3. Errors!None \in [kind : {"none"}, raised : SUBSET Errors!Bits,
                       sts : [quality : Errors!Quality, warn : SUBSET Warnings]]
  BY DEF Errors!None, Errors!NoSts, Errors!Quality
<1>4. Errors!TypeOK'
  <2>1. grown' \in [Errors!Counters -> 0 .. 2]
    BY <1>1
  <2> QED BY <1>1, <1>2, <1>3, <2>1 DEF ErrorInv, Errors!TypeOK
<1>5. ReceptionInv'
  BY <1>1, <1>2 DEF ReceptionInv, Errors!None
<1> QED BY <1>1, <1>3, <1>4, <1>5, NotYet DEF ErrorInv

(* The status is read until there is something to account for.             *)
LEMMA PollRight ==
  ASSUME ErrorInv, Errors!Poll
  PROVE  ErrorInv'
<1>1. /\ stage \in {"wait", "report"} /\ statusReg' = sysStatus
      /\ stage' = IF sysStatus \cap Errors!Awaited = {} THEN stage
                  ELSE IF stage = "wait" THEN "account" ELSE "account report"
      /\ UNCHANGED <<counted, sysStatus, cia, sts, what, grown>>
  BY DEF Errors!Poll
<1>2. stage' # "top" /\ grown' = [c \in Errors!Counters |-> 0]
  BY <1>1 DEF ErrorInv, ReceptionInv
<1>3. Errors!TypeOK'
  BY <1>1 DEF ErrorInv, Errors!TypeOK
<1>4. ASSUME what = Errors!None
      PROVE  stage' = stage
  <2>1. sysStatus = {}
    BY <1>1, <1>4 DEF ErrorInv, ReceptionInv, Errors!None
  <2>2. sysStatus \cap Errors!Awaited = {}
    BY <2>1
  <2> QED BY <1>1, <2>2, Zenon
<1>5. what # Errors!None => OneReception'
  BY <1>1 DEF ErrorInv, ReceptionInv, OneReception, Errors!Raised
<1>6. ReceptionInv'
  BY <1>1, <1>2, <1>4, <1>5 DEF ErrorInv, ReceptionInv, OneReception, Errors!Raised
<1> QED BY <1>1, <1>2, <1>3, <1>6, NotYet DEF ErrorInv

(* Every step of the loop keeps the invariant.                             *)
LEMMA ErrorsStep ==
  ASSUME ErrorInv, [Errors!Next]_(Errors!vars)
  PROVE  ErrorInv'
<1>1. CASE UNCHANGED Errors!vars
  <2>1. UNCHANGED <<counted, stage, sysStatus, cia, sts, statusReg, what, grown>>
    BY <1>1 DEF Errors!vars
  <2>2. Errors!TypeOK'
    BY <2>1 DEF ErrorInv, Errors!TypeOK
  <2>3. Errors!TrueCause' /\ Errors!FailureCounted'
        /\ (counted' \in NoDataPrograms => Errors!CountedOnce')
    BY <2>1 DEF ErrorInv, Errors!TrueCause, Errors!FailureCounted, Errors!CountedOnce,
        Errors!Cause,
         Errors!Usable
  <2>4. stage # "top" => ReceptionInv'
    BY <2>1 DEF ErrorInv, ReceptionInv, OneReception, Errors!Raised
  <2> QED BY <2>1, <2>2, <2>3, <2>4 DEF ErrorInv
<1> QED BY <1>1, AccountStsRight, AccountNoDataRight, AccountReportRight, ReceiveRight,
           CiaDoneRight, EnableRight, PollRight DEF Errors!Next, Errors!Account

(* It holds at the start.                                                  *)
LEMMA ErrorsInit == Errors!Init => ErrorInv
<1> SUFFICES ASSUME Errors!Init PROVE ErrorInv
  OBVIOUS
<1>1. Errors!None \in [kind : {"none"}, raised : SUBSET Errors!Bits,
                       sts : [quality : Errors!Quality, warn : SUBSET Warnings]]
  BY DEF Errors!None, Errors!NoSts, Errors!Quality
<1>2. grown \in [Errors!Counters -> 0 .. 2] /\ \A c \in Errors!Counters : grown[c] = 0
  BY DEF Errors!Init
<1>3. Errors!TypeOK
  BY <1>1, <1>2 DEF Errors!Init, Errors!TypeOK, Errors!NoSts, Errors!Quality
<1>4. Errors!TrueCause /\ Errors!FailureCounted /\ Errors!CountedOnce
  BY <1>2 DEF Errors!Init, Errors!TrueCause, Errors!FailureCounted, Errors!CountedOnce
<1> QED BY <1>1, <1>3, <1>4 DEF Errors!Init, ErrorInv

-----------------------------------------------------------------------------
(* SleepExamples.                                                          *)
Sleepers == [state : {"starting", "on", "sending", "asleep"}, spirdy : BOOLEAN, txfrs : BOOLEAN,
             enabled : BOOLEAN, auto : BOOLEAN, wake : SUBSET {"wup", "csn"}, slp : BOOLEAN,
             frame : -1 .. SleepWrap - 1, config : BOOLEAN]

(* Where a program sets up its chip and starts a transmission.             *)
Setting == {"configure", "configuresleep", "sleepaftertx", "quieten", "write", "start"}

(* The number to send next follows the one sent last.                      *)
NextNumber == (numberSent + 1) % SleepWrap = seq

(* ex_01b                                                                  *)
CallInv ==
  /\ ~sleeper.auto /\ pc \notin {"sleepaftertx", "quieten"}
  /\ sleeper.state = "sending" => pc = "poll"
  /\ pc \in {"select", "check"} \cup Setting => NextNumber
  /\ pc \in Setting \cup {"entersleep"} => sleeper.state = "on"
  /\ pc \in {"configuresleep", "write", "start", "poll"} => sleeper.config
  /\ pc = "start" => sleeper.frame = seq
  /\ pc = "poll" => \/ sleeper.state = "sending" /\ sleeper.frame = seq /\ NextNumber
                    \/ sleeper.state = "on" /\ numberSent = seq
  /\ pc \in {"entersleep", "pause", "wake", "awake?", "again?", "restore"} => numberSent = seq

(* ex_01c                                                                  *)
FirstBlink ==
  /\ pc \in {"select", "check"} \cup Setting /\ seq = 0 /\ numberSent = -1
  /\ sleeper.state \in {"starting", "on"} /\ (pc \in Setting => sleeper.state = "on")
  /\ pc \in Setting \ {"configure"} => sleeper.config
  /\ pc \in {"sleepaftertx", "quieten", "write", "start"} => sleeper.slp
       /\ sleeper.wake = {"wup"}
  /\ pc \in {"quieten", "write", "start"} => sleeper.auto
  /\ pc \in {"write", "start"} => ~sleeper.enabled
  /\ pc = "start" => sleeper.frame = 0

AutoInv ==
  \/ FirstBlink
  \/ /\ pc = "pause" /\ sleeper.state = "sending" /\ sleeper.wake = {"wup"}
     /\ sleeper.slp /\ sleeper.auto /\ ~sleeper.enabled /\ sleeper.config
     /\ sleeper.frame = 0 /\ seq = 0 /\ numberSent = -1
  \/ /\ sleeper.state = "asleep" /\ sleeper.wake = {"wup"}
     /\ pc \in {"pause", "wake", "awake?", "again?", "restore", "write", "start"}

SleepInv ==
  /\ Sleep!TypeOK /\ sleeper \in Sleepers
  /\ example = "sleep" => CallInv
  /\ example = "sleep_auto" => AutoInv

(* The numbers of blinks go around.                                        *)
LEMMA WrapFacts ==
  /\ SleepWrap \in Nat /\ SleepWrap >= 2
  /\ (-1 + 1) % SleepWrap = 0
  /\ \A n \in 0 .. SleepWrap - 1 : (n + 1) % SleepWrap \in 0 .. SleepWrap - 1
BY PartAssumptions DEF Sleep!SleepAssumption

(* The programs start with a fresh chip and their first number.            *)
LEMMA SleepInit == Sleep!Init => SleepInv
<1> SUFFICES ASSUME Sleep!Init PROVE SleepInv
  OBVIOUS
<1>1. sleeper = Sleep!Fresh /\ Sleep!Fresh \in Sleepers
  BY WrapFacts DEF Sleep!Init, Sleep!Fresh, Sleepers
<1>2. Sleep!TypeOK
  BY <1>1, WrapFacts DEF Sleep!Init, Sleep!TypeOK, Sleepers
<1> QED BY <1>1, <1>2, WrapFacts
        DEF Sleep!Init, Sleep!Fresh, SleepInv, CallInv, AutoInv, FirstBlink, NextNumber, Setting

(* What a step makes of the chip, the place and the numbers.               *)
LEMMA SleepTypes ==
  ASSUME SleepInv, Sleep!Next
  PROVE  Sleep!TypeOK' /\ sleeper' \in Sleepers /\ example' = example
<1>1. sleeper \in Sleepers /\ seq \in 0 .. SleepWrap - 1 /\ numberSent \in -1 .. SleepWrap - 1
  BY DEF SleepInv, Sleep!TypeOK
<1>2. sleeper' \in Sleepers /\ numberSent' \in -1 .. SleepWrap - 1
        /\ seq' \in 0 .. SleepWrap - 1 /\ example' = example
  <2>0. -1 \in -1 .. SleepWrap - 1 /\ 0 .. SleepWrap - 1 \subseteq -1 .. SleepWrap - 1
    BY WrapFacts
  <2>00. ASSUME NEW c \in Sleepers PROVE Sleep!Asleep(c) \in Sleepers
    BY <2>0 DEF Sleep!Asleep, Sleepers
  <2>1. CASE Sleep!Starts
    BY <1>1, <2>0, <2>1 DEF Sleep!Starts, Sleep!Quiet, Sleepers
  <2>2. CASE Sleep!Transmitted
    <3>1. sleeper.frame \in -1 .. SleepWrap - 1
      BY <1>1 DEF Sleepers
    <3>2. [sleeper EXCEPT !.state = "on", !.txfrs = TRUE] \in Sleepers
      BY <1>1 DEF Sleepers
    <3> QED BY <1>1, <2>00, <2>2, <3>1, <3>2 DEF Sleep!Transmitted
  <2>3. CASE Sleep!Select
    BY <1>1, <2>0, <2>3 DEF Sleep!Select, Sleep!Quiet, Sleepers, Sleep!Fresh
  <2>4. CASE Sleep!Check
    BY <1>1, <2>0, <2>4 DEF Sleep!Check, Sleep!Quiet, Sleepers
  <2>5. CASE Sleep!Configure
    BY <1>1, <2>0, <2>5 DEF Sleep!Configure, Sleep!Quiet, Sleepers, Sleep!Registers
  <2>6. CASE Sleep!ConfigureSleep
    BY <1>1, <2>0, <2>6 DEF Sleep!ConfigureSleep, Sleep!Quiet, Sleepers, Sleep!Registers
  <2>7. CASE Sleep!SleepAfterTx
    BY <1>1, <2>0, <2>7 DEF Sleep!SleepAfterTx, Sleep!Quiet, Sleepers, Sleep!Registers
  <2>8. CASE Sleep!Quieten
    BY <1>1, <2>0, <2>8 DEF Sleep!Quieten, Sleep!Quiet, Sleepers, Sleep!Registers
  <2>9. CASE Sleep!WriteFrame
    BY <1>1, <2>0, <2>9 DEF Sleep!WriteFrame, Sleep!Quiet, Sleepers, Sleep!Registers
  <2>10. CASE Sleep!StartTx
    BY <1>1, <2>0, <2>10 DEF Sleep!StartTx, Sleep!Quiet, Sleepers, Sleep!Registers
  <2>11. CASE Sleep!PollSent
    BY <1>1, <2>0, <2>11 DEF Sleep!PollSent, Sleep!Quiet, Sleepers
  <2>12. CASE Sleep!EnterSleep
    BY <1>1, <2>00, <2>12 DEF Sleep!EnterSleep, Sleep!Registers, Sleep!Quiet
  <2>13. CASE Sleep!Pause
    BY <1>1, <2>0, <2>13 DEF Sleep!Pause, Sleep!Quiet, Sleepers
  <2>14. CASE Sleep!WakeUp
    BY <1>1, <2>0, <2>14 DEF Sleep!WakeUp, Sleep!Quiet, Sleepers, Sleep!ChipSelect
  <2>15. CASE Sleep!CheckAwake
    BY <1>1, <2>0, <2>15 DEF Sleep!CheckAwake, Sleep!Quiet, Sleepers, Sleep!ChipSelect
  <2>16. CASE Sleep!Restore
    BY <1>1, <2>16, WrapFacts DEF Sleep!Restore, Sleep!Registers, Sleepers
  <2> QED BY <2>1, <2>2, <2>3, <2>4, <2>5, <2>6, <2>7, <2>8, <2>9, <2>10, <2>11, <2>12, <2>13,
      <2>14, <2>15, <2>16 DEF Sleep!Next, Sleep!Setup, Sleep!Loop
<1>3. pc' \in {"select", "check", "configure", "configuresleep", "sleepaftertx", "quieten",
        "write",
               "start", "poll", "entersleep", "pause", "wake", "awake?", "again?", "restore"}
  BY DEF SleepInv, Sleep!TypeOK, Sleep!Next, Sleep!Starts, Sleep!Transmitted, Sleep!Setup,
      Sleep!Select, Sleep!Check, Sleep!Configure, Sleep!ConfigureSleep, Sleep!SleepAfterTx,
         Sleep!Quieten, Sleep!Loop, Sleep!WriteFrame, Sleep!StartTx, Sleep!PollSent,
           Sleep!EnterSleep, Sleep!Pause, Sleep!WakeUp,
      Sleep!CheckAwake, Sleep!Restore, Sleep!Goto
<1> QED BY <1>2, <1>3 DEF SleepInv, Sleep!TypeOK, Sleepers

(* Every step of the program that puts its chip to sleep by a call.        *)
LEMMA CallStep ==
  ASSUME SleepInv, example = "sleep", Sleep!Next
  PROVE  CallInv'
<1> USE DEF CallInv, Sleep!Quiet, Sleep!Goto, Sleep!Awake, Sleep!Registers, Sleep!Auto,
    NextNumber, Setting
<1>0. CallInv /\ sleeper \in Sleepers /\ seq \in 0 .. SleepWrap - 1
        /\ numberSent \in -1 .. SleepWrap - 1
  BY DEF SleepInv, Sleep!TypeOK
<1>1. CASE Sleep!Starts
  BY <1>0, <1>1 DEF Sleep!Starts, Sleepers
<1>2. CASE Sleep!Transmitted
  BY <1>0, <1>2 DEF Sleep!Transmitted, Sleepers
<1>3. CASE Sleep!Select
  BY <1>0, <1>3 DEF Sleep!Select, Sleep!Fresh
<1>4. CASE Sleep!Check
  BY <1>0, <1>4 DEF Sleep!Check
<1>5. CASE Sleep!Configure
  BY <1>0, <1>5 DEF Sleep!Configure, Sleepers
<1>6. CASE Sleep!ConfigureSleep
  BY <1>0, <1>6 DEF Sleep!ConfigureSleep, Sleepers
<1>7. CASE Sleep!SleepAfterTx \/ Sleep!Quieten
  BY <1>0, <1>7 DEF Sleep!SleepAfterTx, Sleep!Quieten
<1>8. CASE Sleep!WriteFrame
  BY <1>0, <1>8 DEF Sleep!WriteFrame, Sleepers
<1>9. CASE Sleep!StartTx
  BY <1>0, <1>9 DEF Sleep!StartTx, Sleepers
<1>10. CASE Sleep!PollSent
  BY <1>0, <1>10 DEF Sleep!PollSent, Sleepers
<1>11. CASE Sleep!EnterSleep
  BY <1>0, <1>11 DEF Sleep!EnterSleep, Sleep!Asleep, Sleepers
<1>12. CASE Sleep!Pause
  BY <1>0, <1>12 DEF Sleep!Pause
<1>13. CASE Sleep!WakeUp
  BY <1>0, <1>13 DEF Sleep!WakeUp, Sleep!ChipSelect, Sleepers
<1>14. CASE Sleep!CheckAwake
  BY <1>0, <1>14 DEF Sleep!CheckAwake, Sleep!ChipSelect, Sleepers
<1>15. CASE Sleep!Restore
  BY <1>0, <1>15, SleepTypes DEF Sleep!Restore
<1> QED BY <1>1, <1>2, <1>3, <1>4, <1>5, <1>6, <1>7, <1>8, <1>9, <1>10, <1>11, <1>12, <1>13,
    <1>14,
           <1>15 DEF Sleep!Next, Sleep!Setup, Sleep!Loop

(* Every step of the program whose chip sleeps after it has sent.          *)
LEMMA AutoStep ==
  ASSUME SleepInv, example = "sleep_auto", Sleep!Next
  PROVE  AutoInv'
<1> USE DEF AutoInv, FirstBlink, Sleep!Quiet, Sleep!Goto, Sleep!Awake, Sleep!Registers,
    Sleep!Auto, Setting
<1>0. AutoInv /\ sleeper \in Sleepers /\ seq \in 0 .. SleepWrap - 1
        /\ numberSent \in -1 .. SleepWrap - 1
  BY DEF SleepInv, Sleep!TypeOK
<1>1. CASE Sleep!Starts
  BY <1>0, <1>1 DEF Sleep!Starts, Sleepers
<1>2. CASE Sleep!Transmitted
  BY <1>0, <1>2 DEF Sleep!Transmitted, Sleep!Asleep, Sleep!Irq, Sleepers
<1>3. CASE Sleep!Select
  BY <1>0, <1>3 DEF Sleep!Select, Sleep!Fresh
<1>4. CASE Sleep!Check
  BY <1>0, <1>4 DEF Sleep!Check
<1>5. CASE Sleep!Configure
  BY <1>0, <1>5 DEF Sleep!Configure, Sleepers
<1>6. CASE Sleep!ConfigureSleep
  BY <1>0, <1>6 DEF Sleep!ConfigureSleep, Sleepers
<1>7. CASE Sleep!SleepAfterTx \/ Sleep!Quieten
  BY <1>0, <1>7 DEF Sleep!SleepAfterTx, Sleep!Quieten, Sleepers
<1>8. CASE Sleep!WriteFrame
  BY <1>0, <1>8 DEF Sleep!WriteFrame, Sleepers
<1>9. CASE Sleep!StartTx
  BY <1>0, <1>9 DEF Sleep!StartTx, Sleepers
<1>10. CASE Sleep!PollSent \/ Sleep!EnterSleep
  BY <1>0, <1>10 DEF Sleep!PollSent, Sleep!EnterSleep
<1>12. CASE Sleep!Pause
  BY <1>0, <1>12 DEF Sleep!Pause
<1>13. CASE Sleep!WakeUp
  BY <1>0, <1>13 DEF Sleep!WakeUp, Sleep!ChipSelect, Sleepers
<1>14. CASE Sleep!CheckAwake
  BY <1>0, <1>14 DEF Sleep!CheckAwake, Sleep!ChipSelect, Sleepers
<1>15. CASE Sleep!Restore
  BY <1>0, <1>15 DEF Sleep!Restore
<1> QED BY <1>1, <1>2, <1>3, <1>4, <1>5, <1>6, <1>7, <1>8, <1>9, <1>10, <1>12, <1>13, <1>14,
           <1>15 DEF Sleep!Next, Sleep!Setup, Sleep!Loop

(* So both keep the invariant.                                             *)
LEMMA SleepStep ==
  ASSUME SleepInv, [Sleep!Next]_(Sleep!vars)
  PROVE  SleepInv'
<1>1. CASE UNCHANGED Sleep!vars
  BY <1>1 DEF Sleep!vars, SleepInv, Sleep!TypeOK, CallInv, AutoInv, FirstBlink, NextNumber
<1>2. CASE Sleep!Next
  BY <1>2, SleepTypes, CallStep, AutoStep DEF SleepInv
<1> QED BY <1>1, <1>2

(* A frame leaves the chip with its configuration and the next number.     *)
Leaves == sleeper.state = "sending" /\ sleeper'.state # "sending"
            => sleeper.config /\ numberSent' = (numberSent + 1) % SleepWrap

(* A frame leaves only as the chip is done with it.                        *)
LEMMA FramesLeave ==
  ASSUME SleepInv, Sleep!Next
  PROVE  Leaves
<1> SUFFICES ASSUME sleeper.state = "sending", sleeper'.state # "sending"
             PROVE  sleeper.config /\ numberSent' = (numberSent + 1) % SleepWrap
  BY DEF Leaves
<1>1. /\ sleeper.config /\ sleeper.frame = (numberSent + 1) % SleepWrap
      /\ pc \in {"poll", "pause"}
  BY WrapFacts DEF SleepInv, Sleep!TypeOK, CallInv, AutoInv, FirstBlink, NextNumber
<1>2. Sleep!Transmitted
  BY <1>1 DEF Sleep!Next, Sleep!Starts, Sleep!Setup, Sleep!Select, Sleep!Check,
      Sleep!Configure, Sleep!ConfigureSleep, Sleep!SleepAfterTx,
         Sleep!Quieten, Sleep!Loop, Sleep!WriteFrame, Sleep!StartTx, Sleep!PollSent,
           Sleep!EnterSleep, Sleep!Pause, Sleep!WakeUp,
      Sleep!CheckAwake, Sleep!Restore, Sleep!Awake
<1> QED BY <1>1, <1>2 DEF Sleep!Transmitted

(* The invariant says what is checked of the programs.                     *)
LEMMA SleepHolds == SleepInv => Sleep!TypeOK /\ (example = "sleep" => Sleep!WritesHeard)
BY DEF SleepInv, CallInv, Setting, Sleep!WritesHeard, Sleep!Awake

-----------------------------------------------------------------------------
(* BlinkExamples.                                                          *)
SenderInv ==
  /\ tx \in {"setup", "halted", "write", "start"} => (last + 1) % BlinkWrap = txMsg
  /\ tx \in {"start", "sent"} => txBuffer = txMsg
  /\ tx \in {"sent", "pause"} => last = txMsg
  /\ tx # "sent" => ~txfrs /\ onAir.from # "blink"
  /\ tx = "sent" => (txfrs <=> onAir.from # "blink")

ReceiverInv ==
  /\ on => rx = "poll" /\ rxStatus = {}
  /\ rx \in {"setup", "top", "halted"} => rxStatus = {}
  /\ rx \in {"setup", "halted"} => seen = {}
  /\ rx = "account" => seen = rxStatus
  /\ rx \in {"poll", "account"} => buffer = Blink!Cleared
  /\ rxStatus \in {{}, {"RXFCG"}, {"error"}}

BlinkTypes ==
  /\ tx \in {"setup", "write", "start", "sent", "pause", "halted"}
  /\ txMsg \in 0 .. BlinkWrap - 1 /\ txBuffer \in 0 .. BlinkWrap - 1
       /\ last \in -1 .. BlinkWrap - 1
  /\ txfrs \in BOOLEAN
  /\ onAir \in Blink!Frames /\ rxChip \in Blink!Frames
  /\ rx \in {"setup", "top", "poll", "account", "halted"}
  /\ seen \subseteq {"RXFCG", "error"}
  /\ on \in BOOLEAN
  /\ frameLen \in 0 .. Blink!FrameLenMax
  /\ buffer \in [Places -> {Blink!Zero, "blink", "stranger"}]

BlinkInv == BlinkTypes /\ SenderInv /\ ReceiverInv /\ Blink!BreakPoint

(* The frames on air or in the receiver are whole, of legal length.        *)
LEMMA FramesOf ==
  ASSUME NEW f \in Blink!Frames
  PROVE  /\ f.whole = TRUE /\ f.len \in 0 .. Blink!FrameLenMax
         /\ f.from \in {"none", "blink", "stranger"}
         /\ f.from = "none" => f.len = 0
         /\ [f EXCEPT !.whole = TRUE] = f
<1>0. BlinkWrap \in Nat
  BY PartAssumptions DEF Blink!BlinkAssumption
<1>1. Lengths \subseteq 2 .. 127
  BY PartAssumptions DEF Blink!BlinkAssumption, Blink!FcsLen, Blink!FrameLenMax
<1>2. CASE f = Blink!Silence
  <2>1. f = [from |-> "none", n |-> 0, len |-> 0, whole |-> TRUE]
    BY <1>2 DEF Blink!Silence
  <2>2. f \in [from : {"none", "blink", "stranger"}, n : Nat, len : Nat, whole : BOOLEAN]
          /\ f.whole = TRUE
    BY <1>1, <1>0, <2>1
  <2>3. f.len \in 0 .. Blink!FrameLenMax
    BY <2>1 DEF Blink!FrameLenMax
  <2> QED BY <2>1, <2>2, <2>3
<1>3. CASE \E n \in 0 .. BlinkWrap - 1 : f = Blink!Blink(n)
  <2>1. PICK n \in 0 .. BlinkWrap - 1 : f = [from |-> "blink", n |-> n, len |-> 12,
          whole |-> TRUE]
    BY <1>3 DEF Blink!Blink, Blink!BlinkLength
  <2>2. f \in [from : {"none", "blink", "stranger"}, n : Nat, len : Nat, whole : BOOLEAN]
          /\ f.whole = TRUE
    BY <1>1, <1>0, <2>1
  <2>3. f.len \in 0 .. Blink!FrameLenMax
    BY <2>1 DEF Blink!FrameLenMax
  <2> QED BY <2>1, <2>2, <2>3
<1>4. CASE \E l \in Lengths : f = Blink!Strange(l)
  <2>1. PICK l \in Lengths : f = [from |-> "stranger", n |-> 0, len |-> l, whole |-> TRUE]
    BY <1>4 DEF Blink!Strange
  <2>2. f \in [from : {"none", "blink", "stranger"}, n : Nat, len : Nat, whole : BOOLEAN]
          /\ f.whole = TRUE
    BY <1>1, <1>0, <2>1
  <2>3. f.len \in 0 .. Blink!FrameLenMax
    BY <1>1, <2>1 DEF Blink!FrameLenMax
  <2> QED BY <2>1, <2>2, <2>3
<1> QED BY <1>2, <1>3, <1>4 DEF Blink!Frames

(* The invariant says what is checked of the programs.                     *)
LEMMA BlinkHolds ==
  BlinkInv => Blink!TypeOK /\ Blink!BreakPoint /\ Blink!NothingOld /\ Blink!SentWhole
BY FramesOf DEF BlinkInv, BlinkTypes, ReceiverInv, Blink!TypeOK, Blink!NothingOld,
    Blink!SentWhole

(* The numbers of blinks go around.                                        *)
LEMMA BlinkWraps ==
  /\ BlinkWrap \in Nat /\ BlinkWrap > 1
  /\ (-1 + 1) % BlinkWrap = 0 /\ 0 \in 0 .. BlinkWrap - 1
  /\ \A n \in 0 .. BlinkWrap - 1 : (n + 1) % BlinkWrap \in 0 .. BlinkWrap - 1
BY PartAssumptions DEF Blink!BlinkAssumption

(* It holds before either program has set up its chip.                     *)
LEMMA BlinkInit == Blink!Init => BlinkInv
<1> SUFFICES ASSUME Blink!Init PROVE BlinkInv
  OBVIOUS
<1>1. BlinkTypes
  <2>1. Blink!Cleared \in [Places -> {Blink!Zero}] /\ Blink!Silence \in Blink!Frames
    BY DEF Blink!Cleared, Blink!Frames
  <2>2. 0 \in 0 .. BlinkWrap - 1 /\ -1 \in -1 .. BlinkWrap - 1 /\ 0 \in 0 .. Blink!FrameLenMax
    BY BlinkWraps DEF Blink!FrameLenMax
  <2> QED BY <2>1, <2>2 DEF Blink!Init, BlinkTypes
<1>2. SenderInv
  BY BlinkWraps DEF Blink!Init, SenderInv, Blink!Silence
<1>3. ReceiverInv /\ Blink!BreakPoint
  BY DEF Blink!Init, ReceiverInv, Blink!BreakPoint
<1> QED BY <1>1, <1>2, <1>3 DEF BlinkInv

(* The steps of the sender.                                                *)
LEMMA SenderStep ==
  ASSUME BlinkInv, Blink!Sender
  PROVE  BlinkInv'
<1>1. UNCHANGED <<rx, rxStatus, on, rxChip, seen, frameLen, buffer>>
  BY DEF Blink!Sender, Blink!SetupSender, Blink!WriteData, Blink!StartTx, Blink!PollSent,
      Blink!Pause,
         Blink!receiver
<1>2. ReceiverInv' /\ Blink!BreakPoint'
  BY <1>1 DEF BlinkInv, ReceiverInv, Blink!BreakPoint, Blink!Cleared
<1>3. onAir' = onAir \/ onAir' = Blink!Blink(txBuffer)
  BY DEF Blink!Sender, Blink!SetupSender, Blink!WriteData, Blink!StartTx, Blink!PollSent,
      Blink!Pause,
         BlinkInv, SenderInv
<1>4. BlinkTypes'
  <2>1. onAir' \in Blink!Frames
    BY <1>3 DEF BlinkInv, BlinkTypes, Blink!Frames
  <2>2. /\ tx' \in {"setup", "write", "start", "sent", "pause", "halted"}
        /\ txMsg' \in 0 .. BlinkWrap - 1 /\ txBuffer' \in 0 .. BlinkWrap - 1 
        /\ last' \in -1 .. BlinkWrap - 1 /\ txfrs' \in BOOLEAN
    <3>1. /\ 0 .. BlinkWrap - 1 \subseteq -1 .. BlinkWrap - 1
          /\ txMsg \in 0 .. BlinkWrap - 1 => (txMsg + 1) % BlinkWrap \in 0 .. BlinkWrap - 1
      BY BlinkWraps
    <3> QED BY <3>1 DEF BlinkInv, BlinkTypes, Blink!Sender, Blink!SetupSender, Blink!WriteData,
                        Blink!StartTx, Blink!PollSent, Blink!Pause
  <2> QED BY <1>1, <2>1, <2>2 DEF BlinkInv, BlinkTypes
<1>5. SenderInv'
  <2> USE DEF BlinkInv, SenderInv
  <2>1. CASE Blink!SetupSender
    BY <2>1 DEF Blink!SetupSender
  <2>2. CASE Blink!WriteData
    BY <2>2 DEF Blink!WriteData
  <2>3. CASE Blink!StartTx
    BY <2>3 DEF Blink!StartTx, Blink!Blink
  <2>4. CASE Blink!PollSent
    BY <2>4 DEF Blink!PollSent
  <2>5. CASE Blink!Pause
    BY <2>5 DEF Blink!Pause
  <2> QED BY <2>1, <2>2, <2>3, <2>4, <2>5 DEF Blink!Sender
<1> QED BY <1>2, <1>4, <1>5 DEF BlinkInv

(* A frame of somebody else.                                               *)
LEMMA StrangerStep ==
  ASSUME BlinkInv, Blink!Stranger
  PROVE  BlinkInv'
<1>1. PICK l \in Lengths : onAir' = Blink!Strange(l)
  BY DEF Blink!Stranger
<1>2. /\ tx # "sent"
      /\ UNCHANGED <<tx, txMsg, txBuffer, txfrs, last, rx, rxStatus, on, rxChip, seen,
           frameLen, buffer>>
  BY DEF Blink!Stranger, Blink!sender, Blink!receiver
<1>3. onAir' \in Blink!Frames /\ onAir'.from = "stranger"
  BY <1>1 DEF Blink!Frames, Blink!Strange
<1>4. BlinkTypes'
  BY <1>2, <1>3 DEF BlinkInv, BlinkTypes
<1>5. SenderInv'
  BY <1>2, <1>3 DEF BlinkInv, SenderInv
<1>6. ReceiverInv' /\ Blink!BreakPoint'
  BY <1>2 DEF BlinkInv, ReceiverInv, Blink!BreakPoint, Blink!Cleared
<1> QED BY <1>4, <1>5, <1>6 DEF BlinkInv

(* A frame ends, received or not.                                          *)
LEMMA EndsStep ==
  ASSUME BlinkInv, Blink!Ends
  PROVE  BlinkInv'
<1>1. /\ onAir' = Blink!Silence /\ txfrs' = (txfrs \/ onAir.from = "blink")
      /\ UNCHANGED <<tx, txMsg, txBuffer, last, rx, seen, frameLen, buffer>>
      /\ \/ /\ on /\ on' = FALSE
            /\ \/ rxChip' = onAir /\ rxStatus' = rxStatus \cup {"RXFCG"}
               \/ rxChip' = rxChip /\ rxStatus' = rxStatus \cup {"error"}
         \/ rxChip' = rxChip /\ rxStatus' = rxStatus /\ on' = on
  BY DEF Blink!Ends
<1>2. onAir' \in Blink!Frames /\ onAir'.from = "none"
  BY <1>1 DEF Blink!Frames, Blink!Silence
<1>3. BlinkTypes'
  <2>1. on' \in BOOLEAN /\ txfrs' \in BOOLEAN /\ rxChip' \in Blink!Frames
    <3>1. txfrs' \in BOOLEAN
      BY <1>1, Zenon
    <3>2. on' \in BOOLEAN /\ rxChip' \in Blink!Frames
      BY <1>1 DEF BlinkInv, BlinkTypes
    <3> QED BY <3>1, <3>2
  <2>2. Blink!Frames' = Blink!Frames
    BY DEF Blink!Frames
  <2> QED BY <1>1, <1>2, <2>1 DEF BlinkInv, BlinkTypes
<1>4. SenderInv'
  BY <1>1, <1>2 DEF BlinkInv, SenderInv, BlinkTypes
<1>5. rxStatus' = rxStatus \/ rxStatus' \in {{"RXFCG"}, {"error"}}
  BY <1>1 DEF BlinkInv, ReceiverInv
<1>6. Blink!Cleared' = Blink!Cleared
  BY DEF Blink!Cleared
<1>7. ReceiverInv'
  BY <1>1, <1>5, <1>6 DEF BlinkInv, ReceiverInv
<1>8. Blink!BreakPoint'
  BY <1>1 DEF BlinkInv, ReceiverInv, Blink!BreakPoint
<1> QED BY <1>3, <1>4, <1>7, <1>8 DEF BlinkInv

(* The steps of the receiver.                                              *)
LEMMA ReceiverStep ==
  ASSUME BlinkInv, Blink!Receiver
  PROVE  BlinkInv'
<1>1. UNCHANGED <<tx, txMsg, txBuffer, txfrs, last, onAir, rxChip>>
  BY DEF Blink!Receiver, Blink!SetupReceiver, Blink!Top, Blink!PollStatus, Blink!Account,
      Blink!sender
<1>2. SenderInv'
  BY <1>1 DEF BlinkInv, SenderInv
<1>3. CASE Blink!SetupReceiver
  BY <1>1, <1>2, <1>3 DEF Blink!SetupReceiver, BlinkInv, BlinkTypes, ReceiverInv,
      Blink!BreakPoint, Blink!Cleared
<1>4. CASE Blink!Top
  <2>1. /\ rx = "top" /\ rx' = "poll" /\ on' = TRUE /\ buffer' = Blink!Cleared
        /\ UNCHANGED <<rxStatus, seen, frameLen>>
    BY <1>4 DEF Blink!Top
  <2>2. Blink!Cleared' = Blink!Cleared /\ Blink!Cleared \in [Places -> {Blink!Zero}]
    BY DEF Blink!Cleared
  <2>3. BlinkTypes'
    BY <1>1, <2>1, <2>2 DEF BlinkInv, BlinkTypes
  <2>4. ReceiverInv' /\ Blink!BreakPoint'
    BY <2>1, <2>2 DEF BlinkInv, ReceiverInv, Blink!BreakPoint
  <2> QED BY <1>2, <2>3, <2>4 DEF BlinkInv
<1>5. CASE Blink!PollStatus
  <2>1. /\ rx = "poll" /\ seen' = rxStatus
        /\ rx' = IF rxStatus \cap Blink!Awaited = {} THEN "poll" ELSE "account"
        /\ UNCHANGED <<rxStatus, on, frameLen, buffer>>
    BY <1>5 DEF Blink!PollStatus
  <2>2. Blink!Cleared' = Blink!Cleared /\ (rxStatus = {} => rx' = "poll")
    BY <2>1 DEF Blink!Cleared
  <2>3. BlinkTypes'
    BY <1>1, <2>1 DEF BlinkInv, BlinkTypes, ReceiverInv
  <2>4. ReceiverInv' /\ Blink!BreakPoint'
    BY <2>1, <2>2 DEF BlinkInv, ReceiverInv, Blink!BreakPoint
  <2> QED BY <1>2, <2>3, <2>4 DEF BlinkInv
<1>6. CASE Blink!Account
  <2>1. /\ rx = "account" /\ rx' = "top" /\ ~on /\ UNCHANGED <<on, seen>>
        /\ seen = rxStatus /\ rxStatus \in {{}, {"RXFCG"}, {"error"}} /\ buffer = Blink!Cleared
    BY <1>6 DEF Blink!Account, BlinkInv, ReceiverInv
  <2>2. rxStatus' = {}
    BY <1>6, <2>1 DEF Blink!Account
  <2>3. rxChip.len \in 0 .. Blink!FrameLenMax
        /\ (rxChip.len > 0 => rxChip.from \in {"blink", "stranger"})
    <3>1. /\ rxChip.len \in 0 .. Blink!FrameLenMax /\ rxChip.from \in {"none", "blink",
               "stranger"}
          /\ rxChip.from = "none" => rxChip.len = 0
      BY FramesOf DEF BlinkInv, BlinkTypes
    <3> QED BY <3>1
  <2>4. CASE "RXFCG" \in seen
    <3>1. /\ frameLen' = rxChip.len
          /\ buffer' = [p \in Places |-> IF p <= rxChip.len - Blink!FcsLen THEN rxChip.from ELSE Blink!Zero]
      BY <1>6, <2>1, <2>3, <2>4 DEF Blink!Account, Blink!Cleared
    <3>2. ASSUME NEW p \in Places, p <= rxChip.len - Blink!FcsLen
          PROVE  rxChip.from \in {"blink", "stranger"}
      <4>1. p \in Nat
        BY PartAssumptions DEF Blink!BlinkAssumption, Blink!FrameLenMax
      <4> QED BY <2>3, <3>2, <4>1 DEF Blink!FcsLen
    <3>3. buffer' \in [Places -> {Blink!Zero, "blink", "stranger"}]
      BY <3>1, <3>2
    <3>4. BlinkTypes'
      BY <1>1, <2>1, <2>3, <3>1, <3>3 DEF BlinkInv, BlinkTypes
    <3>5. ReceiverInv' /\ Blink!BreakPoint'
      BY <1>1, <2>1, <2>2, <3>1 DEF ReceiverInv, Blink!BreakPoint
    <3> QED BY <1>2, <3>4, <3>5 DEF BlinkInv
  <2>5. CASE "RXFCG" \notin seen
    <3>1. frameLen' = frameLen /\ buffer' = buffer
      BY <1>6, <2>5 DEF Blink!Account
    <3>2. BlinkTypes'
      BY <1>1, <2>1, <3>1 DEF BlinkInv, BlinkTypes
    <3>3. ReceiverInv' /\ Blink!BreakPoint'
      BY <2>1, <2>2, <2>5 DEF ReceiverInv, Blink!BreakPoint
    <3> QED BY <1>2, <3>2, <3>3 DEF BlinkInv
  <2> QED BY <2>4, <2>5
<1> QED BY <1>3, <1>4, <1>5, <1>6 DEF Blink!Receiver

(* So every step keeps the invariant.                                      *)
LEMMA BlinkStep ==
  ASSUME BlinkInv, [Blink!Next]_(Blink!vars)
  PROVE  BlinkInv'
<1>1. CASE UNCHANGED Blink!vars
  BY <1>1 DEF Blink!vars, BlinkInv, BlinkTypes, SenderInv, ReceiverInv, Blink!BreakPoint,
      Blink!Cleared
<1> QED BY <1>1, SenderStep, StrangerStep, EndsStep, ReceiverStep DEF Blink!Next

(* Blinks are sent with one number after the other.                        *)
LEMMA NumbersFollow ==
  ASSUME BlinkInv, [Blink!Next]_(Blink!vars), last' # last
  PROVE  last' = (last + 1) % BlinkWrap
BY DEF BlinkInv, SenderInv, Blink!Next, Blink!vars, Blink!Sender, Blink!SetupSender,
    Blink!WriteData,
   Blink!StartTx, Blink!PollSent, Blink!Pause, Blink!Stranger, Blink!Ends, Blink!Receiver,
     Blink!SetupReceiver,
   Blink!Top, Blink!PollStatus, Blink!Account, Blink!sender

-----------------------------------------------------------------------------
(* ExampleRanging.                                                         *)
PlainTypes ==
  /\ ranging \in {"plain", "sts", "nodata"}
  /\ at \in [Plain!Devices -> {"top", "sent", "listen", "report", "answer", "sending",
       "reporting", "reported"}]
  /\ at["init"] \in {"top", "sent", "listen", "report"}
  /\ at["resp"] \in {"top", "listen", "answer", "sending", "reporting", "reported"}
  /\ started \in [Plain!Devices -> BOOLEAN] /\ keyed \in [Plain!Devices -> BOOLEAN]
  /\ stsOn \in [Plain!Devices -> BOOLEAN]
  /\ counter \in [Plain!Devices -> Nat]
  /\ exchange \in 0 .. Tags
  /\ stamps \in [pollRx : 0 .. Tags, respTx : 0 .. Tags]

(* A device has its mode, its key, and its counter n frames on.            *)
AtPlace(d, n) ==
  /\ stsOn[d] <=> Plain!Sts
  /\ Plain!Sts => keyed[d] /\ counter[d] = n

DeviceInv ==
  /\ \A d \in Plain!Devices : started[d] /\ Plain!Sts => keyed[d]
  /\ \A d \in Plain!Devices : ranging # "nodata" => (stsOn[d] <=> Plain!Sts)
  /\ at["init"] = "sent" => AtPlace("init", 0)
  /\ at["init"] = "listen" => AtPlace("init", 1)
  /\ at["init"] = "report" => ~stsOn["init"] /\ ranging = "nodata"
  /\ at["resp"] = "listen" => AtPlace("resp", 0)
  /\ at["resp"] = "answer" => AtPlace("resp", 1)
  /\ at["resp"] \in {"reporting", "reported"} => ~stsOn["resp"] /\ ranging = "nodata"
  /\ at["resp"] \in Plain!Busy => stamps.pollRx = exchange
  /\ at["resp"] \in Plain!Busy \ {"answer"} => stamps.respTx = exchange

(* The frame on air holds the mode, the key and the counter of its sender. *)
OnAirAt(n) ==
  /\ air.sts \in BOOLEAN /\ (air.sts <=> Plain!Sts)
  /\ Plain!Sts => air.keyed /\ air.counter = n

AirInv ==
  /\ air.kind \in {"none", "poll", "resp", "report"}
  /\ at["init"] = "sent" <=> air.kind = "poll"
  /\ air.kind = "poll" => OnAirAt(0) /\ air.ex = exchange
  /\ air.kind = "resp" => at["resp"] = "sending" /\ OnAirAt(1)
  /\ air.kind = "report" => at["resp"] = "reported" /\ air.sts = FALSE
  /\ air.kind \in {"resp", "report"} =>
       /\ air.ex = exchange
       /\ air.stamps = [pollRx |-> exchange, respTx |-> exchange]

PlainInv == PlainTypes /\ DeviceInv /\ AirInv /\ Plain!OneExchange

(* The invariant says what is checked of the programs.                     *)
LEMMA PlainHolds ==
  PlainInv => Plain!TypeOK /\ Plain!Aligned /\ Plain!OneExchange
<1> SUFFICES ASSUME PlainInv PROVE Plain!TypeOK /\ Plain!Aligned
  BY DEF PlainInv
<1>1. Plain!TypeOK
  BY DEF PlainInv, PlainTypes, Plain!TypeOK
<1>2. Plain!Aligned
  BY DEF PlainInv, PlainTypes, DeviceInv, AirInv, AtPlace, OnAirAt, Plain!Aligned,
      Plain!GoodSts, Plain!Devices
<1> QED BY <1>1, <1>2

(* It holds before either device has started.                              *)
LEMMA PlainInit == Plain!Init => PlainInv
<1> SUFFICES ASSUME Plain!Init PROVE PlainInv
  OBVIOUS
<1>1. /\ ranging \in {"plain", "sts", "nodata"} /\ exchange = 0 /\ result = Plain!None
      /\ air.kind = "none" /\ stamps = [pollRx |-> 0, respTx |-> 0]
      /\ at \in [Plain!Devices -> {"top"}] /\ started \in [Plain!Devices -> {FALSE}]
      /\ keyed \in [Plain!Devices -> {FALSE}] /\ counter \in [Plain!Devices -> {0}]
  BY DEF Plain!Init, Plain!Silence
<1>2. stsOn \in [Plain!Devices -> BOOLEAN] /\ \A d \in Plain!Devices : stsOn[d] <=> Plain!Sts
  BY DEF Plain!Init, Plain!Sts
<1>3. Tags \in Nat
  BY PartAssumptions DEF Plain!ExampleAssumption
<1>4. PlainTypes
  <2>1. /\ at["init"] = "top" /\ at["resp"] = "top"
    BY <1>1 DEF Plain!Devices
  <2>2. at \in [Plain!Devices -> {"top", "sent", "listen", "report", "answer", "sending",
          "reporting", "reported"}]
    BY <1>1
  <2>3. started \in [Plain!Devices -> BOOLEAN]
    BY <1>1
  <2>4. keyed \in [Plain!Devices -> BOOLEAN]
    BY <1>1
  <2>5. counter \in [Plain!Devices -> Nat]
    BY <1>1
  <2>6. exchange \in 0 .. Tags /\ stamps \in [pollRx : 0 .. Tags, respTx : 0 .. Tags]
    BY <1>1, <1>3
  <2> QED BY <1>1, <1>2, <2>1, <2>2, <2>3, <2>4, <2>5, <2>6 DEF PlainTypes
<1>5. DeviceInv /\ AirInv /\ Plain!OneExchange
  BY <1>1, <1>2 DEF DeviceInv, AirInv, Plain!Devices, Plain!Busy, Plain!OneExchange
<1> QED BY <1>4, <1>5 DEF PlainInv

(* The exchanges are numbered up to their bound.                           *)
LEMMA PlainTags ==
  ASSUME NEW n \in 0 .. Tags
  PROVE  (n % Tags) + 1 \in 0 .. Tags
BY PartAssumptions DEF Plain!ExampleAssumption

(* Every step of either device, and every loss, keeps the invariant.       *)
LEMMA PlainStep ==
  ASSUME PlainInv, [Plain!Next]_(Plain!vars)
  PROVE  PlainInv'
<1> USE DEF PlainInv, PlainTypes, DeviceInv, AirInv, AtPlace, OnAirAt, Plain!OneExchange,
    Plain!Devices,
            Plain!Sts, Plain!Busy
<1>1. CASE Plain!SendPoll
  <2>1. exchange' \in 0 .. Tags
    BY <1>1, PlainTags DEF Plain!SendPoll
  <2> QED BY <1>1, <2>1 DEF Plain!SendPoll, Plain!LoadIv, Plain!Mode, Plain!Silence
<1>2. CASE Plain!PollReceived
  BY <1>2 DEF Plain!PollReceived, Plain!Listen, Plain!Advanced, Plain!GoodSts, Plain!Silence
<1>3. CASE Plain!PollLost
  BY <1>3 DEF Plain!PollLost, Plain!Listen, Plain!Silence
<1>4. CASE Plain!RespReceived
  <2>1. /\ at["init"] = "listen" /\ air.kind = "resp" /\ air' = Plain!Silence
        /\ counter' = Plain!Advanced("init")
        /\ UNCHANGED <<ranging, started, keyed, exchange, stamps>>
    BY <1>4 DEF Plain!RespReceived
  <2>2. Plain!GoodSts("init")
    BY <2>1 DEF Plain!GoodSts
  <2>3. CASE ranging = "nodata"
    <3>1. /\ at' = [at EXCEPT !["init"] = "report"] /\ stsOn' = [stsOn EXCEPT !["init"] = FALSE]
          /\ result' = result
      BY <1>4, <2>2, <2>3 DEF Plain!RespReceived
    <3> QED BY <2>1, <2>3, <3>1 DEF Plain!Advanced, Plain!Silence
  <2>4. CASE ranging # "nodata"
    <3>1. /\ at' = [at EXCEPT !["init"] = "top"] /\ stsOn' = stsOn
          /\ result' = Plain!Distance(air)
      BY <1>4, <2>2, <2>4 DEF Plain!RespReceived
    <3> QED BY <2>1, <2>4, <3>1 DEF Plain!Advanced, Plain!Distance, Plain!Silence
  <2> QED BY <2>3, <2>4
<1>5. CASE Plain!ReportReceived
  BY <1>5 DEF Plain!ReportReceived, Plain!Advanced, Plain!GoodSts, Plain!Distance, Plain!Silence
<1>6. CASE Plain!GiveUp
  BY <1>6 DEF Plain!GiveUp, Plain!Advanced, Plain!Silence
<1>7. CASE Plain!NoiseAtInitiator
  BY <1>7 DEF Plain!NoiseAtInitiator, Plain!Advanced
<1>8. CASE Plain!StartListening
  BY <1>8 DEF Plain!StartListening, Plain!LoadIv, Plain!Mode
<1>9. CASE Plain!SendResp
  BY <1>9 DEF Plain!SendResp, Plain!Advanced, Plain!Silence
<1>10. CASE Plain!TooLate
  BY <1>10 DEF Plain!TooLate
<1>11. CASE Plain!RespSent
  <2>1. CASE ranging = "nodata"
    <3>1. /\ at["resp"] = "sending" /\ at' = [at EXCEPT !["resp"] = "reporting"]
          /\ stsOn' = [stsOn EXCEPT !["resp"] = FALSE] /\ air.kind # "resp"
          /\ UNCHANGED <<ranging, started, keyed, counter, air, exchange, stamps, result>>
      BY <1>11, <2>1 DEF Plain!RespSent
    <3>2. PlainTypes'
      BY <3>1
    <3>3. DeviceInv'
      BY <2>1, <3>1
    <3>4. AirInv'
      BY <3>1
    <3> QED BY <3>1, <3>2, <3>3, <3>4
  <2>2. CASE ranging # "nodata"
    BY <1>11, <2>2 DEF Plain!RespSent
  <2> QED BY <2>1, <2>2
<1>12. CASE Plain!SendReport
  BY <1>12 DEF Plain!SendReport, Plain!Advanced, Plain!Silence
<1>13. CASE Plain!ReportSent
  BY <1>13 DEF Plain!ReportSent
<1>14. CASE Plain!AnswerLost
  BY <1>14 DEF Plain!AnswerLost, Plain!Silence
<1>15. CASE Plain!NoiseAtResponder
  BY <1>15 DEF Plain!NoiseAtResponder, Plain!Advanced
<1>16. CASE Plain!Restart("init")
  BY <1>16 DEF Plain!Restart, Plain!Silence
<1>17. CASE Plain!Restart("resp")
  BY <1>17 DEF Plain!Restart, Plain!Silence
<1>18. CASE UNCHANGED Plain!vars
  BY <1>18 DEF Plain!vars
<1> QED BY <1>1, <1>2, <1>3, <1>4, <1>5, <1>6, <1>7, <1>8, <1>9, <1>10, <1>11, <1>12, <1>13,
    <1>14,
           <1>15, <1>16, <1>17, <1>18 DEF Plain!Next

-----------------------------------------------------------------------------
(* AesRanging.                                                             *)
Codes == {"ok", "length", "aes", "frame", "ignore"}

AesTypes ==
  /\ crowd \in BOOLEAN
  /\ at \in [Aes!Devices -> {"top", "sent", "listen", "reporting", "answer", "sending"}]
  /\ at["init"] \in {"top", "sent", "listen", "reporting"}
  /\ at["resp"] \in {"top", "listen", "answer", "sending", "reporting"}
  /\ mac \in [Aes!Devices -> Aes!Headers]
  /\ keyReg \in [Aes!Devices -> 0 .. Aes!Keys]
  /\ seqCnt \in 0 .. SeqWrap - 1 /\ frameCnt \in 0 .. CntWrap - 1
  /\ lastPoll \in Aes!Headers
  /\ aesStatus \in [Aes!Devices -> Codes]

(* A header of a frame of the pair, which the reading device deciphers.    *)
Ours(h) == h.secure = TRUE /\ h.level = 7

(* The header that each device holds, and the count of the frames.         *)
HeaderInv ==
  /\ at["init"] # "reporting" => Ours(mac["init"])
  /\ at["resp"] \in Aes!Busy => Ours(mac["resp"]) /\ pollHeard = exchange
  /\ at["init"] = "top" => /\ frameCnt = mac["init"].cnt
                           /\ lastPoll # Aes!NoHeader => frameCnt = (lastPoll.cnt + 1) % CntWrap
  /\ at["init"] \in {"sent", "listen"} => mac["init"] = lastPoll /\ frameCnt = lastPoll.cnt
  /\ at["init"] = "listen" /\ at["resp"] = "answer" => mac["resp"].cnt = lastPoll.cnt
  /\ ~crowd => at["init"] # "reporting" /\ at["resp"] # "reporting"

(* A frame of the pair is enciphered with what its own header says.        *)
Sealed(from, to) ==
  /\ air.header \in Aes!Headers /\ Ours(air.header)
  /\ air.header.src = from /\ air.header.dst = to
  /\ air.cipher = [key |-> air.header.key, nonce |-> Aes!Nonce(air.header)]
  /\ air.ex = exchange

FrameInv ==
  /\ air.kind \in {"none", "poll", "resp", "stranger"}
  /\ at["init"] = "sent" <=> air.kind = "poll"
  /\ air.kind = "poll" => Sealed("init", "resp") /\ air.len = 57 /\ air.header = mac["init"]
                         /\ at["resp"] \notin Aes!Busy
  /\ air.kind = "resp" =>
       /\ Sealed("resp", "init") /\ air.len = 60 /\ at["resp"] = "sending"
       /\ air.stamps = [pollRx |-> exchange, respTx |-> exchange]
       /\ at["init"] = "listen" => air.header.cnt = (lastPoll.cnt + 1) % CntWrap
  /\ air.kind = "stranger" =>
       /\ crowd /\ air.header \in Aes!Headers /\ air.header.src = "nobody"
       /\ air.len \in {5, 60}

AesInv == AesTypes /\ HeaderInv /\ FrameInv /\ Aes!OneExchange

(* The invariant says what is checked of the programs.                     *)
LEMMA AesHolds ==
  AesInv => Aes!TypeOK /\ Aes!OneExchange /\ (~crowd => Aes!PeersRead)
BY DEF AesInv, AesTypes, HeaderInv, Aes!TypeOK, Aes!PeersRead, Aes!Devices, Codes

(* The numbers of sequence and of frames go around.                        *)
LEMMA AesWraps ==
  /\ AesTags \in Nat \ {0} /\ CntWrap \in Nat \ {0} /\ SeqWrap \in Nat /\ SeqWrap > 10
  /\ \A n \in Nat : (n + 1) % CntWrap \in 0 .. CntWrap - 1
  /\ \A n \in Nat : (n + 1) % SeqWrap \in 0 .. SeqWrap - 1
BY PartAssumptions DEF Aes!AesAssumption

(* The frames carry an integrity code of 16 octets.                        *)
LEMMA Mic == Aes!MicSize(7) = 16
BY DEF Aes!MicSize

(* What the frames of the pair are to the device that they are for.        *)
LEMMA SealedIsRead ==
  ASSUME NEW d \in Aes!Devices, Sealed(Aes!Peer(d), d), air.len \in {57, 60}
  PROVE  Aes!RxAes(d) = "ok"
<1>1. Aes!MicSize(air.header.level) = 16
  BY Mic DEF Sealed, Ours
<1>2. /\ ~(air.len - Aes!FcsLen < Aes!HeaderLen)
      /\ air.len - (Aes!HeaderLen + 16 + Aes!FcsLen) \in 0 .. Aes!RxBufLen
      /\ ~(Aes!HeaderLen + (air.len - (Aes!HeaderLen + 16 + Aes!FcsLen)) > Aes!RxBufferMax - 16 - Aes!FcsLen)
      /\ 16 # Aes!MicError
  BY DEF Aes!FcsLen, Aes!HeaderLen, Aes!RxBufLen, Aes!RxBufferMax, Aes!MicError
<1>3. air.header.secure /\ air.header.src = Aes!Peer(d) /\ air.header.dst = d
  BY DEF Sealed, Ours
<1>4. air.cipher = [key |-> air.header.key, nonce |-> Aes!Nonce(air.header)]
  BY DEF Sealed
<1> QED BY <1>1, <1>2, <1>3, <1>4 DEF Aes!RxAes, Aes!DoAes

(* A stranger's frame is never taken for one of the exchange.              *)
LEMMA OthersAreNot ==
  ASSUME NEW d \in Aes!Devices, air.header.src = "nobody"
  PROVE  Aes!RxAes(d) \in {"frame", "ignore"}
BY DEF Aes!RxAes, Aes!Peer, Aes!Devices

(* A header with another level of security is one.                         *)
LEMMA Resecured ==
  ASSUME NEW h \in Aes!Headers, NEW secure \in BOOLEAN, NEW level \in 0 .. 7
  PROVE  [h EXCEPT !.secure = secure, !.level = level] \in Aes!Headers
BY DEF Aes!Headers

(* The headers of both programs at their start.                            *)
LEMMA FirstHeaders ==
  /\ Aes!NoHeader \in Aes!Headers
  /\ \A d \in Aes!Devices : Aes!FirstHeader(d) \in Aes!Headers
  /\ Ours(Aes!FirstHeader("init")) /\ Aes!FirstHeader("init").cnt = 0
<1>1. /\ Aes!NoHeader \in Aes!Headers
      /\ \A d \in Aes!Devices : Aes!FirstHeader(d) \in Aes!Headers
  <2>1. 0 \in 0 .. SeqWrap - 1 /\ 0 \in 0 .. CntWrap - 1 /\ 0 \in 0 .. Aes!Keys
    BY AesWraps DEF Aes!Keys
  <2>2. Aes!NoHeader \in Aes!Headers
    BY <2>1 DEF Aes!NoHeader, Aes!Headers
  <2>3. 7 \in 0 .. 7
    OBVIOUS
  <2>4. [Aes!NoHeader EXCEPT !.secure = TRUE, !.level = 7] \in Aes!Headers
    BY <2>2, <2>3, Resecured, Zenon
  <2> QED BY <2>2, <2>4 DEF Aes!FirstHeader
<1>2. /\ Aes!FirstHeader("init").secure = TRUE /\ Aes!FirstHeader("init").level = 7
      /\ Aes!FirstHeader("init").cnt = 0
  BY DEF Aes!FirstHeader, Aes!NoHeader
<1> QED BY <1>1, <1>2 DEF Ours

(* The invariant holds before either device has started.                   *)
LEMMA AesInit == Aes!Init => AesInv
<1> SUFFICES ASSUME Aes!Init PROVE AesInv
  OBVIOUS
<1>1. Aes!NoHeader \in Aes!Headers /\ \A d \in Aes!Devices : Aes!FirstHeader(d) \in Aes!Headers
  BY FirstHeaders
<1>2. Ours(Aes!FirstHeader("init")) /\ Aes!FirstHeader("init").cnt = 0
  BY FirstHeaders
<1>3. AesTypes
  <2>1. at["init"] = "top" /\ at["resp"] = "top" /\ at \in [Aes!Devices -> {"top", "sent",
          "listen", "reporting", "answer", "sending"}]
    BY DEF Aes!Init, Aes!Devices
  <2>2. mac \in [Aes!Devices -> Aes!Headers]
    BY <1>1 DEF Aes!Init
  <2>3. keyReg \in [Aes!Devices -> 0 .. Aes!Keys]
    BY DEF Aes!Init, Aes!Keys
  <2>4. aesStatus \in [Aes!Devices -> Codes]
    BY DEF Aes!Init, Codes
  <2>5. crowd \in BOOLEAN /\ seqCnt \in 0 .. SeqWrap - 1 /\ frameCnt \in 0 .. CntWrap - 1
          /\ lastPoll \in Aes!Headers
    BY <1>1, AesWraps DEF Aes!Init, Aes!FirstSeqCnt
  <2> QED BY <2>1, <2>2, <2>3, <2>4, <2>5 DEF AesTypes
<1>4. at["init"] = "top" /\ at["resp"] = "top" /\ mac["init"] = Aes!FirstHeader("init")
        /\ frameCnt = 0
      /\ lastPoll = Aes!NoHeader /\ air.kind = "none" /\ result = Aes!None
  BY DEF Aes!Init, Aes!Devices, Aes!Silence
<1>5. HeaderInv
  BY <1>2, <1>4 DEF HeaderInv, Ours, Aes!Busy
<1>6. FrameInv
  BY <1>4 DEF FrameInv
<1> QED BY <1>3, <1>4, <1>5, <1>6 DEF AesInv, Aes!OneExchange

(* The initiator sends a poll, with the next count.                        *)
LEMMA SendPollRight ==
  ASSUME AesInv, Aes!SendPoll
  PROVE  AesInv' /\ (lastPoll # Aes!NoHeader => lastPoll'.cnt = (lastPoll.cnt + 1) % CntWrap)
<1> DEFINE header == Aes!Addressed([mac["init"] EXCEPT !.key = Aes!InitiatorKey], "init")
<1>1. /\ at["init"] = "top" /\ at["resp"] \notin Aes!Busy
      /\ keyReg' = [keyReg EXCEPT !["init"] = Aes!InitiatorKey]
      /\ exchange' = (exchange % AesTags) + 1
      /\ air' = Aes!Frame("poll", header, keyReg'["init"], Aes!Nonce(header), Aes!PollLen,
           [pollRx |-> 0, respTx |-> 0])
      /\ mac' = [mac EXCEPT !["init"] = header]
      /\ lastPoll' = header
      /\ at' = [at EXCEPT !["init"] = "sent"] /\ result' = Aes!None
      /\ UNCHANGED <<crowd, seqCnt, frameCnt, pollHeard, message, aesStatus, faults>>
  BY DEF Aes!SendPoll
<1>2. mac["init"] \in Aes!Headers /\ Ours(mac["init"]) /\ frameCnt = mac["init"].cnt
  BY <1>1 DEF AesInv, AesTypes, HeaderInv, Aes!Devices
<1>3. /\ header \in Aes!Headers /\ Ours(header) /\ header.cnt = frameCnt /\ header.key = 1
      /\ header.src = "init" /\ header.dst = "resp"
  <2>1. header = [[mac["init"] EXCEPT !.key = 1] EXCEPT !.src = "init", !.dst = "resp"]
    BY DEF Aes!Addressed, Aes!InitiatorKey, Aes!Peer
  <2>2. header \in Aes!Headers
    <3>1. header = [secure |-> mac["init"].secure, level |-> mac["init"].level,
                    seq |-> mac["init"].seq, cnt |-> mac["init"].cnt, key |-> 1,
                    src |-> "init", dst |-> "resp"]
      BY <1>2, <2>1 DEF Aes!Headers
    <3> QED BY <1>2, <3>1 DEF Aes!Headers, Aes!Devices, Aes!Keys
  <2>3. Ours(header) /\ header.cnt = frameCnt
    BY <1>2, <2>1 DEF Aes!Headers, Ours
  <2>4. header.key = 1 /\ header.src = "init" /\ header.dst = "resp"
    BY <1>2, <2>1 DEF Aes!Headers
  <2> QED BY <2>2, <2>3, <2>4
<1> HIDE DEF header
<1>4. keyReg'["init"] = 1 /\ keyReg' \in [Aes!Devices -> 0 .. Aes!Keys]
  BY <1>1 DEF AesInv, AesTypes, Aes!Devices, Aes!InitiatorKey, Aes!Keys
<1>5. /\ air'.kind = "poll" /\ air'.header = header
      /\ air'.cipher = [key |-> 1, nonce |-> Aes!Nonce(header)]
      /\ air'.len = 57 /\ air'.ex = exchange'
  BY <1>1, <1>3, <1>4, Mic DEF Aes!Frame, Ours, Aes!HeaderLen, Aes!PollLen, Aes!FcsLen
<1>6. /\ at'["init"] = "sent" /\ at'["resp"] = at["resp"] /\ mac'["init"] = header
      /\ at' \in [Aes!Devices -> {"top", "sent", "listen", "reporting", "answer", "sending"}]
      /\ mac' \in [Aes!Devices -> Aes!Headers]
  BY <1>1, <1>3 DEF AesInv, AesTypes, Aes!Devices
<1>7. AesTypes'
  BY <1>1, <1>3, <1>4, <1>6 DEF AesInv, AesTypes
<1>8. HeaderInv'
  BY <1>1, <1>3, <1>6 DEF AesInv, HeaderInv
<1>9. Aes!Nonce(air.header)' = Aes!Nonce(header)
  BY <1>5 DEF Aes!Nonce
<1>10. FrameInv'
  BY <1>1, <1>3, <1>5, <1>6, <1>9 DEF FrameInv, Sealed, Ours
<1>11. Aes!OneExchange'
  BY <1>1 DEF Aes!OneExchange, Aes!None
<1>12. lastPoll # Aes!NoHeader => lastPoll'.cnt = (lastPoll.cnt + 1) % CntWrap
  BY <1>1, <1>3 DEF AesInv, HeaderInv
<1> QED BY <1>7, <1>8, <1>10, <1>11, <1>12 DEF AesInv

(* What a device keeps of a frame that it has read.                        *)
LEMMA ReadSealed ==
  ASSUME AesInv, NEW d \in Aes!Devices, NEW own, Sealed(Aes!Peer(d), d), air.len \in {57, 60},
         Aes!ReadFrame(d, own)
  PROVE  /\ mac' = [mac EXCEPT ![d] = air.header]
         /\ keyReg' \in [Aes!Devices -> 0 .. Aes!Keys]
         /\ aesStatus' \in [Aes!Devices -> Codes]
<1>1. Aes!RxAes(d) = "ok"
  BY SealedIsRead
<1>2. ~(air.len - Aes!FcsLen < Aes!HeaderLen)
  BY DEF Aes!FcsLen, Aes!HeaderLen
<1>3. air.header.key \in 0 .. Aes!Keys
  BY DEF Sealed, Aes!Headers
<1> QED BY <1>1, <1>2, <1>3 DEF Aes!ReadFrame, AesInv, AesTypes, Codes

(* What is left of a stranger's frame at the device that reads it.         *)
LEMMA ReadOther ==
  ASSUME AesInv, NEW d \in Aes!Devices, NEW own \in Aes!Headers, air.header.src = "nobody",
         air.header \in Aes!Headers, Aes!ReadFrame(d, own)
  PROVE  /\ mac' \in [Aes!Devices -> Aes!Headers]
         /\ \A e \in Aes!Devices : e # d => mac'[e] = mac[e]
         /\ keyReg' \in [Aes!Devices -> 0 .. Aes!Keys]
         /\ aesStatus' \in [Aes!Devices -> Codes]
<1>1. Aes!RxAes(d) \in {"frame", "ignore"}
  BY OthersAreNot
<1>2. air.header.key \in 0 .. Aes!Keys
  BY DEF Aes!Headers
<1> QED BY <1>1, <1>2 DEF Aes!ReadFrame, AesInv, AesTypes, Codes

(* The header with the next numbers.                                       *)
LEMMA NumberedIs ==
  ASSUME AesInv, at["init"] = "listen"
  PROVE  /\ Aes!Numbered \in Aes!Headers /\ Ours(Aes!Numbered)
         /\ Aes!Numbered.cnt = (lastPoll.cnt + 1) % CntWrap
<1>1. /\ mac["init"] \in Aes!Headers /\ Ours(mac["init"])
      /\ frameCnt = lastPoll.cnt /\ frameCnt \in Nat /\ seqCnt \in Nat
  BY AesWraps DEF AesInv, AesTypes, HeaderInv, Aes!Devices
<1>2. (seqCnt + 1) % SeqWrap \in 0 .. SeqWrap - 1
        /\ (frameCnt + 1) % CntWrap \in 0 .. CntWrap - 1
  BY <1>1, AesWraps
<1>3. \A s \in 0 .. SeqWrap - 1, c \in 0 .. CntWrap - 1 :
         LET h == [mac["init"] EXCEPT !.seq = s, !.cnt = c]
         IN  h \in Aes!Headers /\ Ours(h) /\ h.cnt = c
  BY <1>1 DEF Aes!Headers, Ours
<1> QED BY <1>1, <1>2, <1>3 DEF Aes!Numbered

(* A frame is at the initiator: the response, or not.                      *)
LEMMA FrameAtInitiatorRight ==
  ASSUME AesInv, Aes!FrameAtInitiator
  PROVE  AesInv'
<1>1. /\ at["init"] = "listen" /\ air.kind \in {"resp", "stranger"}
      /\ seqCnt' = (seqCnt + 1) % SeqWrap /\ frameCnt' = (frameCnt + 1) % CntWrap
      /\ Aes!ReadFrame("init", Aes!Numbered)
      /\ at' = [at EXCEPT !["init"] = Aes!Then("init", "top")]
      /\ air' = Aes!Silence
      /\ UNCHANGED <<crowd, exchange, pollHeard, message, lastPoll, faults>>
  BY DEF Aes!FrameAtInitiator, Aes!CountOn
<1>2. /\ result' = IF Aes!RxAes("init") = "ok"
                   THEN [pollTx |-> exchange, pollRx |-> air.stamps.pollRx,
                         respTx |-> air.stamps.respTx, respRx |-> air.ex]
                   ELSE result
  BY DEF Aes!FrameAtInitiator
<1>3. air'.kind = "none"
  BY <1>1 DEF Aes!Silence
<1>4. /\ seqCnt' \in 0 .. SeqWrap - 1 /\ frameCnt' \in 0 .. CntWrap - 1
      /\ frameCnt' = (lastPoll.cnt + 1) % CntWrap
  BY <1>1, AesWraps DEF AesInv, AesTypes, HeaderInv
<1>5. CASE air.kind = "resp"
  <2>1. Sealed("resp", "init") /\ air.len = 60 /\ air.header.cnt = (lastPoll.cnt + 1) % CntWrap
        /\ air.stamps = [pollRx |-> exchange, respTx |-> exchange]
    BY <1>1, <1>5 DEF AesInv, FrameInv
  <2>2. Aes!RxAes("init") = "ok"
    BY <2>1, SealedIsRead DEF Aes!Devices, Aes!Peer
  <2>3. /\ mac' = [mac EXCEPT !["init"] = air.header]
        /\ keyReg' \in [Aes!Devices -> 0 .. Aes!Keys]
        /\ aesStatus' \in [Aes!Devices -> Codes]
    BY <1>1, <2>1, ReadSealed DEF Aes!Devices, Aes!Peer
  <2>4. at' = [at EXCEPT !["init"] = "top"]
    BY <1>1, <2>2 DEF Aes!Then
  <2>5. result' = [pollTx |-> exchange, pollRx |-> exchange, respTx |-> exchange,
          respRx |-> exchange]
    BY <1>2, <2>1, <2>2 DEF Sealed
  <2>6. AesTypes'
    BY <1>1, <1>4, <2>1, <2>3, <2>4 DEF AesInv, AesTypes, Sealed, Aes!Devices
  <2>7. HeaderInv'
    BY <1>1, <1>4, <2>1, <2>3, <2>4 DEF AesInv, AesTypes, HeaderInv, Sealed, Aes!Devices
  <2>8. FrameInv'
    BY <1>3, <2>4 DEF AesInv, AesTypes, FrameInv, Aes!Devices
  <2> QED BY <2>5, <2>6, <2>7, <2>8 DEF AesInv, Aes!OneExchange
<1>6. CASE air.kind = "stranger"
  <2>1. crowd /\ air.header \in Aes!Headers /\ air.header.src = "nobody"
    BY <1>6 DEF AesInv, FrameInv
  <2>2. Aes!RxAes("init") # "ok"
    BY <2>1, OthersAreNot DEF Aes!Devices
  <2>3. /\ mac' \in [Aes!Devices -> Aes!Headers] /\ mac'["resp"] = mac["resp"]
        /\ keyReg' \in [Aes!Devices -> 0 .. Aes!Keys]
        /\ aesStatus' \in [Aes!Devices -> Codes]
    BY <1>1, <2>1, ReadOther, NumberedIs DEF Aes!Devices
  <2>4. at' = [at EXCEPT !["init"] = "reporting"] /\ result' = result
    BY <1>1, <1>2, <2>2 DEF Aes!Then
  <2>5. AesTypes'
    BY <1>1, <1>4, <2>3, <2>4 DEF AesInv, AesTypes, Aes!Devices
  <2>6. HeaderInv'
    BY <1>1, <2>1, <2>3, <2>4 DEF AesInv, AesTypes, HeaderInv, Aes!Devices
  <2>7. FrameInv'
    BY <1>3, <2>4 DEF AesInv, AesTypes, FrameInv, Aes!Devices
  <2> QED BY <1>1, <2>4, <2>5, <2>6, <2>7 DEF AesInv, Aes!OneExchange
<1> QED BY <1>1, <1>5, <1>6

(* The initiator waits no longer.                                          *)
LEMMA WaitEndsRight ==
  ASSUME AesInv, Aes!WaitEnds, air' = air
  PROVE  AesInv'
<1>1. /\ at["init"] = "listen"
      /\ seqCnt' = (seqCnt + 1) % SeqWrap /\ frameCnt' = (frameCnt + 1) % CntWrap
      /\ mac' = [mac EXCEPT !["init"] = Aes!Numbered]
      /\ at' = [at EXCEPT !["init"] = "top"]
      /\ UNCHANGED <<crowd, keyReg, exchange, pollHeard, message, lastPoll, result, aesStatus>>
  BY DEF Aes!WaitEnds, Aes!CountOn
<1>2. /\ seqCnt' \in 0 .. SeqWrap - 1 /\ frameCnt' \in 0 .. CntWrap - 1
      /\ frameCnt' = (lastPoll.cnt + 1) % CntWrap
  BY <1>1, AesWraps DEF AesInv, AesTypes, HeaderInv
<1>3. /\ Aes!Numbered \in Aes!Headers /\ Ours(Aes!Numbered)
      /\ Aes!Numbered.cnt = (lastPoll.cnt + 1) % CntWrap
  BY <1>1, NumberedIs
<1>4. AesTypes'
  BY <1>1, <1>2, <1>3 DEF AesInv, AesTypes, Aes!Devices
<1>5. HeaderInv'
  BY <1>1, <1>2, <1>3 DEF AesInv, AesTypes, HeaderInv, Aes!Devices
<1>6. FrameInv'
  BY <1>1 DEF AesInv, AesTypes, FrameInv, Sealed, Ours, Aes!Nonce, Aes!Devices
<1> QED BY <1>1, <1>4, <1>5, <1>6 DEF AesInv, Aes!OneExchange

(* A frame is at the responder: the poll, or not.                          *)
LEMMA FrameAtResponderRight ==
  ASSUME AesInv, Aes!FrameAtResponder
  PROVE  AesInv'
<1>1. /\ at["resp"] = "listen" /\ air.kind \in {"poll", "stranger"}
      /\ Aes!ReadFrame("resp", mac["resp"])
      /\ at' = [at EXCEPT !["resp"] = Aes!Then("resp", "answer"),
                          !["init"] = IF air.kind = "poll" THEN "listen" ELSE @]
      /\ pollHeard' = air.ex /\ air' = Aes!Silence
      /\ UNCHANGED <<crowd, seqCnt, frameCnt, exchange, message, lastPoll, result, faults>>
  BY DEF Aes!FrameAtResponder
<1>2. air'.kind = "none"
  BY <1>1 DEF Aes!Silence
<1>3. CASE air.kind = "poll"
  <2>1. Sealed("init", "resp") /\ air.len = 57 /\ air.header = mac["init"]
          /\ at["init"] = "sent"
    BY <1>3 DEF AesInv, FrameInv
  <2>2. Aes!RxAes("resp") = "ok"
    BY <2>1, SealedIsRead DEF Aes!Devices, Aes!Peer
  <2>3. /\ mac' = [mac EXCEPT !["resp"] = air.header]
        /\ keyReg' \in [Aes!Devices -> 0 .. Aes!Keys]
        /\ aesStatus' \in [Aes!Devices -> Codes]
    BY <1>1, <2>1, ReadSealed DEF Aes!Devices, Aes!Peer
  <2>4. at' = [at EXCEPT !["resp"] = "answer", !["init"] = "listen"]
    BY <1>1, <1>3, <2>2 DEF Aes!Then
  <2>5. AesTypes'
    BY <1>1, <2>1, <2>3, <2>4 DEF AesInv, AesTypes, Sealed, Aes!Devices
  <2>6. HeaderInv'
    BY <1>1, <2>1, <2>3, <2>4 DEF AesInv, AesTypes, HeaderInv, Sealed, Aes!Devices
  <2>7. FrameInv'
    BY <1>2, <2>4 DEF AesInv, AesTypes, FrameInv, Aes!Devices
  <2> QED BY <1>1, <2>5, <2>6, <2>7 DEF AesInv, Aes!OneExchange
<1>4. CASE air.kind = "stranger"
  <2>1. crowd /\ air.header \in Aes!Headers /\ air.header.src = "nobody" /\ at["init"] # "sent"
    BY <1>4 DEF AesInv, FrameInv
  <2>2. Aes!RxAes("resp") # "ok"
    BY <2>1, OthersAreNot DEF Aes!Devices
  <2>3. /\ mac' \in [Aes!Devices -> Aes!Headers] /\ mac'["init"] = mac["init"]
        /\ keyReg' \in [Aes!Devices -> 0 .. Aes!Keys]
        /\ aesStatus' \in [Aes!Devices -> Codes]
    BY <1>1, <2>1, ReadOther DEF AesInv, AesTypes, Aes!Devices
  <2>4. at' = [at EXCEPT !["resp"] = "reporting"]
    BY <1>1, <1>4, <2>2 DEF Aes!Then, AesInv, AesTypes, Aes!Devices
  <2>5. AesTypes'
    BY <1>1, <2>3, <2>4 DEF AesInv, AesTypes, Aes!Devices
  <2>6. HeaderInv'
    BY <1>1, <2>1, <2>3, <2>4 DEF AesInv, AesTypes, HeaderInv, Aes!Devices, Aes!Busy
  <2>7. FrameInv'
    BY <1>2, <2>1, <2>4 DEF AesInv, AesTypes, FrameInv, Aes!Devices
  <2> QED BY <1>1, <2>5, <2>6, <2>7 DEF AesInv, Aes!OneExchange
<1> QED BY <1>1, <1>3, <1>4

Changed(h, key, s, c, from, to) ==
  [[h EXCEPT !.key = key, !.seq = s, !.cnt = c] EXCEPT !.src = from, !.dst = to]

(* What has been changed of a header, and what has not.                    *)
LEMMA ChangedHeader ==
  ASSUME NEW h \in Aes!Headers, Ours(h), NEW key \in 0 .. Aes!Keys, NEW s \in 0 .. SeqWrap - 1,
         NEW c \in 0 .. CntWrap - 1, NEW from \in Aes!Devices, NEW to \in Aes!Devices
  PROVE  LET n == Changed(h, key, s, c, from, to)
         IN  /\ n \in Aes!Headers /\ Ours(n)
             /\ n.key = key /\ n.src = from /\ n.dst = to /\ n.cnt = c
BY DEF Aes!Headers, Ours, Changed

(* The responder makes the poll's header that of its answer.               *)
LEMMA PrepareRight ==
  ASSUME AesInv, Aes!Prepare
  PROVE  /\ at["resp"] = "answer" /\ air.kind = "none"
         /\ keyReg' = [keyReg EXCEPT !["resp"] = 2]
              /\ keyReg' \in [Aes!Devices -> 0 .. Aes!Keys]
         /\ mac' = [mac EXCEPT !["resp"] = Aes!AnswerHeader]
         /\ Aes!AnswerHeader \in Aes!Headers /\ Ours(Aes!AnswerHeader)
         /\ Aes!AnswerHeader.key = 2 /\ Aes!AnswerHeader.src = "resp"
              /\ Aes!AnswerHeader.dst = "init"
         /\ Aes!AnswerHeader.cnt = (mac["resp"].cnt + 1) % CntWrap
         /\ UNCHANGED <<crowd, seqCnt, frameCnt, exchange, pollHeard, lastPoll, result,
              aesStatus>>
<1>1. /\ at["resp"] = "answer" /\ air = Aes!Silence
      /\ keyReg' = [keyReg EXCEPT !["resp"] = Aes!ResponderKey]
      /\ mac' = [mac EXCEPT !["resp"] = Aes!AnswerHeader]
      /\ UNCHANGED <<crowd, seqCnt, frameCnt, exchange, pollHeard, lastPoll, result, aesStatus>>
  BY DEF Aes!Prepare
<1>2. mac["resp"] \in Aes!Headers /\ Ours(mac["resp"])
  BY <1>1 DEF AesInv, AesTypes, HeaderInv, Aes!Busy, Aes!Devices
<1>3. /\ (mac["resp"].seq + 1) % SeqWrap \in 0 .. SeqWrap - 1
      /\ (mac["resp"].cnt + 1) % CntWrap \in 0 .. CntWrap - 1
  BY <1>2, AesWraps DEF Aes!Headers
<1>4. Aes!AnswerHeader =
        Changed(mac["resp"], 2, (mac["resp"].seq + 1) % SeqWrap,
                (mac["resp"].cnt + 1) % CntWrap, "resp", "init")
  BY DEF Changed, Aes!AnswerHeader, Aes!Addressed, Aes!ResponderKey, Aes!Peer
<1>5. /\ Aes!AnswerHeader \in Aes!Headers /\ Ours(Aes!AnswerHeader)
      /\ Aes!AnswerHeader.key = 2 /\ Aes!AnswerHeader.src = "resp"
           /\ Aes!AnswerHeader.dst = "init"
      /\ Aes!AnswerHeader.cnt = (mac["resp"].cnt + 1) % CntWrap
  <2>1. 2 \in 0 .. Aes!Keys /\ "resp" \in Aes!Devices /\ "init" \in Aes!Devices
    BY DEF Aes!Keys, Aes!Devices
  <2> QED BY <1>2, <1>3, <1>4, <2>1, ChangedHeader
<1>6. keyReg' = [keyReg EXCEPT !["resp"] = 2] /\ keyReg' \in [Aes!Devices -> 0 .. Aes!Keys]
  <2>1. keyReg' = [keyReg EXCEPT !["resp"] = 2] /\ keyReg \in [Aes!Devices -> 0 .. Aes!Keys]
    BY <1>1 DEF AesInv, AesTypes, Aes!ResponderKey
  <2>2. 2 \in 0 .. Aes!Keys
    BY DEF Aes!Keys
  <2> QED BY <2>1, <2>2
<1>7. air.kind = "none"
  BY <1>1 DEF Aes!Silence
<1> QED BY <1>1, <1>5, <1>6, <1>7

(* The response is sent.                                                   *)
LEMMA SendRespRight ==
  ASSUME AesInv, Aes!SendResp
  PROVE  AesInv'
<1> DEFINE header == Aes!AnswerHeader
<1>1. /\ at["resp"] = "answer" /\ air.kind = "none"
      /\ keyReg' = [keyReg EXCEPT !["resp"] = 2] /\ keyReg' \in [Aes!Devices -> 0 .. Aes!Keys]
      /\ mac' = [mac EXCEPT !["resp"] = header]
      /\ header \in Aes!Headers /\ Ours(header)
      /\ header.key = 2 /\ header.src = "resp" /\ header.dst = "init"
      /\ header.cnt = (mac["resp"].cnt + 1) % CntWrap
      /\ UNCHANGED <<crowd, seqCnt, frameCnt, exchange, pollHeard, lastPoll, result, aesStatus>>
  BY PrepareRight DEF Aes!SendResp
<1>2. /\ message' = [pollRx |-> pollHeard, respTx |-> pollHeard]
      /\ air' = Aes!Frame("resp", header, keyReg'["resp"], Aes!Nonce(header), Aes!RespLen,
           message')
      /\ at' = [at EXCEPT !["resp"] = "sending"]
  BY DEF Aes!SendResp, Aes!Answer
<1> HIDE DEF header
<1>3. keyReg'["resp"] = 2 /\ pollHeard = exchange
  BY <1>1 DEF AesInv, AesTypes, HeaderInv, Aes!Devices, Aes!Busy
<1>4. /\ air'.kind = "resp" /\ air'.header = header
      /\ air'.cipher = [key |-> 2, nonce |-> Aes!Nonce(header)]
      /\ air'.len = 60 /\ air'.ex = exchange
      /\ air'.stamps = [pollRx |-> exchange, respTx |-> exchange]
  BY <1>1, <1>2, <1>3, Mic DEF Aes!Frame, Ours, Aes!HeaderLen, Aes!RespLen, Aes!FcsLen
<1>5. at["init"] = "listen" => header.cnt = (lastPoll.cnt + 1) % CntWrap
  BY <1>1 DEF AesInv, HeaderInv
<1>6. AesTypes'
  BY <1>1, <1>2 DEF AesInv, AesTypes, Aes!Devices
<1>7. HeaderInv'
  BY <1>1, <1>2, <1>3 DEF AesInv, AesTypes, HeaderInv, Aes!Devices
<1>8. Aes!Nonce(air.header)' = Aes!Nonce(header)
  BY <1>4 DEF Aes!Nonce
<1>9. FrameInv'
  <2>1. at["init"] # "sent" /\ at'["init"] = at["init"] /\ at'["resp"] = "sending"
    BY <1>1, <1>2 DEF AesInv, AesTypes, FrameInv, Aes!Devices
  <2>2. Sealed("resp", "init")'
    BY <1>1, <1>4, <1>8 DEF Sealed, Ours
  <2> QED BY <1>1, <1>4, <1>5, <2>1, <2>2 DEF FrameInv
<1> QED BY <1>1, <1>6, <1>7, <1>9 DEF AesInv, Aes!OneExchange

(* The response is too late to be sent.                                    *)
LEMMA TooLateRight ==
  ASSUME AesInv, Aes!TooLate
  PROVE  AesInv'
<1>1. Aes!Prepare /\ at' = [at EXCEPT !["resp"] = "top"] /\ air' = air
  BY DEF Aes!TooLate
<1>2. AesTypes'
  BY <1>1, PrepareRight DEF AesInv, AesTypes, Aes!Devices
<1>3. HeaderInv'
  BY <1>1, PrepareRight DEF AesInv, AesTypes, HeaderInv, Aes!Devices, Aes!Busy
<1>4. FrameInv'
  BY <1>1, PrepareRight DEF AesInv, AesTypes, FrameInv, Aes!Devices
<1> QED BY <1>1, <1>2, <1>3, <1>4, PrepareRight DEF AesInv, Aes!OneExchange

(* Steps that leave the headers and the count alone.                       *)
LEMMA OnlyPlaces ==
  ASSUME AesInv,
         UNCHANGED <<crowd, mac, seqCnt, frameCnt, keyReg, exchange, pollHeard, lastPoll,
           result,
                     aesStatus>>,
         \/ /\ air' = air
            /\ \/ at["resp"] \in {"top", "listen"}
               \/ at["resp"] = "sending" /\ air.kind # "resp"
            /\ \E place \in {"top", "listen"} :
                  /\ place = "listen" => at["resp"] = "top"
                  /\ at' = [at EXCEPT !["resp"] = place]
         \/ air'.kind = "none" /\ at' = [at EXCEPT !["init"] = IF air.kind = "poll" THEN "listen" ELSE @]
         \/ at' = at /\ air' = air
         \/ /\ at' = at /\ crowd /\ air.kind = "none" /\ air'.kind = "stranger"
            /\ air'.header \in Aes!Headers /\ air'.header.src = "nobody" /\ air'.len \in {5, 60}
  PROVE  AesInv'
<1> USE DEF AesInv, AesTypes, HeaderInv, FrameInv, Aes!OneExchange, Aes!Devices, Aes!Busy
<1>1. CASE at' = at /\ air' = air
  BY <1>1 DEF Sealed, Ours, Aes!Nonce
<1>2. CASE air'.kind = "none" /\ at' = [at EXCEPT !["init"] = IF air.kind = "poll" THEN "listen" ELSE @]
  <2>1. CASE air.kind = "poll"
    <3>1. at' = [at EXCEPT !["init"] = "listen"] /\ at["init"] = "sent"
      BY <1>2, <2>1
    <3>2. AesTypes'
      BY <3>1
    <3>3. HeaderInv'
      BY <3>1 DEF Ours
    <3> QED BY <1>2, <3>1, <3>2, <3>3
  <2>2. CASE air.kind # "poll"
    <3>1. at' = at
      BY <1>2, <2>2
    <3> QED BY <1>2, <2>2, <3>1 DEF Ours
  <2> QED BY <2>1, <2>2
<1>3. CASE /\ at' = at /\ crowd /\ air.kind = "none" /\ air'.kind = "stranger"
           /\ air'.header \in Aes!Headers /\ air'.header.src = "nobody" /\ air'.len \in {5, 60}
  BY <1>3 DEF Ours
<1>4. CASE /\ air' = air
           /\ \/ at["resp"] \in {"top", "listen"}
              \/ at["resp"] = "sending" /\ air.kind # "resp"
           /\ \E place \in {"top", "listen"} :
                 /\ place = "listen" => at["resp"] = "top"
                 /\ at' = [at EXCEPT !["resp"] = place]
  <2>1. PICK place \in {"top", "listen"} : at' = [at EXCEPT !["resp"] = place]
    BY <1>4
  <2>2. AesTypes'
    BY <2>1
  <2>3. HeaderInv'
    BY <1>4, <2>1 DEF Ours
  <2>4. FrameInv'
    BY <1>4, <2>1 DEF Sealed, Ours, Aes!Nonce
  <2> QED BY <2>2, <2>3, <2>4
<1> QED BY <1>1, <1>2, <1>3, <1>4

(* A stranger's header.                                                    *)
LEMMA StrangersHeader ==
  ASSUME NEW secure \in BOOLEAN, NEW level \in {4, 7}
  PROVE  /\ [Aes!NoHeader EXCEPT !.secure = secure, !.level = level] \in Aes!Headers
         /\ [Aes!NoHeader EXCEPT !.secure = secure, !.level = level].src = "nobody"
<1>1. 0 \in 0 .. SeqWrap - 1 /\ 0 \in 0 .. CntWrap - 1 /\ 0 \in 0 .. Aes!Keys
  BY AesWraps DEF Aes!Keys
<1>2. Aes!NoHeader \in Aes!Headers
  BY <1>1 DEF Aes!NoHeader, Aes!Headers
<1>3. [Aes!NoHeader EXCEPT !.secure = secure, !.level = level] \in Aes!Headers
  <2>1. level \in 0 .. 7
    OBVIOUS
  <2> QED BY <1>2, <2>1, Resecured
<1> QED BY <1>3 DEF Aes!NoHeader

(* A device that starts again.                                             *)
LEMMA RestartRight ==
  ASSUME AesInv, NEW d \in Aes!Devices, Aes!Restart(d)
  PROVE  AesInv'
<1>1. /\ at' = [at EXCEPT ![d] = "top"] /\ mac' = [mac EXCEPT ![d] = Aes!FirstHeader(d)]
      /\ air' = IF air.kind = (IF d = "init" THEN "poll" ELSE "resp") THEN Aes!Silence ELSE air
      /\ UNCHANGED <<crowd, keyReg, exchange, pollHeard, result, aesStatus>>
  BY DEF Aes!Restart
<1>2. /\ Aes!NoHeader \in Aes!Headers /\ Aes!FirstHeader(d) \in Aes!Headers
      /\ Ours(Aes!FirstHeader("init")) /\ Aes!FirstHeader("init").cnt = 0
  BY FirstHeaders
<1>3. CASE d = "init"
  <2>1. seqCnt' = 10 /\ frameCnt' = 0 /\ lastPoll' = Aes!NoHeader
    BY <1>3 DEF Aes!Restart, Aes!FirstSeqCnt
  <2>2. air'.kind # "poll" /\ (air' = air \/ air'.kind = "none")
    BY <1>1, <1>3 DEF Aes!Silence
  <2>3. AesTypes'
    BY <1>1, <1>2, <1>3, <2>1, AesWraps DEF AesInv, AesTypes, Aes!Devices
  <2>4. HeaderInv'
    BY <1>1, <1>2, <1>3, <2>1 DEF AesInv, AesTypes, HeaderInv, Aes!Devices
  <2>5. FrameInv'
    BY <1>1, <1>3, <2>2 DEF AesInv, AesTypes, FrameInv, Sealed, Ours, Aes!Nonce, Aes!Devices
  <2> QED BY <1>1, <2>3, <2>4, <2>5 DEF AesInv, Aes!OneExchange
<1>4. CASE d = "resp"
  <2>1. UNCHANGED <<seqCnt, frameCnt, lastPoll>>
    BY <1>4 DEF Aes!Restart
  <2>2. air'.kind # "resp" /\ (air' = air \/ (air.kind = "resp" /\ air'.kind = "none"))
    BY <1>1, <1>4 DEF Aes!Silence
  <2>3. AesTypes'
    BY <1>1, <1>2, <1>4, <2>1 DEF AesInv, AesTypes, Aes!Devices
  <2>4. HeaderInv'
    BY <1>1, <1>4, <2>1 DEF AesInv, AesTypes, HeaderInv, Aes!Devices, Aes!Busy
  <2>5. FrameInv'
    BY <1>1, <1>4, <2>2 DEF AesInv, AesTypes, FrameInv, Sealed, Ours, Aes!Nonce, Aes!Devices,
        Aes!Busy
  <2> QED BY <1>1, <2>3, <2>4, <2>5 DEF AesInv, Aes!OneExchange
<1> QED BY <1>3, <1>4 DEF Aes!Devices

(* So every step keeps the invariant.                                      *)
LEMMA AesStep ==
  ASSUME AesInv, [Aes!Next]_(Aes!vars)
  PROVE  AesInv'
<1>1. CASE Aes!GiveUp \/ Aes!NoiseAtInitiator
  BY <1>1, WaitEndsRight DEF Aes!GiveUp, Aes!NoiseAtInitiator
<1>2. CASE Aes!StartListening \/ Aes!NoiseAtResponder
  BY <1>2, OnlyPlaces DEF Aes!StartListening, Aes!NoiseAtResponder
<1>3. CASE Aes!RespSent
  BY <1>3, OnlyPlaces DEF Aes!RespSent
<1>4. CASE Aes!FrameLost
  <2>1. air'.kind = "none"
    BY <1>4 DEF Aes!FrameLost, Aes!Silence
  <2> QED BY <1>4, <2>1, OnlyPlaces DEF Aes!FrameLost
<1>5. CASE Aes!StrangerSends
  <2>1. PICK len \in {5, 60}, secure \in BOOLEAN, level \in {4, 7} :
          air' = [kind |-> "stranger", len |-> len, ex |-> 0,
                  header |-> [Aes!NoHeader EXCEPT !.secure = secure, !.level = level],
                  cipher |-> Aes!None, stamps |-> [pollRx |-> 0, respTx |-> 0]]
    BY <1>5 DEF Aes!StrangerSends
  <2>2. air'.kind = "stranger" /\ air'.len = len
        /\ air'.header = [Aes!NoHeader EXCEPT !.secure = secure, !.level = level]
    BY <2>1
  <2>3. air'.header \in Aes!Headers /\ air'.header.src = "nobody"
    BY <2>2, StrangersHeader
  <2>4. crowd /\ air.kind = "none" /\ at' = at
        /\ UNCHANGED <<crowd, mac, seqCnt, frameCnt, keyReg, exchange, pollHeard, lastPoll,
             result, aesStatus>>
    BY <1>5 DEF Aes!StrangerSends, Aes!Silence
  <2> QED BY <2>2, <2>3, <2>4, OnlyPlaces
<1>6. CASE Aes!Report \/ UNCHANGED Aes!vars
  BY <1>6, OnlyPlaces DEF Aes!Report, Aes!vars
<1> QED BY <1>1, <1>2, <1>3, <1>4, <1>5, <1>6, SendPollRight, FrameAtInitiatorRight,
           FrameAtResponderRight, SendRespRight, TooLateRight, RestartRight DEF Aes!Next

(* From one poll to the next the count goes one on.                        *)
CountsOn == (air'.kind = "poll" /\ air' # air /\ lastPoll # Aes!NoHeader)
              => lastPoll'.cnt = (lastPoll.cnt + 1) % CntWrap

(* Only SendPoll puts a poll on air.                                       *)
LEMMA PollsCount ==
  ASSUME AesInv, Aes!Next
  PROVE  CountsOn
<1> SUFFICES ASSUME air'.kind = "poll", air' # air, lastPoll # Aes!NoHeader
             PROVE  lastPoll'.cnt = (lastPoll.cnt + 1) % CntWrap
  BY DEF CountsOn
<1>1. Aes!Silence.kind # "poll"
  BY DEF Aes!Silence
<1>2. ~Aes!FrameAtInitiator /\ ~Aes!FrameAtResponder /\ ~Aes!FrameLost
  BY <1>1 DEF Aes!FrameAtInitiator, Aes!FrameAtResponder, Aes!FrameLost
<1>3. ~Aes!GiveUp /\ ~Aes!NoiseAtInitiator /\ ~Aes!StartListening /\ ~Aes!TooLate
  BY DEF Aes!GiveUp, Aes!NoiseAtInitiator, Aes!StartListening, Aes!TooLate
<1>4. ~Aes!RespSent /\ ~Aes!NoiseAtResponder /\ ~Aes!Report
  BY DEF Aes!RespSent, Aes!NoiseAtResponder, Aes!Report, Aes!vars
<1>5. ~Aes!SendResp
  BY DEF Aes!SendResp, Aes!Answer, Aes!Frame
<1>6. ~Aes!StrangerSends
  <2> SUFFICES ASSUME Aes!StrangerSends PROVE FALSE
    OBVIOUS
  <2>1. PICK len \in {5, 60}, secure \in BOOLEAN, level \in {4, 7} :
          air' = [kind |-> "stranger", len |-> len, ex |-> 0,
                  header |-> [Aes!NoHeader EXCEPT !.secure = secure, !.level = level],
                  cipher |-> Aes!None, stamps |-> [pollRx |-> 0, respTx |-> 0]]
    BY DEF Aes!StrangerSends
  <2>2. air'.kind = "stranger"
    BY <2>1
  <2> QED BY <2>2
<1>7. \A d \in Aes!Devices : ~Aes!Restart(d)
  BY <1>1 DEF Aes!Restart
<1>8. Aes!SendPoll
  BY <1>2, <1>3, <1>4, <1>5, <1>6, <1>7 DEF Aes!Next
<1> QED BY <1>8, SendPollRight

-----------------------------------------------------------------------------
(* The theorems.                                                           *)

(* In every configuration but those of 1024 symbols, with an initiator's   *)
(* host that takes 674 uus at most and any responder's host: the receiver  *)
(* opens after the poll and before the answer, and an answer that is       *)
(* scheduled falls into the window.                                        *)
THEOREM WindowsDoFit == MCSpec => []WindowsFit
<1>1. MCInit => WindowInv
  BY WindowInit DEF MCInit
<1>2. WindowInv /\ [MCNext]_allVars => WindowInv'
  BY PartSteps, WindowStep
<1>3. WindowInv => WindowsFit
  BY DEF WindowInv
<1> QED BY <1>1, <1>2, <1>3, PTL DEF MCSpec

(* Whatever a loop receives, and with any warnings of the STS: a counter   *)
(* grows only for a condition of this loop's reception, one has grown for  *)
(* a reception that was of no use, and none for one that was.              *)
THEOREM ErrorsAreCounted == MCSpec => []ErrorsCounted
<1>1. MCInit => ErrorInv
  BY ErrorsInit DEF MCInit
<1>2. ErrorInv /\ [MCNext]_allVars => ErrorInv'
  BY PartSteps, ErrorsStep
<1>3. ErrorInv => ErrorsCounted
  BY DEF ErrorInv, ErrorsCounted, NoDataPrograms
<1> QED BY <1>1, <1>2, <1>3, PTL DEF MCSpec

(* With numbers up to any bound, frames of any legal lengths and a buffer  *)
(* looked at in any places: nothing is written to a chip that was put to   *)
(* sleep, every frame leaves with its configuration and the next number,   *)
(* and the receiver's loop begins with the last frame and nothing older.   *)
THEOREM BlinksDoHold == MCSpec => BlinksHold
<1> DEFINE Slept == Sleep!TypeOK /\ (example = "sleep" => Sleep!WritesHeard)
           Received == Blink!TypeOK /\ Blink!BreakPoint /\ Blink!NothingOld /\ Blink!SentWhole
           Follows == last' # last => last' = (last + 1) % BlinkWrap
<1>1. MCInit => SleepInv /\ BlinkInv
  BY SleepInit, BlinkInit DEF MCInit
<1>2. SleepInv /\ [MCNext]_allVars => SleepInv'
  BY PartSteps, SleepStep
<1>3. BlinkInv /\ [MCNext]_allVars => BlinkInv'
  BY PartSteps, BlinkStep
<1>4. SleepInv => Slept
  BY SleepHolds
<1>5. BlinkInv => Received
  BY BlinkHolds
<1>6. SleepInv /\ [MCNext]_allVars => [Leaves]_(Sleep!vars)
  <2> SUFFICES ASSUME SleepInv, [MCNext]_allVars PROVE [Leaves]_(Sleep!vars)
    OBVIOUS
  <2>1. CASE Sleep!Next
    BY <2>1, FramesLeave
  <2>2. CASE UNCHANGED Sleep!vars
    BY <2>2
  <2> QED BY <2>1, <2>2, PartSteps
<1>7. BlinkInv /\ [MCNext]_allVars => [Follows]_last
  BY PartSteps, NumbersFollow
<1>8. MCSpec => []Slept /\ []Received /\ [][Leaves]_(Sleep!vars) /\ [][Follows]_last
  <2> HIDE DEF Slept, Received, Follows
  <2> QED BY <1>1, <1>2, <1>3, <1>4, <1>5, <1>6, <1>7, PTL DEF MCSpec
<1>9. Sleep!SentConfigured <=> [][Leaves]_(Sleep!vars)
  BY DEF Sleep!SentConfigured, Leaves
<1>10. Blink!Consecutive <=> [][Follows]_last
  BY DEF Blink!Consecutive
<1>11. BlinksHold <=> /\ []Slept /\ Sleep!SentConfigured
                      /\ []Received /\ Blink!Consecutive
  BY DEF BlinksHold
<1> QED BY <1>8, <1>9, <1>10, <1>11

(* Any number of exchanges, with frames lost and devices started again at  *)
(* any time, and with any bounds of the counts: a frame that is waited for *)
(* meets a receiver in its mode and at its counter; the encrypted frames   *)
(* of the two devices are read by the other, while they are alone; the     *)
(* nonce goes one on; and a distance is of one exchange.                   *)
THEOREM LoopsAreInStep == MCSpec => LoopsInStep
<1> DEFINE InStep == part = "loops" => Plain!TypeOK /\ Plain!Aligned /\ Plain!OneExchange
           Read == part = "aes" => Aes!TypeOK /\ Aes!OneExchange /\ (~crowd => Aes!PeersRead)
           LoopsInv == /\ part = "loops" => PlainInv
                       /\ part = "aes" => AesInv
                       /\ part # "aes" => lastPoll = Aes!NoHeader
<1>1. MCInit => LoopsInv
  <2> SUFFICES ASSUME MCInit PROVE LoopsInv
    OBVIOUS
  <2>1. lastPoll = Aes!NoHeader
    BY DEF MCInit, Aes!Init
  <2> QED BY <2>1, PlainInit, AesInit DEF MCInit
<1>2. LoopsInv /\ [MCNext]_allVars => LoopsInv'
  <2> SUFFICES ASSUME LoopsInv, [MCNext]_allVars PROVE LoopsInv'
    OBVIOUS
  <2>1. CASE part = "aes"
    BY <2>1, PartSteps, AesStep
  <2>2. CASE part = "loops"
    <3>1. lastPoll' = lastPoll
      BY <2>2 DEF MCNext, allVars, rangingVars, aesVars
    <3> QED BY <2>2, <3>1, PartSteps, PlainStep DEF Aes!NoHeader
  <2>3. CASE part \notin {"aes", "loops"}
    <3>1. lastPoll' = lastPoll
      BY <2>3 DEF MCNext, allVars, rangingVars, aesVars
    <3> QED BY <2>3, <3>1, PartSteps DEF Aes!NoHeader
  <2> QED BY <2>1, <2>2, <2>3
<1>3. LoopsInv => InStep /\ Read
  BY PlainHolds, AesHolds
<1>4. LoopsInv /\ [MCNext]_allVars => [CountsOn]_(Aes!vars)
  <2> SUFFICES ASSUME LoopsInv, [MCNext]_allVars PROVE [CountsOn]_(Aes!vars)
    OBVIOUS
  <2>1. CASE part # "aes"
    BY <2>1 DEF CountsOn
  <2>2. CASE part = "aes" /\ Aes!Next
    BY <2>2, PollsCount
  <2>3. CASE part = "aes" /\ UNCHANGED Aes!vars
    BY <2>3
  <2> QED BY <2>1, <2>2, <2>3, PartSteps
<1>5. MCSpec => []InStep /\ []Read /\ [][CountsOn]_(Aes!vars)
  <2> HIDE DEF InStep, Read, LoopsInv
  <2> QED BY <1>1, <1>2, <1>3, <1>4, PTL DEF MCSpec
<1>6. Aes!PollsCountOn <=> [][CountsOn]_(Aes!vars)
  BY DEF Aes!PollsCountOn, CountsOn
<1>7. LoopsInStep <=> []InStep /\ []Read /\ Aes!PollsCountOn
  BY DEF LoopsInStep
<1> QED BY <1>5, <1>6, <1>7
=============================================================================
