--------------------------- MODULE ResponseWindow ---------------------------
(***************************************************************************)
(* When the initiator of a ranging example listens and when the answer is  *)
(* on air: the 35 radio configurations of dw3000_config_options.cpp, the   *)
(* delays dw3000_shared_functions.cpp derives from them, and the two       *)
(* loops of ex_06a/ex_06b (plain, STS and STS without data).               *)
(*                                                                         *)
(* Time is in UWB microseconds (uus) since the RMARKER of the poll.  The   *)
(* time on air is modelled to the uus: one uus for a preamble symbol, for  *)
(* a unit of STS length and for a bit at 850 kb/s, and eight bits a uus at *)
(* 6.8 Mb/s.  The RMARKER is the end of the SFD; then come the STS, the    *)
(* PHY header and the data.                                                *)
(***************************************************************************)
EXTENDS Integers, FiniteSets

CONSTANTS Programs,    \* the programs that run: of "plain", "sts", "nodata"
          Options,     \* the options CONFIG_OPTION_01 .. 33 that may be selected
          Latencies,   \* uus from a frame's end to the command of the initiator's host
          ReplyLatencies, \* the same for the responder's host, which may be too late
          MaxRounds    \* bound on the exchanges

WindowAssumption ==
    /\ Programs \subseteq {"plain", "sts", "nodata"}
    /\ Options \subseteq 1 .. 33
    /\ Latencies \subseteq Nat /\ ReplyLatencies \subseteq Nat
    /\ MaxRounds \in Nat

VARIABLES program,   \* the pair of examples that runs
          option,    \* the option its configuration was built with
          round,     \* exchanges begun
          leg,       \* the frame of the exchange on air: "poll", "resp", "report" or "rest"
          answer,    \* RMARKER of the frame the responder has scheduled, or Never
          window,    \* the time the initiator's receiver is on: told, from, to
          heard      \* the frames of this exchange the initiator received

vars == <<program, option, round, leg, answer, window, heard>>

Never == -1
CPU_COMP == 400

(* UUS_TO_DWT_TIME units make a uus, and the product is kept in 32 bits:   *)
(* 2^32 \div 63898 uus wrap around.                                        *)
UusWrap == 67215

----------------------------------------------------------------------------
(* The configurations.  Preamble lengths come in pairs, one option for     *)
(* channel 5 and one for channel 9.                                        *)

Record(n, rate) ==
    LET pair == ((n - 1) \div 2) % 4
    IN  [chan |-> IF n % 2 = 1 THEN 5 ELSE 9,
         plen |-> CASE pair = 0 -> 64 [] pair = 1 -> 128 [] pair = 2 -> 512 [] OTHER -> 1024,
         code |-> IF ((n - 1) \div 8) % 2 = 0 THEN 9 ELSE 10,
         rate |-> rate, sts |-> 64]

OptionsSlowCode9 == [n \in 1 .. 8 |-> Record(n, 850)]
OptionsSlowCode10 == [n \in 9 .. 16 |-> Record(n, 850)]
OptionsFastCode9 == [n \in 17 .. 24 |-> Record(n, 6800)]
OptionsFastCode10 == [n \in 25 .. 32 |-> Record(n, 6800)]
Option33 == [chan |-> 5, plen |-> 128, code |-> 9, rate |-> 6800, sts |-> 128]

Configuration(n) ==
    CASE n \in 1 .. 8 -> OptionsSlowCode9[n]
      [] n \in 9 .. 16 -> OptionsSlowCode10[n]
      [] n \in 17 .. 24 -> OptionsFastCode9[n]
      [] n \in 25 .. 32 -> OptionsFastCode10[n]
      [] OTHER -> Option33

(* The program without data runs with fixed records, with the STS in the   *)
(* packet or without it; their STS length is that of option 33.            *)
Sp3 == Option33
Sp0 == Option33

(* The plain program has a record of its own and does not look at options. *)
PlainConfig == [chan |-> 5, plen |-> 128, code |-> 9, rate |-> 6800, sts |-> 64]

(* The record the helpers are given; they look up the rate and the         *)
(* preamble in config_options whatever record they are given.              *)
Given == CASE program = "plain" -> PlainConfig
           [] program = "sts" -> Configuration(option)
           [] OTHER -> Sp3

----------------------------------------------------------------------------
(* The helpers of dw3000_shared_functions.cpp, on the preambles in use.    *)

PreambleDelay(plen) == IF plen > 128 THEN plen - 128 ELSE 0
RateDelay(rate) == IF rate = 850 THEN 200 ELSE 0
StsDelay(cfg) == cfg.sts

(* The delay is unsigned: below zero it is a time far ahead.               *)
DelayedRxTime(delay, cfg) == (delay - cfg.plen + StsDelay(cfg)) % UusWrap

(* So it is in the STS program with a preamble of 1024 symbols.            *)
Wraps == program = "sts" /\ 300 + CPU_COMP + StsDelay(Given) < Given.plen

(* Mutant: the preamble does not lengthen the timeout. *)
RespRxTimeout_Short(delay, cfg) ==
    delay + RateDelay(Configuration(option).rate) + 500
          + (IF cfg.sts >= 256 THEN cfg.sts ELSE 0)

RespRxTimeout(delay, cfg) ==
    delay + RateDelay(Configuration(option).rate)
          + PreambleDelay(Configuration(option).plen) + 500
          + (IF cfg.sts >= 256 THEN cfg.sts ELSE 0)

----------------------------------------------------------------------------
(* Frames on air.                                                          *)

PhyHeader == 21
Parity == 48
SfdSymbols == 8
Bytes(kind) == IF program = "nodata" /\ kind # "report" THEN 0
               ELSE IF kind = "poll" THEN 12 ELSE 20

HasSts(kind) == program = "sts" \/ (program = "nodata" /\ kind # "report")

(* From the RMARKER to the end of the frame.  Bits at 6.8 Mb/s take an     *)
(* eighth of a uus, and a packet without data ends with its STS.           *)
Tail(kind) ==
    LET data == 8 * Bytes(kind) + Parity
    IN  (IF HasSts(kind) THEN Given.sts ELSE 0)
        + (IF Bytes(kind) = 0 THEN 0
           ELSE PhyHeader + (IF Given.rate = 850 THEN data ELSE data \div 8 + 1))

(* From the first symbol of the preamble to the RMARKER.                   *)
Head == Given.plen + SfdSymbols

----------------------------------------------------------------------------
(* The delays of the programs: when the responder sends, relative to the   *)
(* poll's RMARKER, and when the initiator opens and for how long.          *)

RespTx ==
    IF program = "plain" THEN 450
    ELSE (IF program = "sts" THEN 450 ELSE 550) + CPU_COMP
         + RateDelay(Configuration(option).rate)
         + PreambleDelay(Configuration(option).plen) + StsDelay(Given)

ReportTx == 2 * RespTx

OpensAt(kind) ==
    CASE program = "plain" -> Tail("poll") + 240    \* counted from the end of the poll
      [] program = "sts" -> DelayedRxTime(300 + CPU_COMP, Given)
      [] program = "nodata" /\ kind = "resp" -> DelayedRxTime(450 + CPU_COMP, Sp3)
      [] OTHER -> DelayedRxTime((450 + CPU_COMP) + (650 + CPU_COMP), Sp0)

Timeout == CASE program = "plain" -> 400
             [] program = "sts" -> RespRxTimeout(700, Given)
             [] OTHER -> RespRxTimeout(1000, Sp3)

Closed == [told |-> Never, from |-> Never, to |-> Never]

Init ==
    /\ program \in Programs
    /\ option \in Options
    /\ round = 0
    /\ leg = "rest"
    /\ answer = Never
    /\ window = Closed
    /\ heard = {}

(* The initiator sends its poll.                                           *)
SendPoll ==
    /\ leg = "rest" /\ round < MaxRounds
    /\ leg' = "poll"
    /\ round' = round + 1
    /\ heard' = {}
    /\ answer' = Never
    /\ window' = Closed
    /\ UNCHANGED <<program, option>>

(* The receiver is told to open `at` at the time `now`: a time that has    *)
(* passed opens it at once.                                                *)
Open(at, now) ==
    LET from == IF at < now THEN now ELSE at
    IN  window' = [told |-> now, from |-> from, to |-> from + Timeout]

(* The plain initiator asks the chip to listen after the poll, the others  *)
(* enable the receiver once the poll is out.                               *)
Listen(latency) ==
    IF program = "plain"
    THEN Open(OpensAt("resp"), Tail("poll"))
    ELSE Open(OpensAt("resp"), Tail("poll") + latency)

(* A frame is scheduled for its RMARKER; when its preamble should already  *)
(* be on air the chip refuses and the exchange is abandoned.               *)
Scheduled(at, now) == IF now > at - Head THEN Never ELSE at

(* The poll arrives, or is lost: the responder schedules its answer while  *)
(* the initiator turns its receiver on.                                    *)
PollHeard ==
    /\ leg = "poll"
    /\ leg' = "resp"
    /\ \E mine \in Latencies, other \in ReplyLatencies :
         /\ Listen(mine)
         /\ answer' = Scheduled(RespTx, Tail("poll") + other)
    /\ UNCHANGED <<program, option, round, heard>>

PollLost ==
    /\ leg = "poll"
    /\ leg' = "resp"
    /\ \E mine \in Latencies : Listen(mine)
    /\ answer' = Never
    /\ UNCHANGED <<program, option, round, heard>>

(* The whole frame falls into the time the receiver is on.                 *)
Fits(kind) ==
    /\ answer # Never
    /\ window.from <= answer - Head
    /\ answer + Tail(kind) <= window.to

(* The answer is received.  With the STS alone the initiator goes on to    *)
(* wait for the report the responder sends once its answer is out.         *)
RespHeard ==
    /\ leg = "resp" /\ Fits("resp")
    /\ heard' = heard \cup {"resp"}
    /\ IF program = "nodata"
       THEN /\ leg' = "report"
            /\ \E mine \in Latencies, other \in ReplyLatencies :
                 /\ Open(OpensAt("report"), answer + Tail("resp") + mine)
                 /\ answer' = Scheduled(ReportTx, answer + Tail("resp") + other)
       ELSE leg' = "rest" /\ UNCHANGED <<answer, window>>
    /\ UNCHANGED <<program, option, round>>

ReportHeard ==
    /\ leg = "report" /\ Fits("report")
    /\ heard' = heard \cup {"report"}
    /\ leg' = "rest"
    /\ UNCHANGED <<program, option, round, answer, window>>

(* The receiver's timeout, when the frame does not fall into the window or *)
(* is lost on air.                                                         *)
ReceiveTimeout ==
    /\ leg \in {"resp", "report"}
    /\ leg' = "rest"
    /\ UNCHANGED <<program, option, round, answer, window, heard>>

Next == SendPoll \/ PollHeard \/ PollLost \/ RespHeard \/ ReportHeard \/ ReceiveTimeout

Spec == Init /\ [][Next]_vars

----------------------------------------------------------------------------
TypeOK ==
    /\ program \in Programs
    /\ option \in Options
    /\ round \in 0 .. MaxRounds
    /\ leg \in {"rest", "poll", "resp", "report"}
    /\ answer \in Nat \cup {Never}
    /\ window \in [{"told", "from", "to"} -> Nat \cup {Never}]
    /\ heard \subseteq {"resp", "report"}

(* An answer the responder has scheduled falls into the initiator's window *)
(* if the host had its receiver turned on by the answer's first symbol: no *)
(* delay opens it too late, and no timeout ends it too early.              *)
AnswerFits ==
    leg \in {"resp", "report"} /\ answer # Never /\ window.told <= answer - Head
        => Wraps \/ Fits(leg)

(* A host that takes no longer than this is in time in every configuration *)
(* (in the plain program the chip turns the receiver on by itself); with   *)
(* one uus more there is one in which it is not.                           *)
SlowestHost == 674

HostHasTime ==
    program # "plain" /\ ~Wraps =>
        /\ leg = "resp" => Tail("poll") + SlowestHost <= RespTx - Head
        /\ leg = "report" => RespTx + Tail("resp") + SlowestHost <= ReportTx - Head

(* The initiator's receiver does not open while its own poll is on air,    *)
(* and is on within the time it takes to answer if the host was in time.   *)
OpensBetween ==
    leg = "resp" => /\ window.from >= Tail("poll")
                    /\ window.told <= RespTx => Wraps \/ window.from <= RespTx

(* Where the delay wraps around the initiator hears nothing, ever.         *)
DeafIfWrapped == Wraps => heard = {}

(* NOTE 5 of the examples: the timeout is for the complete reception of a  *)
(* frame, chosen large enough to receive the whole response.  It is not,   *)
(* with a preamble of 1024 symbols or a host that takes longer.            *)
WholeResponse ==
    leg \in {"resp", "report"} /\ answer # Never => Fits(leg)

(* The data rate of an option is the one its comment in                    *)
(* dw3000_config_options.cpp gives.                                        *)
DocumentedRate(n) == IF n \in 1 .. 16 \cup {21} THEN 850 ELSE 6800
RateAsDocumented == Configuration(option).rate = DocumentedRate(option)
=============================================================================
