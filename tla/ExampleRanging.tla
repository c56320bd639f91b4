--------------------------- MODULE ExampleRanging ---------------------------
(***************************************************************************)
(* The loops of the single-sided ranging examples, an initiator (ex_06a)   *)
(* and a responder (ex_06b) on one channel: without a scrambled timestamp  *)
(* sequence ("plain"), with one in every frame ("sts"), and with packets   *)
(* that hold nothing else, followed by a report ("nodata").                *)
(*                                                                         *)
(* The two chips generate the STS from a key, an initial value and a       *)
(* counter, which every transmission and every reception advances; a       *)
(* receiver finds the STS good when it has arrived at the same place.      *)
(* Frames are lost, noise ends a reception, and either device restarts.  *)
(* Exchanges are told apart by a tag that repeats after Tags of them.      *)
(***************************************************************************)
EXTENDS Integers

CONSTANTS Tags,         \* the exchanges told apart
          MaxFaults     \* bound on restarts, receptions of noise and late hosts, together

ExampleAssumption ==
    /\ Tags \in Nat \ {0}
    /\ MaxFaults \in Nat

VARIABLES program,    \* which of the three the devices run
          at,         \* where the loop of each device is
          started,    \* firstLoopFlag
          keyed,      \* the chip holds the key and the whole initial value
          counter,    \* the low word of the initial value, as the chip has advanced it
          stsOn,      \* the chip sends and expects an STS
          air,        \* the frame on air, or Silence
          exchange,   \* tag of the initiator's exchange
          stamps,     \* the responder's poll_rx_ts and resp_tx_ts
          result,     \* the four time stamps of a computed distance, or None
          faults      \* restarts, receptions of noise and late hosts so far

vars == <<program, at, started, keyed, counter, stsOn, air, exchange, stamps, result, faults>>

Devices == {"init", "resp"}
None == [pollTx |-> 0, pollRx |-> 0, respTx |-> 0, respRx |-> 0]
Silence == [kind |-> "none"]
Sts == program # "plain"

Init ==
    /\ program \in {"plain", "sts", "nodata"}
    /\ at = [d \in Devices |-> "top"]
    /\ started = [d \in Devices |-> FALSE]
    /\ keyed = [d \in Devices |-> FALSE]
    /\ counter = [d \in Devices |-> 0]
    /\ stsOn = [d \in Devices |-> Sts]
    /\ air = Silence
    /\ exchange = 0
    /\ stamps = [pollRx |-> 0, respTx |-> 0]
    /\ result = None
    /\ faults = 0

(* Every transmission and reception with an STS advances the counter,      *)
(* those that end in an error too.                                         *)
Advanced(d) == [counter EXCEPT ![d] = IF stsOn[d] THEN @ + 1 ELSE @]

Fault == faults < MaxFaults /\ faults' = faults + 1

(* Where the responder is between a poll and the end of its answer.        *)
Busy == {"answer", "sending", "reporting", "reported"}

(* Mutant: the initial value is written on the first loop only.            *)
LoadIv_Once(d) ==
    /\ keyed' = [keyed EXCEPT ![d] = @ \/ (Sts /\ ~started[d])]
    /\ counter' = [counter EXCEPT ![d] = IF Sts /\ ~started[d] THEN 0 ELSE @]
    /\ started' = [started EXCEPT ![d] = Sts]

(* The head of a loop: the first time the key and the whole initial value  *)
(* are written and loaded, later its low word alone.                       *)
LoadIv(d) ==
    /\ keyed' = [keyed EXCEPT ![d] = @ \/ (Sts /\ ~started[d])]
    /\ counter' = [counter EXCEPT ![d] = IF Sts THEN 0 ELSE @]
    /\ started' = [started EXCEPT ![d] = Sts]

(* The program without data puts its chip into the mode of packets without *)
(* data at the head of every loop; the others set the mode in setup.       *)
Mode(d) ==
    stsOn' = [stsOn EXCEPT ![d] = IF program = "nodata" THEN TRUE ELSE @]

----------------------------------------------------------------------------
(* The initiator.                                                          *)

(* The poll of a new exchange.  The pause between exchanges is longer than *)
(* one: the responder has done with the last.                              *)
SendPoll ==
    /\ at["init"] = "top"
    /\ at["resp"] \notin Busy
    /\ air = Silence
    /\ LoadIv("init")
    /\ Mode("init")
    /\ exchange' = (exchange % Tags) + 1
    /\ air' = [kind |-> "poll", sts |-> Sts, counter |-> counter'["init"], keyed |-> keyed'["init"],
               ex |-> exchange', stamps |-> [pollRx |-> 0, respTx |-> 0]]
    /\ at' = [at EXCEPT !["init"] = "sent"]
    /\ result' = None
    /\ UNCHANGED <<program, stamps, faults>>

(* The poll is out: the receiver will be enabled in time for the answer.   *)
Listen(ctr) ==
    /\ at["init"] = "sent"
    /\ counter' = [ctr EXCEPT !["init"] = IF Sts THEN @ + 1 ELSE @]

(* The STS of the frame on air is good at this receiver.                   *)
GoodSts(d) ==
    /\ air.sts = stsOn[d]
    /\ air.sts => /\ air.keyed /\ keyed[d]
                  /\ air.counter = counter[d]

(* The distance is computed from two time stamps of the chip and two of    *)
(* the frame.                                                              *)
Distance(frame) ==
    [pollTx |-> exchange, pollRx |-> frame.stamps.pollRx,
     respTx |-> frame.stamps.respTx, respRx |-> frame.ex]

(* The answer is received.  Where it holds data the distance follows; else *)
(* the initiator turns the STS off and waits for the report.               *)
RespReceived ==
    /\ at["init"] = "listen" /\ air.kind = "resp"
    /\ air' = Silence
    /\ counter' = Advanced("init")
    /\ IF GoodSts("init")
       THEN IF program = "nodata"
            THEN /\ at' = [at EXCEPT !["init"] = "report"]
                 /\ stsOn' = [stsOn EXCEPT !["init"] = FALSE]
                 /\ UNCHANGED result
            ELSE /\ result' = Distance(air)
                 /\ at' = [at EXCEPT !["init"] = "top"]
                 /\ UNCHANGED stsOn
       ELSE at' = [at EXCEPT !["init"] = "top"] /\ UNCHANGED <<stsOn, result>>
    /\ UNCHANGED <<program, started, keyed, exchange, stamps, faults>>

ReportReceived ==
    /\ at["init"] = "report" /\ air.kind = "report"
    /\ GoodSts("init")
    /\ air' = Silence
    /\ result' = Distance(air)
    /\ counter' = Advanced("init")
    /\ at' = [at EXCEPT !["init"] = "top"]
    /\ UNCHANGED <<program, started, keyed, stsOn, exchange, stamps, faults>>

(* The timeout: the exchange is given up.                                  *)
GiveUp ==
    /\ at["init"] \in {"listen", "report"}
    /\ at["resp"] \notin Busy /\ air = Silence
    /\ counter' = Advanced("init")
    /\ at' = [at EXCEPT !["init"] = "top"]
    /\ UNCHANGED <<program, started, keyed, stsOn, air, exchange, stamps, result, faults>>

NoiseAtInitiator ==
    /\ Fault
    /\ at["init"] \in {"listen", "report"}
    /\ counter' = Advanced("init")
    /\ at' = [at EXCEPT !["init"] = "top"]
    /\ UNCHANGED <<program, started, keyed, stsOn, air, exchange, stamps, result>>

----------------------------------------------------------------------------
(* The responder.                                                          *)

StartListening ==
    /\ at["resp"] = "top"
    /\ LoadIv("resp")
    /\ Mode("resp")
    /\ at' = [at EXCEPT !["resp"] = "listen"]
    /\ UNCHANGED <<program, air, exchange, stamps, result, faults>>

(* The poll ends on air, heard by a responder that listens; the initiator  *)
(* turns to receiving.  A poll with a bad STS ends the loop.               *)
PollReceived ==
    /\ air.kind = "poll" /\ at["resp"] = "listen"
    /\ Listen(Advanced("resp"))
    /\ air' = Silence
    /\ IF GoodSts("resp")
       THEN /\ at' = [at EXCEPT !["init"] = "listen", !["resp"] = "answer"]
            /\ stamps' = [stamps EXCEPT !.pollRx = air.ex]
       ELSE /\ at' = [at EXCEPT !["init"] = "listen", !["resp"] = "top"]
            /\ UNCHANGED stamps
    /\ UNCHANGED <<program, started, keyed, stsOn, exchange, result, faults>>

(* Nobody hears the poll.                                                  *)
PollLost ==
    /\ air.kind = "poll"
    /\ Listen(counter)
    /\ air' = Silence
    /\ at' = [at EXCEPT !["init"] = "listen"]
    /\ UNCHANGED <<program, started, keyed, stsOn, exchange, stamps, result, faults>>

(* The answer is scheduled for a fixed time after the poll; the frame, or  *)
(* the report that follows, holds when the poll came and when the answer   *)
(* leaves.                                                                 *)
SendResp ==
    /\ at["resp"] = "answer"
    /\ air = Silence
    /\ stamps' = [stamps EXCEPT !.respTx = stamps.pollRx]
    /\ air' = [kind |-> "resp", sts |-> stsOn["resp"], counter |-> counter["resp"],
               keyed |-> keyed["resp"], ex |-> stamps.pollRx, stamps |-> stamps']
    /\ counter' = Advanced("resp")
    /\ at' = [at EXCEPT !["resp"] = "sending"]
    /\ UNCHANGED <<program, started, keyed, stsOn, exchange, result, faults>>

(* The host was interrupted and dwt_starttx finds that the time has passed *)
(* (NOTE 10 of the responder): the exchange is abandoned.                  *)
TooLate ==
    /\ Fault
    /\ at["resp"] \in {"answer", "reporting"}
    /\ at' = [at EXCEPT !["resp"] = "top"]
    /\ UNCHANGED <<program, started, keyed, counter, stsOn, air, exchange, stamps, result>>

(* The answer is out, TXFRS: without data the STS is turned off for a      *)
(* report of the two stamps, else the loop is done.                        *)
RespSent ==
    /\ at["resp"] = "sending" /\ air.kind # "resp"
    /\ IF program = "nodata"
       THEN /\ at' = [at EXCEPT !["resp"] = "reporting"]
            /\ stsOn' = [stsOn EXCEPT !["resp"] = FALSE]
       ELSE at' = [at EXCEPT !["resp"] = "top"] /\ UNCHANGED stsOn
    /\ UNCHANGED <<program, started, keyed, counter, air, exchange, stamps, result, faults>>

SendReport ==
    /\ at["resp"] = "reporting" /\ air = Silence
    /\ air' = [kind |-> "report", sts |-> stsOn["resp"], counter |-> counter["resp"],
               keyed |-> keyed["resp"], ex |-> stamps.pollRx, stamps |-> stamps]
    /\ counter' = Advanced("resp")
    /\ at' = [at EXCEPT !["resp"] = "reported"]
    /\ UNCHANGED <<program, started, keyed, stsOn, exchange, stamps, result, faults>>

ReportSent ==
    /\ at["resp"] = "reported" /\ air.kind # "report"
    /\ at' = [at EXCEPT !["resp"] = "top"]
    /\ UNCHANGED <<program, started, keyed, counter, stsOn, air, exchange, stamps, result, faults>>

(* An answer or a report that the initiator does not hear.                 *)
AnswerLost ==
    /\ air.kind \in {"resp", "report"}
    /\ air' = Silence
    /\ UNCHANGED <<program, at, started, keyed, counter, stsOn, exchange, stamps, result, faults>>

(* A preamble in the noise, a foreign frame: the reception ends in an      *)
(* error, or in a frame the loop drops.                                    *)
NoiseAtResponder ==
    /\ Fault
    /\ at["resp"] = "listen"
    /\ counter' = Advanced("resp")
    /\ at' = [at EXCEPT !["resp"] = "top"]
    /\ UNCHANGED <<program, started, keyed, stsOn, air, exchange, stamps, result>>

(* A device restarts at any moment, its chip reset with it or not; setup   *)
(* configures the mode again.                                              *)
Restart(d) ==
    /\ Fault
    /\ at' = [at EXCEPT ![d] = "top"]
    /\ started' = [started EXCEPT ![d] = FALSE]
    /\ \E reset \in BOOLEAN :
         /\ keyed' = [keyed EXCEPT ![d] = @ /\ ~reset]
         /\ counter' = [counter EXCEPT ![d] = IF reset THEN 0 ELSE @]
    /\ stsOn' = [stsOn EXCEPT ![d] = Sts]
    /\ air' = IF (air.kind = "poll") = (d = "init") THEN Silence ELSE air
    /\ UNCHANGED <<program, exchange, stamps, result>>

Next ==
    \/ SendPoll \/ PollReceived \/ PollLost
    \/ RespReceived \/ ReportReceived \/ GiveUp \/ NoiseAtInitiator
    \/ StartListening \/ SendResp \/ TooLate \/ RespSent \/ SendReport \/ ReportSent
    \/ AnswerLost \/ NoiseAtResponder
    \/ \E d \in Devices : Restart(d)

(* The loops run on, frames end and the timeout comes.  Of the polls,      *)
(* answers and reports that can be heard again and again some are heard.   *)
Fairness ==
    /\ WF_vars(SendPoll) /\ WF_vars(StartListening) /\ WF_vars(GiveUp)
    /\ WF_vars(RespSent) /\ WF_vars(ReportSent)
    /\ WF_vars(PollLost) /\ WF_vars(AnswerLost)
    /\ SF_vars(PollReceived) /\ SF_vars(SendResp) /\ SF_vars(SendReport)
    /\ SF_vars(RespReceived) /\ SF_vars(ReportReceived)

Spec == Init /\ [][Next]_vars /\ Fairness

----------------------------------------------------------------------------
TypeOK ==
    /\ program \in {"plain", "sts", "nodata"}
    /\ at["init"] \in {"top", "sent", "listen", "report"}
    /\ at["resp"] \in {"top", "listen", "answer", "sending", "reporting", "reported"}
    /\ counter \in [Devices -> Nat]
    /\ exchange \in 0 .. Tags
    /\ stamps \in [pollRx : 0 .. Tags, respTx : 0 .. Tags]

(* A frame that a device waits for meets a receiver in the same mode, with *)
(* the same key and the counter at the same place, after whatever losses,  *)
(* noise and restarts came before: the counters are realigned by each loop *)
(* and not by the poll, as the responder's NOTE 13 has it.                 *)
Aligned ==
    /\ air.kind = "poll" => (at["resp"] = "listen" => GoodSts("resp"))
    /\ air.kind = "resp" => (at["init"] = "listen" => GoodSts("init"))
    /\ air.kind = "report" => (at["init"] = "report" => GoodSts("init"))

(* The four time stamps of a distance are of one exchange.                 *)
OneExchange ==
    result # None => /\ result.pollRx = result.pollTx
                     /\ result.respTx = result.pollTx
                     /\ result.respRx = result.pollTx

(* However an exchange ends, the two devices range again.                  *)
RangesAgain == []<>(result # None)
=============================================================================
