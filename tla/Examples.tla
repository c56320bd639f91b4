------------------------------- MODULE Examples -------------------------------
(***************************************************************************)
(* The example programs of the DW3000 library on small instances: when an  *)
(* initiator listens and an answer is on air (ResponseWindow), the         *)
(* counters of errors (ErrorCounters), blinks with sleep in between        *)
(* (SleepExamples) and without (BlinkExamples), the ranging loops of the   *)
(* three programs without encryption (ExampleRanging) and of the encrypted *)
(* one, alone and with other devices on the channel (AesRanging).          *)
(*                                                                         *)
(* The parts share no behaviour.  The first state chooses the one that     *)
(* runs; the variables of the others stay as they are.                     *)
(***************************************************************************)
EXTENDS Integers

CONSTANTS
  Latencies,       \* of ResponseWindow: how long the initiator's host takes, in uus
  ReplyLatencies,  \* and the responder's
  MaxRounds,
  Warnings,        \* of ErrorCounters
  SleepWrap,       \* of SleepExamples: numbers of blinks
  BlinkWrap, Places, Lengths,  \* of BlinkExamples
  Tags, MaxFaults, \* of ExampleRanging
  AesTags, SeqWrap, CntWrap,   \* of AesRanging,
  LoneFaults, CrowdFaults      \* and its bounds alone and among others

ASSUME HostAssumption ==
  Latencies \subseteq Nat /\ ReplyLatencies \subseteq Nat /\ MaxRounds \in Nat

VARIABLES part,
  program, option, round, leg, answer, window, heard,
  counted, stage, sysStatus, cia, sts, statusReg, what, grown,
  example, pc, sleeper, seq, numberSent,
  tx, txMsg, txBuffer, txfrs, onAir, last, rx, rxStatus, on, rxChip, seen, frameLen, buffer,
  at, air, exchange, result, faults,
  ranging, started, keyed, counter, stsOn, stamps,
  crowd, mac, seqCnt, frameCnt, keyReg, pollHeard, message, lastPoll, aesStatus

windowVars == <<program, option, round, leg, answer, window, heard>>
errorVars == <<counted, stage, sysStatus, cia, sts, statusReg, what, grown>>
sleepVars == <<example, pc, sleeper, seq, numberSent>>
blinkVars == <<tx, txMsg, txBuffer, txfrs, onAir, last, rx, rxStatus, on, rxChip, seen,
               frameLen, buffer>>
loopVars == <<at, air, exchange, result, faults>>
plainVars == <<ranging, started, keyed, counter, stsOn, stamps>>
aesVars == <<crowd, mac, seqCnt, frameCnt, keyReg, pollHeard, message, lastPoll, aesStatus>>
rangingVars == <<loopVars, plainVars, aesVars>>
allVars == <<part, windowVars, errorVars, sleepVars, blinkVars, rangingVars>>

(* Every configuration of dw3000_config_options.cpp.                       *)
Window == INSTANCE ResponseWindow WITH
  Programs <- {"plain", "sts", "nodata"},
  Options <- 1 .. 33

Errors == INSTANCE ErrorCounters WITH
  Programs <- {"init_sts", "resp_sts", "init_nodata", "resp_nodata"},
  Warnings <- Warnings,
  EnableClears <- {"RXFR", "RXFCG", "RXFCE", "RXPHE", "RXFSL", "CIAERR", "CPERR"},
  program <- counted, at <- stage, status <- sysStatus, seen <- statusReg

Sleep == INSTANCE SleepExamples WITH
  SeqWrap <- SleepWrap, chip <- sleeper, air <- numberSent

Blink == INSTANCE BlinkExamples WITH
  SeqWrap <- BlinkWrap, air <- onAir, chip <- rxChip

Plain == INSTANCE ExampleRanging WITH program <- ranging

Aes == INSTANCE AesRanging WITH
  Tags <- AesTags, heard <- pollHeard, status <- aesStatus,
  MaxFaults <- [b \in BOOLEAN |-> IF b THEN CrowdFaults ELSE LoneFaults]

ASSUME PartAssumptions ==
  /\ Window!WindowAssumption /\ Errors!CounterAssumption /\ Blink!BlinkAssumption
  /\ Sleep!SleepAssumption /\ Plain!ExampleAssumption /\ Aes!AesAssumption

MCInit ==
  /\ part \in {"window", "errors", "sleep", "blink", "loops", "aes"}
  /\ Window!Init /\ Errors!Init /\ Sleep!Init /\ Blink!Init /\ Plain!Init /\ Aes!Init
  /\ part = "window" \/ (program = "plain" /\ option = 33)
  /\ part = "errors" \/ counted = "init_sts"
  /\ part = "sleep" \/ example = "sleep"
  /\ part = "loops" \/ ranging = "plain"
  /\ part = "aes" \/ ~crowd

MCNext ==
  /\ UNCHANGED part
  /\ \/ /\ part = "window" /\ Window!Next
        /\ UNCHANGED <<errorVars, sleepVars, blinkVars, rangingVars>>
     \/ /\ part = "errors" /\ Errors!Next
        /\ UNCHANGED <<windowVars, sleepVars, blinkVars, rangingVars>>
     \/ /\ part = "sleep" /\ Sleep!Next
        /\ UNCHANGED <<windowVars, errorVars, blinkVars, rangingVars>>
     \/ /\ part = "blink" /\ Blink!Next
        /\ UNCHANGED <<windowVars, errorVars, sleepVars, rangingVars>>
     \/ /\ \/ part = "loops" /\ Plain!Next /\ UNCHANGED aesVars
           \/ part = "aes" /\ Aes!Next /\ UNCHANGED plainVars
        /\ UNCHANGED <<windowVars, errorVars, sleepVars, blinkVars>>

(* The fairness of each part's own specification.  As a part runs alone,   *)
(* fairness of the disjunction of actions of different parts is that of    *)
(* each in its own.                                                        *)
LoopsRunOn ==
  /\ WF_errorVars(part = "errors" /\ Errors!Enable)
  /\ WF_errorVars(part = "errors" /\ Errors!Poll)
  /\ WF_errorVars(part = "errors" /\ Errors!Account)
  /\ WF_sleepVars(part = "sleep" /\ (Sleep!Starts \/ Sleep!Transmitted))
  /\ WF_sleepVars(part = "sleep" /\ (Sleep!Setup \/ Sleep!Loop))
  /\ WF_blinkVars(part = "blink" /\ Blink!Sender)
  /\ WF_blinkVars(part = "blink" /\ Blink!Receiver)
  /\ WF_blinkVars(part = "blink" /\ Blink!Ends)

OneOf(plain, aes) ==
  \/ part = "loops" /\ plain /\ UNCHANGED aesVars
  \/ part = "aes" /\ ~crowd /\ aes /\ UNCHANGED plainVars

RangingFairness ==
  /\ WF_rangingVars(OneOf(Plain!SendPoll, Aes!SendPoll))
  /\ WF_rangingVars(OneOf(Plain!StartListening, Aes!StartListening))
  /\ WF_rangingVars(OneOf(Plain!GiveUp, Aes!GiveUp))
  /\ WF_rangingVars(OneOf(Plain!RespSent, Aes!RespSent))
  /\ WF_rangingVars(OneOf(Plain!ReportSent, FALSE))
  /\ WF_rangingVars(OneOf(Plain!PollLost, Aes!FrameLost))
  /\ WF_rangingVars(OneOf(Plain!AnswerLost, FALSE))
  /\ SF_rangingVars(OneOf(Plain!PollReceived, Aes!FrameAtResponder))
  /\ SF_rangingVars(OneOf(Plain!SendResp, Aes!SendResp))
  /\ SF_rangingVars(OneOf(Plain!SendReport, FALSE))
  /\ SF_rangingVars(OneOf(Plain!RespReceived, Aes!FrameAtInitiator))
  /\ SF_rangingVars(OneOf(Plain!ReportReceived, FALSE))

MCSpec == MCInit /\ [][MCNext]_allVars /\ LoopsRunOn /\ RangingFairness

-----------------------------------------------------------------------------
(* Properties of the parts.                                                *)

(* In each configuration and with hosts of any latency the receiver opens  *)
(* after the initiator's own poll, and an answer that the responder has    *)
(* scheduled falls into the window, but for what the delays allow for: a   *)
(* host slower than SlowestHost, and the 1024 symbols with an STS, with    *)
(* which nothing is ever heard.                                            *)
WindowsFit ==
  /\ Window!TypeOK /\ Window!OpensBetween /\ Window!AnswerFits
  /\ Window!HostHasTime /\ Window!DeafIfWrapped

(* A counter of errors grows only for a reception of this loop that has    *)
(* its condition, once where there is no data; a loop whose reception was  *)
(* of no use has moved one, and one whose reception was as expected none.  *)
ErrorsCounted ==
  /\ Errors!TypeOK /\ Errors!TrueCause /\ Errors!FailureCounted
  /\ counted \in {"init_nodata", "resp_nodata"} => Errors!CountedOnce

(* Blinks with sleep in between: nothing is written to a chip that a call  *)
(* has put to sleep, and a frame goes out with the configuration that      *)
(* sleep has taken away, and with the next number.  Blinks without: at the *)
(* head of the receiver's loop the buffer holds the last frame and nothing *)
(* of any before, no event of an earlier frame is there while the receiver *)
(* is on, no frame is written over while it is sent, and they are sent     *)
(* with one number after the other.                                        *)
BlinksHold ==
  /\ [](Sleep!TypeOK /\ (example = "sleep" => Sleep!WritesHeard))
  /\ Sleep!SentConfigured
  /\ [](Blink!TypeOK /\ Blink!BreakPoint /\ Blink!NothingOld /\ Blink!SentWhole)
  /\ Blink!Consecutive

(* The ranging loops, whatever was lost before.  A frame that a device     *)
(* waits for meets a receiver in the same mode, with the same key and      *)
(* counter of the STS; each can decrypt what the other sends, while they   *)
(* are alone, and the nonce goes one on from poll to poll; and the four    *)
(* time stamps of a distance are of one exchange.                          *)
LoopsInStep ==
  /\ [](part = "loops" => Plain!TypeOK /\ Plain!Aligned /\ Plain!OneExchange)
  /\ [](part = "aes" => Aes!TypeOK /\ Aes!OneExchange /\ (~crowd => Aes!PeersRead))
  /\ Aes!PollsCountOn

(* Whatever a reception ends in, the loop that counts errors notices and   *)
(* begins again; a chip does fall asleep between blinks, and if it is put  *)
(* to sleep by a call wakes and sends again; the receiver of blinks comes  *)
(* to the head of its loop for every frame or error; and however an        *)
(* exchange ends, the two devices range again.                             *)
ExamplesGoOn ==
  /\ part = "errors" => Errors!LoopGoesOn
  /\ part = "sleep" => Sleep!FallsAsleep
  /\ part = "sleep" /\ example = "sleep" => Sleep!Blinks
  /\ part = "blink" => Blink!LoopGoesOn
  /\ part = "loops" => Plain!RangesAgain
  /\ part = "aes" /\ ~crowd => Aes!RangesAgain
=============================================================================
