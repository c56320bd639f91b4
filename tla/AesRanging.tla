----------------------------- MODULE AesRanging -----------------------------
(***************************************************************************)
(* The pair of ranging examples whose payloads are encrypted (ex_06e, the  *)
(* initiator, and ex_06f, the responder), with the 802.15.4 frame and the  *)
(* AES jobs of the driver under them.                                      *)
(*                                                                         *)
(* Each program has one mac_frame, which holds the header it sends next    *)
(* and the header it has read last.  The nonce is taken from that header:  *)
(* a frame can be read only if both sides make it from the same one.       *)
(* A payload is the key and the nonce it was encrypted with.               *)
(***************************************************************************)
EXTENDS Integers

CONSTANTS Tags,         \* the exchanges told apart
          SeqWrap,      \* values of a sequence number (256 in the code)
          CntWrap,      \* values of a frame counter (2^32 in the code)
          MaxFaults     \* bound on restarts, noise, late hosts and frames of others,
                        \* together, for a pair that is alone and for one that is not

AesAssumption ==
    /\ Tags \in Nat \ {0} /\ CntWrap \in Nat \ {0} /\ MaxFaults \in [BOOLEAN -> Nat]
    /\ SeqWrap \in Nat /\ SeqWrap > 10

VARIABLES crowd,      \* other devices send on the channel
          at,         \* where the loop of each device is
          mac,        \* mac_frame: the header of each device
          seqCnt,     \* seq_cnt of the initiator
          frameCnt,   \* frame_cnt of the initiator
          keyReg,     \* index of the key in the AES registers of each chip
          air,        \* the frame on air, or Silence
          exchange,   \* tag of the initiator's exchange
          heard,      \* exchange of the poll in the responder's RX_TIME
          message,    \* the stamps in tx_resp_msg of the responder
          lastPoll,   \* the header of the poll before, NoHeader after a restart
          result,     \* the four time stamps of a computed distance, or None
          status,     \* what rx_aes_802_15_4 has returned last, to each device
          faults      \* restarts, receptions of noise and late hosts so far

vars == <<crowd, at, mac, seqCnt, frameCnt, keyReg, air, exchange, heard, message, lastPoll,
          result, status, faults>>

Devices == {"init", "resp"}
Peer(d) == IF d = "init" THEN "resp" ELSE "init"
None == [pollTx |-> 0, pollRx |-> 0, respTx |-> 0, respRx |-> 0]
Silence == [kind |-> "none"]

FirstSeqCnt == 10
Keys == 3                \* NUM_OF_KEY_OPTIONS
InitiatorKey == 1        \* INITIATOR_KEY_INDEX
ResponderKey == 2        \* RESPONDER_KEY_INDEX
FcsLen == 2
HeaderLen == 27          \* MAC_FRAME_HEADER_SIZE: control, numbers, addresses, auxiliary header
RxBufLen == 127
RxBufferMax == 1023
TxBufferMax == 1024
PollLen == 12
RespLen == 15

(* The sample header of the initiator, and the zeroes of the responder's.  *)
NoHeader == [secure |-> FALSE, level |-> 0, seq |-> 0, cnt |-> 0, key |-> 0,
             src |-> "nobody", dst |-> "nobody"]
FirstHeader(d) == IF d = "init" THEN [NoHeader EXCEPT !.secure = TRUE, !.level = 7] ELSE NoHeader

Init ==
    /\ crowd \in BOOLEAN
    /\ at = [d \in Devices |-> "top"]
    /\ mac = [d \in Devices |-> FirstHeader(d)]
    /\ seqCnt = FirstSeqCnt /\ frameCnt = 0
    /\ keyReg = [d \in Devices |-> 0]
    /\ air = Silence
    /\ exchange = 0 /\ heard = 0
    /\ message = [pollRx |-> 0, respTx |-> 0]
    /\ lastPoll = NoHeader
    /\ result = None
    /\ status = [d \in Devices |-> "ok"]
    /\ faults = 0

Fault == faults < MaxFaults[crowd] /\ faults' = faults + 1

----------------------------------------------------------------------------
(* The 802.15.4 header and the AES block.                                  *)

(* The nonce: source address, frame counter and security level.            *)
Nonce(header) == [src |-> header.src, cnt |-> header.cnt, level |-> header.level]

(* The size of the integrity code, by the level; the fourth is reserved.   *)
MicError == 255
MicSize(level) ==
    IF level = 4 THEN MicError ELSE <<0, 4, 8, 16>>[(level % 4) + 1]

(* A header with the addresses of a frame from this device to its peer.    *)
Addressed(header, d) == [header EXCEPT !.src = d, !.dst = Peer(d)]

(* An AES job: refused for a reserved code or too much data, before the    *)
(* block is started; a decryption ends in an authentication error when the *)
(* key or the nonce is not that of the encryption.                         *)
DoAes(encrypt, payloadLen, mic, key, nonce, cipher) ==
    CASE mic = MicError -> "length"
      [] mic # MicError /\ HeaderLen + payloadLen
             > (IF encrypt THEN TxBufferMax ELSE RxBufferMax) - mic - FcsLen -> "length"
      [] OTHER -> IF encrypt \/ cipher = [key |-> key, nonce |-> nonce] THEN "ok" ELSE "aes"

(* rx_aes_802_15_4: its result for the frame on air.  The header names the *)
(* key and holds what the nonce is made from.                              *)
RxAes(d) ==
    LET header == air.header
        mic == MicSize(header.level)
        payloadLen == air.len - (HeaderLen + mic + FcsLen) IN
    IF air.len - FcsLen < HeaderLen THEN "frame"
    ELSE IF ~(header.secure /\ header.src = Peer(d) /\ header.dst = d) THEN "ignore"
    ELSE IF mic = MicError \/ payloadLen \notin 0 .. RxBufLen THEN "frame"
    ELSE DoAes(FALSE, payloadLen, mic, header.key, Nonce(header), air.cipher)

(* What a device does with the frame on air: its header is in mac_frame    *)
(* before it is looked at, its key in the registers when it is decrypted.  *)
(* Any result but success is reported again and again, for ever.           *)
ReadFrame(d, own) ==
    /\ mac' = [mac EXCEPT ![d] = IF air.len - FcsLen < HeaderLen THEN own ELSE air.header]
    /\ keyReg' = [keyReg EXCEPT ![d] = IF RxAes(d) \in {"frame", "ignore"} THEN @
                                       ELSE air.header.key]
    /\ status' = [status EXCEPT ![d] = RxAes(d)]

Then(d, next) == IF RxAes(d) = "ok" THEN next ELSE "reporting"

(* A frame with this header, encrypted under the key in the registers.     *)
Frame(kind, header, key, nonce, len, stamps) ==
    [kind |-> kind, header |-> header, cipher |-> [key |-> key, nonce |-> nonce],
     len |-> HeaderLen + len + MicSize(header.level) + FcsLen,
     ex |-> IF kind = "poll" THEN exchange' ELSE heard, stamps |-> stamps]

----------------------------------------------------------------------------
(* The initiator.                                                          *)

(* Where the responder is between a poll and the end of its answer.        *)
Busy == {"answer", "sending"}

(* The poll of a new exchange: key, addresses, then the nonce from them.   *)
(* The pause between exchanges is longer than one.                         *)
SendPoll ==
    /\ at["init"] = "top" /\ at["resp"] \notin Busy /\ air = Silence
    /\ keyReg' = [keyReg EXCEPT !["init"] = InitiatorKey]
    /\ exchange' = (exchange % Tags) + 1
    /\ LET header == Addressed([mac["init"] EXCEPT !.key = InitiatorKey], "init") IN
         /\ DoAes(TRUE, PollLen, MicSize(header.level), InitiatorKey, Nonce(header), None) = "ok"
         /\ air' = Frame("poll", header, keyReg'["init"], Nonce(header), PollLen,
                         [pollRx |-> 0, respTx |-> 0])
         /\ mac' = [mac EXCEPT !["init"] = header]
         /\ lastPoll' = header
    /\ at' = [at EXCEPT !["init"] = "sent"]
    /\ result' = None
    /\ UNCHANGED <<crowd, seqCnt, frameCnt, heard, message, status, faults>>

(* The header with the next numbers, set when the wait for the answer ends.*)
Numbered ==
    [mac["init"] EXCEPT !.seq = (seqCnt + 1) % SeqWrap, !.cnt = (frameCnt + 1) % CntWrap]

CountOn ==
    /\ seqCnt' = (seqCnt + 1) % SeqWrap
    /\ frameCnt' = (frameCnt + 1) % CntWrap

(* A frame ends the wait: its header replaces the one just numbered.       *)
FrameAtInitiator ==
    /\ at["init"] = "listen" /\ air.kind \in {"resp", "stranger"}
    /\ CountOn
    /\ ReadFrame("init", Numbered)
    /\ at' = [at EXCEPT !["init"] = Then("init", "top")]
    /\ result' = IF RxAes("init") = "ok"
                 THEN [pollTx |-> exchange, pollRx |-> air.stamps.pollRx,
                       respTx |-> air.stamps.respTx, respRx |-> air.ex]
                 ELSE result
    /\ air' = Silence
    /\ UNCHANGED <<crowd, exchange, heard, message, lastPoll, faults>>

(* A timeout or an error ends it.                                          *)
WaitEnds ==
    /\ at["init"] = "listen"
    /\ CountOn
    /\ mac' = [mac EXCEPT !["init"] = Numbered]
    /\ at' = [at EXCEPT !["init"] = "top"]
    /\ UNCHANGED <<crowd, keyReg, exchange, heard, message, lastPoll, result, status>>

GiveUp ==
    /\ at["resp"] \notin Busy /\ air = Silence
    /\ WaitEnds
    /\ UNCHANGED <<crowd, air, faults>>

NoiseAtInitiator == Fault /\ WaitEnds /\ UNCHANGED air

----------------------------------------------------------------------------
(* The responder.                                                          *)

StartListening ==
    /\ at["resp"] = "top"
    /\ at' = [at EXCEPT !["resp"] = "listen"]
    /\ UNCHANGED <<crowd, mac, seqCnt, frameCnt, keyReg, air, exchange, heard, message, lastPoll,
                   result, status, faults>>

(* The poll, or the frame of a stranger, is heard by a responder that      *)
(* listens; after its poll the initiator turns to receiving.               *)
FrameAtResponder ==
    /\ at["resp"] = "listen" /\ air.kind \in {"poll", "stranger"}
    /\ ReadFrame("resp", mac["resp"])
    /\ at' = [at EXCEPT !["resp"] = Then("resp", "answer"),
                        !["init"] = IF air.kind = "poll" THEN "listen" ELSE @]
    /\ heard' = air.ex
    /\ air' = Silence
    /\ UNCHANGED <<crowd, seqCnt, frameCnt, exchange, message, lastPoll, result, faults>>

(* The answer, as it is encrypted: with the stamp of the poll and the time *)
(* it is scheduled for.                                                    *)
Answer(header) ==
    /\ message' = [pollRx |-> heard, respTx |-> heard]
    /\ air' = Frame("resp", header, keyReg'["resp"], Nonce(header), RespLen, message')

(* The header of the poll with both numbers one higher, the key of the     *)
(* responder and the addresses the other way round.                        *)
AnswerHeader ==
    Addressed([mac["resp"] EXCEPT !.key = ResponderKey, !.seq = (@ + 1) % SeqWrap,
                                  !.cnt = (@ + 1) % CntWrap], "resp")

Prepare ==
    /\ at["resp"] = "answer" /\ air = Silence
    /\ keyReg' = [keyReg EXCEPT !["resp"] = ResponderKey]
    /\ mac' = [mac EXCEPT !["resp"] = AnswerHeader]
    /\ DoAes(TRUE, RespLen, MicSize(AnswerHeader.level), ResponderKey, Nonce(AnswerHeader), None) = "ok"
    /\ UNCHANGED <<crowd, seqCnt, frameCnt, exchange, heard, lastPoll, result, status>>

SendResp ==
    /\ Prepare
    /\ Answer(AnswerHeader)
    /\ at' = [at EXCEPT !["resp"] = "sending"]
    /\ UNCHANGED faults

(* The time of the answer has passed when dwt_starttx is called (NOTE 10   *)
(* of the responder): the exchange is abandoned.                           *)
TooLate ==
    /\ Fault
    /\ Prepare
    /\ message' = [pollRx |-> heard, respTx |-> heard]
    /\ at' = [at EXCEPT !["resp"] = "top"]
    /\ UNCHANGED air

RespSent ==
    /\ at["resp"] = "sending" /\ air.kind # "resp"
    /\ at' = [at EXCEPT !["resp"] = "top"]
    /\ UNCHANGED <<crowd, mac, seqCnt, frameCnt, keyReg, air, exchange, heard, message, lastPoll,
                   result, status, faults>>

NoiseAtResponder ==
    /\ Fault
    /\ at["resp"] = "listen"
    /\ at' = [at EXCEPT !["resp"] = "top"]
    /\ UNCHANGED <<crowd, mac, seqCnt, frameCnt, keyReg, air, exchange, heard, message, lastPoll,
                   result, status>>

----------------------------------------------------------------------------
(* The channel, and restarts.                                              *)

(* A frame that nobody hears.                                              *)
FrameLost ==
    /\ air # Silence
    /\ air' = Silence
    /\ at' = [at EXCEPT !["init"] = IF air.kind = "poll" THEN "listen" ELSE @]
    /\ UNCHANGED <<crowd, mac, seqCnt, frameCnt, keyReg, exchange, heard, message, lastPoll,
                   result, status, faults>>

(* Another device sends: an acknowledgement, or a data frame between       *)
(* others, with or without security.                                       *)
StrangerSends ==
    /\ crowd /\ Fault
    /\ air = Silence
    /\ \E len \in {5, 60}, secure \in BOOLEAN, level \in {4, 7} :
         air' = [kind |-> "stranger", len |-> len, ex |-> 0,
                 header |-> [NoHeader EXCEPT !.secure = secure, !.level = level],
                 cipher |-> None, stamps |-> [pollRx |-> 0, respTx |-> 0]]
    /\ UNCHANGED <<crowd, at, mac, seqCnt, frameCnt, keyReg, exchange, heard, message, lastPoll,
                   result, status>>

(* A device restarts at any moment; its chip may keep the key.             *)
Restart(d) ==
    /\ Fault
    /\ at' = [at EXCEPT ![d] = "top"]
    /\ mac' = [mac EXCEPT ![d] = FirstHeader(d)]
    /\ IF d = "init"
       THEN /\ seqCnt' = FirstSeqCnt /\ frameCnt' = 0 /\ lastPoll' = NoHeader
            /\ UNCHANGED message
       ELSE /\ message' = [pollRx |-> 0, respTx |-> 0]
            /\ UNCHANGED <<seqCnt, frameCnt, lastPoll>>
    /\ air' = IF air.kind = (IF d = "init" THEN "poll" ELSE "resp") THEN Silence ELSE air
    /\ UNCHANGED <<crowd, keyReg, exchange, heard, result, status>>

(* do { ... } while (1): a result other than success holds the loop.        *)
Report == at["init"] = "reporting" /\ UNCHANGED vars

Next ==
    \/ SendPoll \/ FrameAtInitiator \/ GiveUp \/ NoiseAtInitiator
    \/ StartListening \/ FrameAtResponder \/ SendResp \/ TooLate \/ RespSent \/ NoiseAtResponder
    \/ FrameLost \/ StrangerSends
    \/ Report
    \/ \E d \in Devices : Restart(d)

(* The loops run on, frames end and the timeout comes.  Of the frames that *)
(* can be heard again and again some are heard.                            *)
Fairness ==
    /\ WF_vars(SendPoll) /\ WF_vars(StartListening) /\ WF_vars(GiveUp)
    /\ WF_vars(RespSent) /\ WF_vars(FrameLost)
    /\ SF_vars(FrameAtResponder) /\ SF_vars(SendResp) /\ SF_vars(FrameAtInitiator)

Spec == Init /\ [][Next]_vars /\ Fairness

----------------------------------------------------------------------------
Headers == [secure : BOOLEAN, level : 0 .. 7, seq : 0 .. SeqWrap - 1, cnt : 0 .. CntWrap - 1,
            key : 0 .. Keys, src : Devices \cup {"nobody"}, dst : Devices \cup {"nobody"}]

TypeOK ==
    /\ crowd \in BOOLEAN
    /\ at["init"] \in {"top", "sent", "listen", "reporting"}
    /\ at["resp"] \in {"top", "listen", "answer", "sending", "reporting"}
    /\ mac \in [Devices -> Headers]
    /\ keyReg \in [Devices -> 0 .. Keys]
    /\ lastPoll \in Headers
    /\ status \in [Devices -> {"ok", "length", "aes", "frame", "ignore"}]

(* Each device can read what the other sends: the key and the nonce of the *)
(* decryption are those of the encryption, after whatever losses, late     *)
(* hosts and restarts, although both are made from one structure that      *)
(* holds what was received and what is sent in turn.  A frame that could   *)
(* not be read would hold up the loop for ever.                            *)
PeersRead == \A d \in Devices : at[d] # "reporting"

(* From one poll to the next the frame counter, and so the nonce, goes one *)
(* on, whether or not an answer has replaced the header in between.        *)
PollsCountOn ==
    [][(air'.kind = "poll" /\ air' # air /\ lastPoll # NoHeader)
         => lastPoll'.cnt = (lastPoll.cnt + 1) % CntWrap]_vars

(* The four time stamps of a distance are of one exchange.                 *)
OneExchange ==
    result # None => /\ result.pollRx = result.pollTx
                     /\ result.respTx = result.pollTx
                     /\ result.respRx = result.pollTx

(* However an exchange ends, the two devices range again.                  *)
RangesAgain == []<>(result # None)

(* What rx_aes_802_15_4 and the loops say of a frame that is not for the   *)
(* device: it is ignored, and the program goes on.                         *)
OthersIgnored == \A d \in Devices : status[d] = "ignore" => at[d] # "reporting"

(* The sequence number of the initiator is incremented after each          *)
(* transmission, as the comment on seq_cnt has it.                         *)
SequenceCountsOn ==
    [][(air'.kind = "poll" /\ air' # air /\ lastPoll # NoHeader)
         => lastPoll'.seq = (lastPoll.seq + 1) % SeqWrap]_vars
=============================================================================
