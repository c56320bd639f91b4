------------------------------ MODULE Ranging -------------------------------
(***************************************************************************)
(* Single-sided two-way ranging between devices that share the air:        *)
(* adapters/ranging/stateless/dw3000_impl.cpp together with the parts of   *)
(* the DW3000 it drives (status register, receiver with its timeout,       *)
(* immediate and delayed transmission).                                    *)
(*                                                                         *)
(* Time is a count of ticks.  Radio events happen exactly when they are    *)
(* due (Tick waits for them); the firmware, which polls the status         *)
(* register from a preemptible task, may notice an event any number of     *)
(* ticks late.  A frame may be lost or damaged on its way, and traffic of  *)
(* other networks may arrive whenever a receiver is on.                    *)
(***************************************************************************)
EXTENDS Timestamps

CONSTANTS
  Device,         \* the devices; the short address of a device is itself
  Pan,            \* PAN identifiers that commands carry
  ForeignPan,     \* the PAN identifier of other networks' traffic
  ForeignLen,     \* lengths of other networks' frames
  TimeoutUus,     \* timeout_uus values that commands carry
  FwtoMod,        \* RX_FWTO holds a 20-bit count              (2^20)
  SeqMod,         \* sequence_number is a uint8_t              (2^8)
  Offset,         \* Offset[d]: the counter of device d at time 0
  Flight,         \* Flight[d][e]: flight time from d to e
  AntennaDelay,   \* from the start of a transmission to its emission
  PollTxToRespRx, \* poll_tx_to_resp_rx_delay_uus
  PollRxToRespTx, \* poll_rx_to_resp_tx_delay_uus
  CommandGap,     \* the least time between two operations of a device
  MaxLatency      \* the longest the firmware leaves a received poll unread

(***************************************************************************)
(* A response that arrives too late for one exchange must be over before   *)
(* the receiver opens for the next: nothing in a response says which poll  *)
(* it answers.  The firmware has 650 against 2 * 240 + 20000.              *)
(***************************************************************************)
ASSUME RangingAssumption ==
  /\ ForeignPan \notin Pan
  /\ ForeignLen \subseteq Nat
  /\ TimeoutUus \subseteq Nat
  /\ FwtoMod \in Nat \ {0}
  /\ SeqMod \in Nat \ {0, 1}
  /\ Offset \in [Device -> Nat]
  /\ Flight \in [Device -> [Device -> Nat]]
  /\ \A d, e \in Device : Flight[d][e] = Flight[e][d]
  /\ AntennaDelay \in Nat
  /\ PollTxToRespRx \in Nat
  /\ PollRxToRespTx \in Nat
  /\ CommandGap \in Nat
  /\ MaxLatency \in Nat
  /\ PollRxToRespTx + MaxLatency + 2 * DxUnit < ClockMod \div 2
  /\ \A d, e \in Device :
       LET rtd == 2 * (AntennaDelay + Flight[d][e]) + PollRxToRespTx
       IN  /\ rtd < StampMod \div 2
           /\ rtd < 2 * PollTxToRespRx + CommandGap

VARIABLES
  now,      \* the time
  air,      \* frames in flight: [to, at, frame]
  radio,    \* "off", "rx" (receiving from on to until), "dtx" (armed for on)
  on,       \* when the receiver opens, or the armed transmission starts
  until,    \* when the receiver times out
  status,   \* the bits of SYS_STATUS that the code looks at
  txAt,     \* when the poll was emitted            (TX_TIME, as true time)
  rxAt,     \* when the unread frame came in        (RX_TIME, as true time)
  txBuf,    \* the chip's transmit buffer, while it has a frame to send
  rxBuf,    \* the chip's receive buffer, while it has an unread frame
  pc,       \* where the firmware is
  cmd,      \* the arguments of the current operation
  seq,      \* DW3000Impl::sequence_number
  rest,     \* ticks before the next operation can begin
  ret       \* what the last operation returned, until the next begins

radioVars == <<radio, on, until, status, txAt, rxAt, txBuf, rxBuf>>
taskVars == <<pc, cmd, seq, rest, ret>>
vars == <<now, air, radio, on, until, status, txAt, rxAt, txBuf, rxBuf,
          pc, cmd, seq, rest, ret>>

-----------------------------------------------------------------------------
(* Frames, models/ranging.h.                                               *)
PollLen == 12
RespLen == 20

(* exch is no field of the frame: it is the time the exchange's poll was   *)
(* emitted, which only the properties read.                                *)
Poll(pan, dst, src, s, t) ==
  [fn |-> "Poll", len |-> PollLen, pan |-> pan, dst |-> dst, src |-> src,
   seq |-> s, pollRx |-> 0, respTx |-> 0, exch |-> t]

Resp(pan, dst, src, s, prx, rtx, t) ==
  [fn |-> "Resp", len |-> RespLen, pan |-> pan, dst |-> dst, src |-> src,
   seq |-> s, pollRx |-> prx, respTx |-> rtx, exch |-> t]

(* What other networks send, to every address.                             *)
ForeignFrames(d) ==
  {[fn |-> fn, len |-> len, pan |-> ForeignPan, dst |-> d, src |-> e,
    seq |-> 0, pollRx |-> 0, respTx |-> 0, exch |-> 0] :
      fn \in {"Poll", "Resp"}, len \in ForeignLen, e \in Device \ {d}}

(* Mutant: the PAN identifier goes unchecked.                              *)
HasExpectedHeader_AnyPan(f, pan, dst, src, fn) ==
  f.dst = dst /\ f.src = src /\ f.fn = fn

HasExpectedHeader(f, pan, dst, src, fn) ==
  f.pan = pan /\ f.dst = dst /\ f.src = src /\ f.fn = fn

(* The counter of device d at time t.                                      *)
Clock(d, t) == (t + Offset[d]) % ClockMod

(* Mutant: the wait for a frame does not look at SYS_STATUS_ALL_RX_TO.     *)
RxEvents_NoTimeout == {"RXFCG", "RXERR"}

(* The status bits whose coming ends the wait for a frame.                 *)
RxEvents == {"RXFCG", "RXTO", "RXERR"}

(* Mutant: ALL_TX names no bit.                                            *)
AllTx_None == {}

AllTx == {"TXFRS"}

(* dwt_setrxtimeout: what the frame-wait counter holds of a timeout.  A    *)
(* count of 0 runs out at once.                                            *)
FrameWait(timeout) == timeout % FwtoMod

Listening(d) == radio[d] = "rx" /\ on[d] <= now

Copies(d, f, t) ==
  {[to |-> e, at |-> t + Flight[d][e], frame |-> f] : e \in Device \ {d}}

-----------------------------------------------------------------------------
(* Registers the code does not read again are blank, and so are the        *)
(* arguments and the result of no operation.                               *)
Blank(d) == Poll(ForeignPan, d, d, 0, 0)
NoCmd(d) == [pan |-> ForeignPan, peer |-> d, timeout |-> 0]
NoRet(d) == [op |-> "none", err |-> "Ok", peer |-> d, rtt |-> 0]

Init ==
  /\ now = 0
  /\ air = {}
  /\ radio = [d \in Device |-> "off"]
  /\ on = [d \in Device |-> 0]
  /\ until = [d \in Device |-> 0]
  /\ status = [d \in Device |-> {}]
  /\ txAt = [d \in Device |-> 0]
  /\ rxAt = [d \in Device |-> 0]
  /\ txBuf = [d \in Device |-> Blank(d)]
  /\ rxBuf = [d \in Device |-> Blank(d)]
  /\ pc = [d \in Device |-> "idle"]
  /\ cmd = [d \in Device |-> NoCmd(d)]
  /\ seq = [d \in Device |-> 0]
  /\ rest = [d \in Device |-> 0]
  /\ ret = [d \in Device |-> NoRet(d)]

-----------------------------------------------------------------------------
(* The radio.                                                              *)

(* The radio of d goes off, its timers with it, and raises a status bit.   *)
SwitchOff(d, bit) ==
  /\ radio' = [radio EXCEPT ![d] = "off"]
  /\ on' = [on EXCEPT ![d] = 0]
  /\ until' = [until EXCEPT ![d] = 0]
  /\ status' = [status EXCEPT ![d] = @ \union {bit}]

(* A device that listens receives a frame, or takes it for damaged.        *)
Receive(d, f) ==
  /\ Listening(d)
  /\ \/ /\ SwitchOff(d, "RXFCG")
        /\ rxBuf' = [rxBuf EXCEPT ![d] = f]
        /\ rxAt' = [rxAt EXCEPT ![d] = now]
     \/ /\ SwitchOff(d, "RXERR")
        /\ UNCHANGED <<rxBuf, rxAt>>

(* A frame reaches a device, which may not hear it.                        *)
Arrive(m) ==
  /\ m.at = now
  /\ air' = air \ {m}
  /\ \/ Receive(m.to, m.frame)
     \/ UNCHANGED <<radio, on, until, status, rxBuf, rxAt>>
  /\ UNCHANGED <<now, txAt, txBuf, taskVars>>

(* A device hears another network's frame.                                 *)
Interfere(d) ==
  /\ \E f \in ForeignFrames(d) : Receive(d, f)
  /\ UNCHANGED <<now, air, txAt, txBuf, taskVars>>

RxTimeout(d) ==
  /\ radio[d] = "rx"
  /\ until[d] = now
  /\ SwitchOff(d, "RXTO")
  /\ UNCHANGED <<now, air, txAt, rxAt, txBuf, rxBuf, taskVars>>

(* The armed transmission starts.                                          *)
DelayedTx(d) ==
  /\ radio[d] = "dtx"
  /\ on[d] = now
  /\ SwitchOff(d, "TXFRS")
  /\ air' = air \union Copies(d, txBuf[d], now + AntennaDelay)
  /\ txBuf' = [txBuf EXCEPT ![d] = Blank(d)]
  /\ UNCHANGED <<now, txAt, rxAt, rxBuf, taskVars>>

(* Time passes once every radio event of this instant has happened.        *)
Tick ==
  /\ \A m \in air : m.at > now
  /\ \A d \in Device :
       /\ radio[d] = "rx" => until[d] > now
       /\ radio[d] = "dtx" => on[d] > now
       /\ pc[d] = "listen" /\ "RXFCG" \in status[d] => now < rxAt[d] + MaxLatency
  /\ now' = now + 1
  /\ rest' = [d \in Device |-> IF rest[d] = 0 THEN 0 ELSE rest[d] - 1]
  /\ UNCHANGED <<air, radioVars, pc, cmd, seq, ret>>

-----------------------------------------------------------------------------
(* The firmware.                                                           *)

(* Mutant: the task runs its loop without its delay.                       *)
MayStart_NoRest(d) == pc[d] = "idle"

MayStart(d) == pc[d] = "idle" /\ rest[d] = 0

(* The operation goes on to its first wait; its arguments are kept.        *)
Begin(d, at, peer, pan, timeout) ==
  /\ pc' = [pc EXCEPT ![d] = at]
  /\ cmd' = [cmd EXCEPT ![d] = [pan |-> pan, peer |-> peer, timeout |-> timeout]]
  /\ ret' = [ret EXCEPT ![d] = NoRet(d)]

(* The operation op of device d returns err, and with Ok the round trip.   *)
Return(d, op, peer, err, rtt) ==
  /\ pc' = [pc EXCEPT ![d] = "idle"]
  /\ cmd' = [cmd EXCEPT ![d] = NoCmd(d)]
  /\ ret' = [ret EXCEPT ![d] = [op |-> op, err |-> err, peer |-> peer, rtt |-> rtt]]
  /\ rest' = [rest EXCEPT ![d] = CommandGap]

BumpSeq(d) == seq' = [seq EXCEPT ![d] = (@ + 1) % SeqMod]

(* A timeout of 0 is refused before the radio is touched.                  *)
Refuse(d, op, peer) ==
  /\ MayStart(d)
  /\ 0 \in TimeoutUus
  /\ Return(d, op, peer, "InvalidArgument", 0)
  /\ UNCHANGED <<now, air, radioVars, seq>>

(* initiate: clear the status, send the poll, open the receiver a fixed    *)
(* delay later.                                                            *)
Initiate(d, peer, pan, timeout) ==
  /\ MayStart(d)
  /\ timeout > 0
  /\ LET poll == Poll(pan, peer, d, seq[d], now + AntennaDelay)
         open == now + PollTxToRespRx
     IN  /\ status' = [status EXCEPT ![d] =
                         (@ \ (RxEvents \union AllTx)) \union {"TXFRS"}]
         /\ txAt' = [txAt EXCEPT ![d] = now + AntennaDelay]
         /\ air' = air \union Copies(d, poll, now + AntennaDelay)
         /\ radio' = [radio EXCEPT ![d] = "rx"]
         /\ on' = [on EXCEPT ![d] = open]
         /\ until' = [until EXCEPT ![d] = open + FrameWait(timeout)]
  /\ Begin(d, "poll", peer, pan, timeout)
  /\ UNCHANGED <<now, rxAt, txBuf, rxBuf, seq, rest>>

(* The frame is read out and RXFCG cleared.                                *)
TakeFrame(d) ==
  /\ "RXFCG" \in status[d]
  /\ status' = [status EXCEPT ![d] = @ \ {"RXFCG"}]
  /\ rxBuf' = [rxBuf EXCEPT ![d] = Blank(d)]
  /\ rxAt' = [rxAt EXCEPT ![d] = 0]

(* initiate leaves its wait without a good frame.                          *)
InitiateFails(d) ==
  /\ pc[d] = "poll"
  /\ status[d] \intersect RxEvents # {}
  /\ "RXFCG" \notin status[d]
  /\ BumpSeq(d)
  /\ status' = [status EXCEPT ![d] = @ \ {"RXTO", "RXERR"}]
  /\ Return(d, "initiate", cmd[d].peer,
            IF "RXTO" \in status[d] THEN "UwbResponseRxTimeout" ELSE "UwbResponseRxFailed", 0)
  /\ txAt' = [txAt EXCEPT ![d] = 0]
  /\ UNCHANGED <<now, air, radio, on, until, rxAt, txBuf, rxBuf>>

ResponseError(f, c, d) ==
  IF f.len > RespLen THEN "UwbResponseFrameTooLong"
  ELSE IF f.len < RespLen \/ ~HasExpectedHeader(f, c.pan, d, c.peer, "Resp")
       THEN "UwbUnexpectedResponseFrame"
       ELSE "Ok"

(* initiate has a frame: check it and compute the round trip.              *)
InitiateReceives(d) ==
  /\ pc[d] = "poll"
  /\ TakeFrame(d)
  /\ BumpSeq(d)
  /\ LET f == rxBuf[d]
         err == ResponseError(f, cmd[d], d)
         rtt == RoundTrip(Lo32(Clock(d, txAt[d])), Lo32(Clock(d, rxAt[d])),
                          f.pollRx, f.respTx)
     IN  Return(d, "initiate", cmd[d].peer, err, IF err = "Ok" THEN rtt ELSE 0)
  /\ txAt' = [txAt EXCEPT ![d] = 0]
  /\ UNCHANGED <<now, air, radio, on, until, txBuf>>

(* listen: clear the receive status and open the receiver.                 *)
Listen(d, peer, pan, timeout) ==
  /\ MayStart(d)
  /\ timeout > 0
  /\ status' = [status EXCEPT ![d] = @ \ RxEvents]
  /\ radio' = [radio EXCEPT ![d] = "rx"]
  /\ on' = [on EXCEPT ![d] = now]
  /\ until' = [until EXCEPT ![d] = now + FrameWait(timeout)]
  /\ Begin(d, "listen", peer, pan, timeout)
  /\ UNCHANGED <<now, air, txAt, rxAt, txBuf, rxBuf, seq, rest>>

(* receiveFrame leaves its wait without a good frame.                      *)
ListenFails(d) ==
  /\ pc[d] = "listen"
  /\ status[d] \intersect RxEvents # {}
  /\ "RXFCG" \notin status[d]
  /\ status' = [status EXCEPT ![d] = @ \ {"RXTO", "RXERR"}]
  /\ Return(d, "listen", cmd[d].peer,
            IF "RXTO" \in status[d] THEN "UwbPollRxTimeout" ELSE "UwbPollRxFailed", 0)
  /\ UNCHANGED <<now, air, radio, on, until, txAt, rxAt, txBuf, rxBuf, seq>>

PollError(f, c, d) ==
  IF f.len > PollLen THEN "UwbPollFrameTooLong"
  ELSE IF f.len < PollLen \/ ~HasExpectedHeader(f, c.pan, d, c.peer, "Poll")
       THEN "UwbUnexpectedPollFrame"
       ELSE "Ok"

(* listen has a frame that is not the poll it was told to expect.          *)
ListenRejects(d) ==
  /\ pc[d] = "listen"
  /\ TakeFrame(d)
  /\ LET err == PollError(rxBuf[d], cmd[d], d)
     IN  err # "Ok" /\ Return(d, "listen", cmd[d].peer, err, 0)
  /\ UNCHANGED <<now, air, radio, on, until, txAt, txBuf, seq>>

(* What the counter has to go to reach the programmed start.  Half a       *)
(* period or more means that the start has passed (HPDWARN).               *)
Lead(d, start) == (start - Clock(d, now)) % ClockMod
IsLate(lead) == lead = 0 \/ lead >= ClockMod \div 2

(* listen has its poll: stamp the response for the time the chip is        *)
(* programmed to send it at, and arm it unless that time has passed.       *)
ListenResponds(d) ==
  /\ pc[d] = "listen"
  /\ "RXFCG" \in status[d]
  /\ PollError(rxBuf[d], cmd[d], d) = "Ok"
  /\ status' = [status EXCEPT ![d] = @ \ ({"RXFCG"} \union AllTx)]
  /\ rxBuf' = [rxBuf EXCEPT ![d] = Blank(d)]
  /\ rxAt' = [rxAt EXCEPT ![d] = 0]
  /\ LET rx40 == Clock(d, rxAt[d])
         time == RespTxTime(rx40, PollRxToRespTx)
         resp == Resp(cmd[d].pan, cmd[d].peer, d, seq[d], Lo32(rx40),
                      Lo32(RespTxStamp(time, AntennaDelay)), rxBuf[d].exch)
         lead == Lead(d, ChipStart(time))
     IN  \/ /\ IsLate(lead)
            /\ Return(d, "listen", cmd[d].peer, "UwbResponseTxFailed", 0)
            /\ UNCHANGED <<radio, on, txBuf>>
         \/ /\ ~IsLate(lead)
            /\ txBuf' = [txBuf EXCEPT ![d] = resp]
            /\ radio' = [radio EXCEPT ![d] = "dtx"]
            /\ on' = [on EXCEPT ![d] = now + lead]
            /\ pc' = [pc EXCEPT ![d] = "respond"]
            /\ UNCHANGED <<cmd, ret, rest>>
  /\ UNCHANGED <<now, air, until, txAt, seq>>

(* listen sees its response sent.                                          *)
ListenDone(d) ==
  /\ pc[d] = "respond"
  /\ "TXFRS" \in status[d]
  /\ status' = [status EXCEPT ![d] = @ \ {"TXFRS"}]
  /\ BumpSeq(d)
  /\ Return(d, "listen", cmd[d].peer, "Ok", 0)
  /\ UNCHANGED <<now, air, radio, on, until, txAt, rxAt, txBuf, rxBuf>>

-----------------------------------------------------------------------------
Command(d) ==
  \E peer \in Device \ {d} :
    \/ \E op \in {"initiate", "listen"} : Refuse(d, op, peer)
    \/ \E pan \in Pan, timeout \in TimeoutUus :
         Initiate(d, peer, pan, timeout) \/ Listen(d, peer, pan, timeout)

Poller(d) ==
  \/ InitiateFails(d) \/ InitiateReceives(d)
  \/ ListenFails(d) \/ ListenRejects(d) \/ ListenResponds(d) \/ ListenDone(d)

Radio(d) == Interfere(d) \/ RxTimeout(d) \/ DelayedTx(d)

Next ==
  \/ Tick
  \/ \E m \in air : Arrive(m)
  \/ \E d \in Device : Command(d) \/ Poller(d) \/ Radio(d)

Spec == Init /\ [][Next]_vars

-----------------------------------------------------------------------------
(* Properties.                                                             *)

Frame ==
  [fn : {"Poll", "Resp"}, len : {PollLen, RespLen} \union ForeignLen,
   pan : Pan \union {ForeignPan}, dst : Device, src : Device,
   seq : 0 .. SeqMod - 1, pollRx : 0 .. StampMod - 1, respTx : 0 .. StampMod - 1,
   exch : Nat]

StatusBit == {"RXFCG", "RXTO", "RXERR", "TXFRS"}

Error ==
  {"Ok", "InvalidArgument", "UwbPollRxTimeout", "UwbPollRxFailed",
   "UwbPollFrameTooLong", "UwbUnexpectedPollFrame", "UwbResponseTxFailed",
   "UwbResponseRxTimeout", "UwbResponseRxFailed", "UwbResponseFrameTooLong",
   "UwbUnexpectedResponseFrame"}

(* Every variable keeps its type.                                          *)
TypeOK ==
  /\ now \in Nat
  /\ air \subseteq [to : Device, at : Nat, frame : Frame]
  /\ radio \in [Device -> {"off", "rx", "dtx"}]
  /\ on \in [Device -> Nat]
  /\ until \in [Device -> Nat]
  /\ status \in [Device -> SUBSET StatusBit]
  /\ txAt \in [Device -> Nat]
  /\ rxAt \in [Device -> Nat]
  /\ txBuf \in [Device -> Frame]
  /\ rxBuf \in [Device -> Frame]
  /\ pc \in [Device -> {"idle", "poll", "listen", "respond"}]
  /\ cmd \in [Device -> [pan : Pan \union {ForeignPan}, peer : Device, timeout : Nat]]
  /\ seq \in [Device -> 0 .. SeqMod - 1]
  /\ rest \in [Device -> Nat]
  /\ ret \in [Device -> [op : {"none", "initiate", "listen"}, err : Error,
                        peer : Device, rtt : Int]]

(* An initiate that returns Ok has measured exactly twice the flight time  *)
(* to the device it was told to range with, whatever the two counters      *)
(* read, wherever they wrap, and whatever else is on the air.              *)
RangeCorrect ==
  \A d \in Device :
    ret[d].op = "initiate" /\ ret[d].err = "Ok"
      => ret[d].rtt = 2 * Flight[d][ret[d].peer]

(* The responses initiate accepts answer the poll it has just sent, though *)
(* nothing in a response names its poll.                                   *)
AnswersThisPoll ==
  [][\A d \in Device :
       InitiateReceives(d) /\ ret'[d].err = "Ok" => rxBuf[d].exch = txAt[d]]_vars

(* The transmission time that listen puts in a response, before it is      *)
(* sent, is the time at which it leaves the antenna.                       *)
PredictedTxTime ==
  [][\A d \in Device :
       DelayedTx(d) => txBuf[d].respTx = Lo32(Clock(d, now + AntennaDelay))]_vars

(* So what initiate computes from is of one exchange, and as it was sent.  *)
ResponseTrue == AnswersThisPoll /\ PredictedTxTime

(* While the firmware spins on SYS_STATUS, the bit it waits for is set, or *)
(* the radio is in a state that will set it.                               *)
SpinEnds ==
  \A d \in Device :
    /\ pc[d] \in {"poll", "listen"} =>
         \/ status[d] \intersect RxEvents # {}
         \/ radio[d] = "rx" /\ until[d] >= now
    /\ pc[d] = "respond" =>
         "TXFRS" \in status[d] \/ (radio[d] = "dtx" /\ on[d] >= now)

(* Between operations the radio is off: an operation never finds it        *)
(* receiving, or armed with a transmission of an earlier one.              *)
RadioOffWhenIdle == \A d \in Device : pc[d] = "idle" => radio[d] = "off"

(* The radio keeps in step with the firmware: whenever the firmware waits  *)
(* for the radio it is to answer, and when it does not the radio is off.   *)
RadioInStep == SpinEnds /\ RadioOffWhenIdle

(* A device opens its receiver for at least the timeout it was given.      *)
FullTimeout ==
  [][\A d \in Device : RxTimeout(d) => now >= on[d] + cmd[d].timeout]_vars

-----------------------------------------------------------------------------
(* The inductive invariant behind the safety properties.  It follows a     *)
(* frame of our networks through an exchange: the poll on its way, the     *)
(* poll received, the response armed, the response on its way, the         *)
(* response received.  At each stage the frame's stamps are readings of    *)
(* its sender's counter at known times, and the frame belongs either to    *)
(* the poll its initiator is waiting on, or to one so old that it will be  *)
(* over before the initiator opens its receiver again.                     *)

(* How long a whole exchange between d and e takes at most.                *)
Exchange(d, e) == 2 * (AntennaDelay + Flight[d][e]) + PollRxToRespTx

(* When d, which is in initiate, opens or opened its receiver.             *)
Opening(d) == txAt[d] - AntennaDelay + PollTxToRespRx

(* The radio does what the firmware is waiting for.                        *)
RadioInv(d) ==
  /\ pc[d] = "idle" => radio[d] = "off"
  /\ pc[d] \in {"poll", "listen"} =>
       \/ radio[d] = "off" /\ status[d] \intersect RxEvents # {}
       \/ /\ radio[d] = "rx" /\ until[d] >= now /\ until[d] >= on[d]
          /\ status[d] \intersect RxEvents = {}
  /\ pc[d] = "respond" =>
       \/ radio[d] = "off" /\ "TXFRS" \in status[d]
       \/ radio[d] = "dtx" /\ on[d] >= now /\ "TXFRS" \notin status[d]
  /\ "RXFCG" \in status[d] => radio[d] = "off" /\ pc[d] \in {"poll", "listen"}
  /\ txBuf[d].pan \in Pan <=> radio[d] = "dtx"
  /\ pc[d] # "idle" => rest[d] = 0 /\ cmd[d].pan \in Pan

(* When receptions take place.                                             *)
ReceiverInv(d) ==
  /\ pc[d] = "poll" /\ radio[d] = "rx" => on[d] = Opening(d)
  /\ pc[d] = "poll" /\ radio[d] = "off" => now >= Opening(d)
  /\ "RXFCG" \in status[d] =>
       /\ rxAt[d] <= now
       /\ pc[d] = "poll" => rxAt[d] >= Opening(d)
       /\ pc[d] = "listen" => now <= rxAt[d] + MaxLatency

(* When the responder of a response heard its poll.                        *)
Heard(f) == f.exch + Flight[f.dst][f.src]

(* The stamps of a response that is emitted at the time sent.              *)
StampsInv(f, sent) ==
  /\ f.pollRx = Lo32(Clock(f.src, Heard(f)))
  /\ f.respTx = Lo32(Clock(f.src, sent))
  /\ Heard(f) <= sent
  /\ sent <= Heard(f) + PollRxToRespTx + AntennaDelay

(* A frame of our networks that reaches device e at time t.                *)
TimelyInv(f, e, t) ==
  /\ f.fn = "Poll" => t = f.exch + Flight[f.src][e]
  /\ f.fn = "Resp" => StampsInv(f, t - Flight[f.src][e])

(* The exchange that device d began with e by a poll emitted at time t is  *)
(* the one it waits on, or over before its receiver opens.                 *)
CurrentOrOver(d, e, t) ==
  IF pc[d] = "poll"
  THEN t = txAt[d] \/ t - AntennaDelay + Exchange(d, e) < Opening(d)
  ELSE t - AntennaDelay + Exchange(d, e) < now + rest[d] + PollTxToRespRx

FreshInv(f) ==
  /\ f.fn = "Poll" => CurrentOrOver(f.src, f.dst, f.exch)
  /\ f.fn = "Resp" => CurrentOrOver(f.dst, f.src, f.exch)

AirInv ==
  \A m \in air :
    m.frame.pan \in Pan => TimelyInv(m.frame, m.to, m.at) /\ FreshInv(m.frame)

RxBufInv(d) ==
  rxBuf[d].pan \in Pan => TimelyInv(rxBuf[d], d, rxAt[d]) /\ FreshInv(rxBuf[d])

TxBufInv(d) ==
  txBuf[d].pan \in Pan =>
    /\ txBuf[d].fn = "Resp" /\ txBuf[d].src = d
    /\ StampsInv(txBuf[d], on[d] + AntennaDelay)
    /\ FreshInv(txBuf[d])

DeviceInv(d) == RadioInv(d) /\ ReceiverInv(d) /\ RxBufInv(d) /\ TxBufInv(d)

(* The conjunction is inductive.                                           *)
IInv ==
  /\ TypeOK
  /\ \A d \in Device : DeviceInv(d)
  /\ AirInv
  /\ RangeCorrect
=============================================================================
