----------------------------- MODULE Dw1000Time -----------------------------
(***************************************************************************)
(* The times of the DW1000 library: five octets that wrap around, delayed  *)
(* transmission at a rounded time that is put into the message before it   *)
(* is sent, and the range computed from six of them by the asymmetric      *)
(* formula.                                                                *)
(*                                                                         *)
(* An exchange is followed in true time, which no device knows; each       *)
(* device has a clock of its own.  Losses and disorder are the matter of   *)
(* Dw1000Ranging; the bias of the received power is left out.              *)
(***************************************************************************)
EXTENDS Integers

CONSTANTS Overflow,     \* TIME_OVERFLOW: values of a timestamp
          Grain,        \* the times at which the chip can start a transmission
          AntennaDelay, \* between the start of a transmission and the antenna
          ReplyDelay,   \* DEFAULT_REPLY_DELAY_TIME
          MaxLatency,   \* the longest time a host takes
          MaxTof,       \* the longest time of flight
          Gains,        \* the anchor's clock may gain a tick in so many, 0 for none
          Offsets       \* what a clock shows at the beginning

ASSUME TimeAssumption ==
    /\ Overflow \in Nat \ {0} /\ Grain \in Nat \ {0} /\ Overflow % Grain = 0
    /\ AntennaDelay \in Nat /\ ReplyDelay \in Nat /\ MaxLatency \in Nat /\ MaxTof \in Nat
    /\ Gains \subseteq Nat
    /\ Grain < ReplyDelay
    /\ 2 * (MaxLatency + ReplyDelay + AntennaDelay + 2 * MaxTof) < Overflow
    /\ Offsets \subseteq 0 .. Overflow - 1

VARIABLES phase,  \* the frame on its way, or "idle"
          now,    \* the true time
          offset, \* what each clock showed at time 0
          tof,    \* the time of flight
          gain,   \* of the anchor's clock
          at,     \* the true times of the six events
          stamps, \* what the devices have recorded of them
          range   \* the range computed last, and the true one

vars == <<phase, now, offset, tof, gain, at, stamps, range>>

Devices == {"tag", "anchor"}
Events == {"pollSent", "pollReceived", "pollAckSent", "pollAckReceived", "rangeSent", "rangeReceived"}

Drift(d, t) == IF d = "tag" \/ gain = 0 THEN 0 ELSE t \div gain
Clock(d, t) == (offset[d] + t + Drift(d, t)) % Overflow

----------------------------------------------------------------------------
(* Arithmetic of DW1000Time.                                               *)

(* getTimestamp into five octets, and setTimestamp from them.              *)
Octets(t) == t % Overflow

Wrap(t) == IF t < 0 THEN t + Overflow ELSE t

(* Integer division rounds towards zero.                                   *)
Quotient(n, d) == IF n < 0 THEN -((-n) \div d) ELSE n \div d

(* Mutant: the round-trip of the poll alone.                               *)
RangeAsymmetric_OneSided(s) ==
    LET round1 == Wrap(s.pollAckReceived - s.pollSent)
        reply1 == Wrap(s.pollAckSent - s.pollReceived)
    IN  Quotient(round1 - reply1, 2)

(* computeRangeAsymmetric.                                                 *)
RangeAsymmetric(s) ==
    LET round1 == Wrap(s.pollAckReceived - s.pollSent)
        reply1 == Wrap(s.pollAckSent - s.pollReceived)
        round2 == Wrap(s.rangeReceived - s.pollAckSent)
        reply2 == Wrap(s.rangeSent - s.pollAckReceived)
    IN  Quotient(round1 * round2 - reply1 * reply2, round1 + round2 + reply1 + reply2)

(* Mutant: the time is written as it is.                                   *)
SetDelay_Unrounded(clock) ==
    LET future == Octets(clock + ReplyDelay) IN [register |-> future, expected |-> future + AntennaDelay]

(* setDelay: the register, and the time at which the frame is expected to  *)
(* pass the antenna, which may need a bit more than five octets hold.      *)
SetDelay(clock) ==
    LET future == Octets(clock + ReplyDelay)
        rounded == future - (future % Grain)
    IN  [register |-> rounded, expected |-> rounded + AntennaDelay]

----------------------------------------------------------------------------
Init ==
    /\ phase = "idle"
    /\ now = 0
    /\ offset \in [Devices -> Offsets]
    /\ tof \in 0 .. MaxTof
    /\ gain \in Gains
    /\ at = [e \in Events |-> 0]
    /\ stamps = [e \in Events |-> 0]
    /\ range = [computed |-> 0, true |-> 0]

Latency == 0 .. MaxLatency

(* The chip ignores the low bits of the register and adds the delay of its *)
(* antenna: the frame leaves when its clock has come to that value, or     *)
(* passed it within this tick if it gains one.                             *)
Leaves(d, register, from, t) ==
    LET start == (register - (register % Grain) + AntennaDelay) % Overflow IN
    /\ t \in from + 1 .. from + ReplyDelay + AntennaDelay
    /\ (Clock(d, t) - start) % Overflow <= Drift(d, t) - Drift(d, t - 1)

Happens(e, d, t) ==
    /\ now' = t
    /\ at' = [at EXCEPT ![e] = t]
    /\ stamps' = [stamps EXCEPT ![e] = Clock(d, t)]

(* transmitPoll, and the stamp handleSent reads.                           *)
SendPoll ==
    /\ phase = "idle"
    /\ \E h \in Latency : Happens("pollSent", "tag", now + h)
    /\ phase' = "poll"
    /\ UNCHANGED <<offset, tof, gain, range>>

PollReceived ==
    /\ phase = "poll"
    /\ Happens("pollReceived", "anchor", now + tof)
    /\ phase' = "answering"
    /\ UNCHANGED <<offset, tof, gain, range>>

(* transmitPollAck after a delay; the stamp is the one of the chip.        *)
SendPollAck ==
    /\ phase = "answering"
    /\ \E h \in Latency, t \in now .. now + MaxLatency + ReplyDelay + AntennaDelay :
         /\ Leaves("anchor", SetDelay(Clock("anchor", now + h)).register, now + h, t)
         /\ Happens("pollAckSent", "anchor", t)
    /\ phase' = "pollAck"
    /\ UNCHANGED <<offset, tof, gain, range>>

PollAckReceived ==
    /\ phase = "pollAck"
    /\ Happens("pollAckReceived", "tag", now + tof)
    /\ phase' = "reporting"
    /\ UNCHANGED <<offset, tof, gain, range>>

(* transmitRange: the message carries the time at which it is expected to  *)
(* be sent.                                                                *)
SendRange ==
    /\ phase = "reporting"
    /\ \E h \in Latency, t \in now .. now + MaxLatency + ReplyDelay + AntennaDelay :
         LET delay == SetDelay(Clock("tag", now + h)) IN
         /\ Leaves("tag", delay.register, now + h, t)
         /\ now' = t
         /\ at' = [at EXCEPT !.rangeSent = t]
         /\ stamps' = [stamps EXCEPT !.rangeSent = Octets(delay.expected)]
    /\ phase' = "range"
    /\ UNCHANGED <<offset, tof, gain, range>>

RangeReceived ==
    /\ phase = "range"
    /\ Happens("rangeReceived", "anchor", now + tof)
    /\ range' = [computed |-> RangeAsymmetric(stamps'), true |-> tof]
    /\ phase' = "done"
    /\ UNCHANGED <<offset, tof, gain>>

(* Time is counted anew, and the devices may have moved.                   *)
Again ==
    /\ phase = "done"
    /\ phase' = "idle"
    /\ now' = 0
    /\ offset' = [d \in Devices |-> Clock(d, now)]
    /\ tof' \in 0 .. MaxTof
    /\ UNCHANGED <<gain, at, stamps, range>>

Next ==
    \/ SendPoll \/ PollReceived \/ SendPollAck \/ PollAckReceived \/ SendRange \/ RangeReceived \/ Again

Spec == Init /\ [][Next]_vars

----------------------------------------------------------------------------
(* Properties.                                                             *)

TypeOK ==
    /\ phase \in {"idle", "poll", "answering", "pollAck", "reporting", "range", "done"}
    /\ now \in Nat
    /\ offset \in [Devices -> 0 .. Overflow - 1]
    /\ tof \in 0 .. MaxTof
    /\ gain \in Gains
    /\ at \in [Events -> Nat]
    /\ stamps \in [Events -> 0 .. Overflow - 1]
    /\ range \in [computed : Int, true : 0 .. MaxTof]

(* With clocks of one rate the computed range is the true one, wherever    *)
(* each clock stands and whichever of the times wrap around.               *)
Exact == gain = 0 => range.computed = range.true

(* A clock that gains a tick in gain makes the range at most one tick too  *)
(* short, and longer by half of what it gains in the time of flight, with  *)
(* half a tick of rounding: the errors over the replies, which are far     *)
(* longer, cancel.                                                         *)
CloseWithDrift ==
    gain > 0 => range.computed - range.true \in -1 .. (gain + range.true) \div (2 * gain)

(* The time a RANGE message carries is the one its frame passes the        *)
(* antenna at, although it is written before the frame is sent.            *)
Predicted == phase = "range" => stamps.rangeSent = Clock("tag", at.rangeSent)

(* Both together, with every variable of its type.                         *)
TimesTrue == TypeOK /\ Exact /\ Predicted
=============================================================================
