------------------------------ MODULE Sensors -------------------------------
(***************************************************************************)
(* Temperature and voltage of the DW3000: what dwt_initialise takes from   *)
(* OTP as the references of the factory, dwt_readtempvbat, which converts  *)
(* both and waits for it, the readings of the last wake-up, and the        *)
(* conversion to degrees and volts (dw3000_device_api.cpp). The host calls *)
(* one function at a time; the chip converts, warms and discharges as it   *)
(* likes.                                                                  *)
(***************************************************************************)
EXTENDS Integers

CONSTANTS
  Codes,        \* what the converter may give, of 0 .. 255
  Reference     \* what it gave in the factory, for both

SensorsAssumption == Codes \cup {Reference} \subseteq 1 .. 255

(* The factory measures at 23 degrees, in twentieths of one, and at 3.3 V, *)
(* in 0.1 / 255 V.                                                         *)
FactoryTemp == 460
FactoryVolt == 8415

VARIABLES
  otp,     \* which references the factory has written
  die,     \* what a conversion would give now
  chip,    \* its state, regulator, sensor and converter
  local,   \* pdw3000local's references, None before dwt_initialise
  mode,    \* the mask it was given
  pc,      \* "idle", or "wait" in dwt_readtempvbat
  during,  \* what the die has been since that call began
  since,   \* what it was at the last wake-up, None before
  others,  \* whether dwt_readtempvbat was called after that
  ret      \* what the last call of the functions below returned

vars == <<otp, die, chip, local, mode, pc, during, since, others, ret>>

None == [of |-> "none"]
Quantity == {"temp", "volt"}
Die == [Quantity -> Codes]
NoReading == [q \in Quantity |-> 0]

Init ==
  /\ otp \in SUBSET Quantity /\ die \in Die
  /\ chip = [state |-> "reset", ms2 |-> FALSE, rden |-> FALSE, start |-> FALSE,
             done |-> FALSE, reading |-> NoReading, wake |-> NoReading]
  /\ local = None /\ mode = {}
  /\ pc = "idle" /\ during = {} /\ since = None /\ others = FALSE /\ ret = None

-----------------------------------------------------------------------------
(* The chip.                                                               *)

(* It warms, cools, or its supply changes.                                 *)
Drift ==
  /\ die' \in Die
  /\ during' = IF pc = "idle" THEN {} ELSE during \cup {die'}
  /\ UNCHANGED <<otp, chip, local, mode, pc, since, others, ret>>

(* Started, and with its regulator on, as it is with the PLL, it converts; *)
(* the temperature only with its sensor enabled.                           *)
Convert ==
  /\ chip.start /\ ~chip.done /\ (chip.ms2 \/ chip.state = "idle_pll")
  /\ chip' = [chip EXCEPT !.done = TRUE,
       !.reading = [die EXCEPT !.temp = IF chip.rden THEN @ ELSE 0]]
  /\ UNCHANGED <<otp, die, local, mode, pc, during, since, others, ret>>

PllLocks ==
  /\ chip.state = "idle_rc"
  /\ chip' = [chip EXCEPT !.state = "idle_pll"]
  /\ UNCHANGED <<otp, die, local, mode, pc, during, since, others, ret>>

(* It sleeps, and wakes with a conversion: DWT_RUNSAR is in every mode.    *)
SleepAndWake ==
  /\ pc = "idle" /\ local # None
  /\ chip' = [chip EXCEPT !.state = "idle_rc", !.ms2 = FALSE, !.rden = FALSE,
       !.start = FALSE, !.done = FALSE, !.reading = die, !.wake = die]
  /\ since' = [die |-> die] /\ others' = FALSE /\ ret' = None
  /\ UNCHANGED <<otp, die, local, mode, pc, during>>

-----------------------------------------------------------------------------
(* A reference that is not read, or not written, has a default. The bit of *)
(* a quantity in the mask keeps it from being read.                        *)
ReadReference(q, m, default) == IF q \notin m /\ q \in otp THEN Reference ELSE default

Initialise(m) ==
  /\ pc = "idle" /\ chip.state = "reset"
  /\ chip' = [chip EXCEPT !.state = "idle_rc"]
  /\ mode' = m
  /\ local' = [temp |-> ReadReference("temp", m, 133), volt |-> ReadReference("volt", m, 116)]
  /\ UNCHANGED <<otp, die, pc, during, since, others, ret>>

(* dwt_readtempvbat, to its busy wait...                                   *)
StartConversion ==
  /\ pc = "idle" /\ local # None
  /\ chip' = [chip EXCEPT !.ms2 = TRUE, !.rden = TRUE, !.start = TRUE]
  /\ pc' = "wait" /\ during' = {die} /\ others' = TRUE /\ ret' = None
  /\ UNCHANGED <<otp, die, local, mode, since>>

(* Mutant: the start bit, and with it the done bit, stays.                 *)
ReadConversion_Started ==
  /\ pc = "wait" /\ chip.done
  /\ chip' = [chip EXCEPT !.ms2 = FALSE, !.rden = FALSE]
  /\ pc' = "idle" /\ during' = {}
  /\ ret' = [of |-> "now", value |-> chip.reading, in |-> during]
  /\ UNCHANGED <<otp, die, local, mode, since, others>>

(* ... and after it. The chip takes the done bit back with the start bit.  *)
ReadConversion ==
  /\ pc = "wait" /\ chip.done
  /\ chip' = [chip EXCEPT !.ms2 = FALSE, !.rden = FALSE, !.start = FALSE, !.done = FALSE]
  /\ pc' = "idle" /\ during' = {}
  /\ ret' = [of |-> "now", value |-> chip.reading, in |-> during]
  /\ UNCHANGED <<otp, die, local, mode, since, others>>

(* dwt_readwakeuptemp and dwt_readwakeupvbat: SAR_READING, not SAR_WAKE_RD.*)
WakeupRegister == chip.reading

ReadWakeup ==
  /\ pc = "idle" /\ since # None
  /\ ret' = [of |-> "wakeup", value |-> WakeupRegister]
  /\ UNCHANGED <<otp, die, chip, local, mode, pc, during, since, others>>

(* In twentieths of a degree, from 20 degrees.                             *)
ConvertRawTemperature(raw) == (raw - local.temp) * 21 + 400

(* In 0.1 / 255 V, from 3.0 V.                                             *)
ConvertRawVoltage(raw) == (raw - local.volt) * 64 + 7650

ConvertRaw(raw) ==
  /\ pc = "idle" /\ local # None
  /\ ret' = [of |-> "converted", raw |-> raw,
             temp |-> ConvertRawTemperature(raw), volt |-> ConvertRawVoltage(raw)]
  /\ UNCHANGED <<otp, die, chip, local, mode, pc, during, since, others>>

Call ==
  \/ \E m \in SUBSET Quantity : Initialise(m)
  \/ StartConversion \/ ReadConversion \/ ReadWakeup \/ \E raw \in Codes : ConvertRaw(raw)

Next == Call \/ Drift \/ Convert \/ PllLocks \/ SleepAndWake

Spec == Init /\ [][Next]_vars

(* The busy wait is executed, and a conversion that can be made is made.   *)
FairSpec == Spec /\ WF_vars(Convert) /\ WF_vars(ReadConversion)

-----------------------------------------------------------------------------
(* Properties.                                                             *)

Reading == [Quantity -> Codes \cup {0}]

(* Every variable keeps its type.                                          *)
TypeOK ==
  /\ otp \subseteq Quantity /\ die \in Die /\ mode \subseteq Quantity
  /\ chip.reading \in Reading /\ chip.wake \in Reading
  /\ chip.state \in {"reset", "idle_rc", "idle_pll"}
  /\ local = None \/ local \in [Quantity -> {Reference, 116, 133}]
  /\ pc \in {"idle", "wait"} /\ during \subseteq Die /\ others \in BOOLEAN

(* What dwt_readtempvbat returns is of the time of the call, both of it,   *)
(* and not what an earlier conversion has left.                            *)
IsCurrent == ret # None /\ ret.of = "now" => ret.value \in ret.in

(* Between calls the function leaves neither regulator nor sensor on.      *)
NothingLeftOn == pc = "idle" => ~chip.ms2 /\ ~chip.rden /\ ~chip.start

(* The wait for the converter ends, with the PLL or without.               *)
WaitEnds == pc = "wait" ~> pc = "idle"

(* The readings of the last wake-up, as long as there was no other.        *)
AtWakeup ==
  ret # None /\ ret.of = "wakeup" /\ ~others => ret.value = since.die
(* The same, whatever was read in between.                                 *)
AtWakeupAlways == ret # None /\ ret.of = "wakeup" => ret.value = since.die

(* As the comments on the references have it: where one is in OTP and was *)
(* to be read, a code is the temperature, or the voltage, that lies as far *)
(* from the factory's as the code does. The conversions take other ones.   *)
TempIsTrue ==
  ret # None /\ ret.of = "converted" /\ "temp" \in otp \ mode
    => ret.temp = FactoryTemp + 21 * (ret.raw - Reference)
VoltIsTrue ==
  ret # None /\ ret.of = "converted" /\ "volt" \in otp \ mode
    => ret.volt = FactoryVolt + 64 * (ret.raw - Reference)

(* The mask defines which values are read from OTP.                        *)
ReadsAsAsked ==
  local # None => \A q \in mode \cap otp : local[q] = Reference
=============================================================================
