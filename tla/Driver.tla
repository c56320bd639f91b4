-------------------------------- MODULE Driver --------------------------------
(***************************************************************************)
(* The DW3000 driver on small instances: its interrupt handler (DriverIsr),*)
(* the state it keeps of the chip (DriverConfig), its accesses by SPI      *)
(* (SpiAccess: which register they reach, and the values they leave), the  *)
(* critical section around the interrupt mask (InterruptMask), and the     *)
(* readings of temperature and voltage (Sensors).                          *)
(*                                                                         *)
(* The parts share no state.  The first state chooses the one that runs;   *)
(* the others stay in a first state of theirs.                             *)
(***************************************************************************)
EXTENDS DriverIsr, Sequences

CONSTANTS
  Configs, MaxRetriesPLL, MaxCalls,                        \* of DriverConfig
  Cells, Registers, BaseOffsets, Indexes, BufferOffsets,   \* of SpiAccess
  Lo, Hi,                                                  \* of InterruptMask
  Codes, Reference                                         \* of Sensors

VARIABLES part,
  otp, dw3000, aon, local, at, cfg, cnt, result, calls,
  mem, word, got, asked, seen, indirect, crc, bare, step,
  build, lo, hi, nested, point, call, pending, meant,
  references, die, sensor, refs, mode, busy, during, since, others, ret

configVars == <<otp, dw3000, aon, local, at, cfg, cnt, result, calls>>
spiVars == <<mem, word, got, asked, seen, indirect, crc, bare, step>>
maskVars == <<build, lo, hi, nested, point, call, pending, meant>>
sensorVars == <<references, die, sensor, refs, mode, busy, during, since, others, ret>>
allVars == <<part, vars, configVars, spiVars, maskVars, sensorVars>>

(* Configurations: the firmware's own, one on the other channel with a     *)
(* long preamble and an STS, one with an SCP code, and one of the 16 MHz   *)
(* pulse repetition.                                                       *)
Plain == [chan |-> 5, code |-> 9, long |-> FALSE, sts |-> "off"]
Sts == [chan |-> 9, code |-> 9, long |-> TRUE, sts |-> "1"]
Scp == [chan |-> 5, code |-> 25, long |-> FALSE, sts |-> "nd"]
Prf16 == [chan |-> 9, code |-> 4, long |-> FALSE, sts |-> "off"]

FourConfigs == {Plain, Sts, Scp, Prf16}

Setup == INSTANCE DriverConfig WITH Softly <- FALSE, chip <- dw3000, pc <- at

Spi == INSTANCE SpiAccess WITH HardReset <- TRUE

Section == INSTANCE InterruptMask WITH Builds <- {"returns"}, at <- point

Die == INSTANCE Sensors WITH
  otp <- references, chip <- sensor, local <- refs, pc <- busy

ASSUME PartAssumptions ==
  /\ Setup!DriverConfigAssumption /\ Spi!SpiAssumption
  /\ Section!MaskAssumption /\ Die!SensorsAssumption

Factory == [tuneLo |-> TRUE, tuneHi |-> TRUE, bias |-> TRUE, dgc |-> TRUE]

MCInit ==
  /\ part \in {"isr", "config", "access", "values", "mask", "sensors"}
  /\ Init /\ Setup!Init /\ Spi!Init /\ Section!Init /\ Die!Init
  /\ part = "sensors" \/ (references = {} /\ die = [q \in Die!Quantity |-> CHOOSE c \in Codes : TRUE])
  /\ part = "config" \/ (otp = Factory /\ cfg = CHOOSE c \in Configs : TRUE)

MCNext ==
  /\ UNCHANGED part
  /\ \/ part = "isr" /\ Next /\ UNCHANGED <<configVars, spiVars, maskVars, sensorVars>>
     \/ part = "config" /\ Setup!Next /\ UNCHANGED <<vars, spiVars, maskVars, sensorVars>>
     \/ part = "access" /\ Spi!NextAccess /\ UNCHANGED <<vars, configVars, maskVars, sensorVars>>
     \/ part = "values" /\ Spi!NextValue /\ UNCHANGED <<vars, configVars, maskVars, sensorVars>>
     \/ part = "mask" /\ Section!Next /\ UNCHANGED <<vars, configVars, spiVars, sensorVars>>
     \/ part = "sensors" /\ Die!Next /\ UNCHANGED <<vars, configVars, spiVars, maskVars>>

(* The fairness of each part's own specification.                          *)
MCSpec ==
  /\ MCInit /\ [][MCNext]_allVars
  /\ WF_vars(part = "isr" /\ Isr)
  /\ WF_vars(part = "isr" /\ Radio)
  /\ WF_vars(part = "isr" /\ ForceTrxOff)
  /\ WF_maskVars(part = "mask" /\ (Section!Leave \/ Section!WriteLo \/ Section!WriteHi))
  /\ SF_maskVars(part = "mask" /\ Section!Handler)
  /\ WF_sensorVars(part = "sensors" /\ Die!Convert)
  /\ WF_sensorVars(part = "sensors" /\ Die!ReadConversion)

-----------------------------------------------------------------------------
(* Properties of the parts; those of DriverIsr are taken as they are.      *)

(* The driver's copy agrees with the chip whenever the chip is in use:     *)
(* after sleep no other table of operating parameters is in force than the *)
(* configuration's, and the factory's tuning is as before.  dwt_configure  *)
(* succeeds only if the PLL has locked in this very call and the           *)
(* receiver's calibration has passed.                                      *)
CopyHolds ==
  /\ [](Setup!TypeOK /\ Setup!CopyAgrees /\ Setup!OpsRestored /\ Setup!TuningSurvives)
  /\ Setup!SuccessIsTrue

(* By every header the chip carries out the access its caller means, and   *)
(* writes and modifications that overlap leave in each octet what their    *)
(* callers made of it.  Between calls the interrupt mask is what those of  *)
(* the main loop and of the handler make of it one after the other.        *)
RegistersAsMeant ==
  /\ Spi!TypeOK /\ Spi!Reaches /\ Spi!RegisterValues
  /\ Section!TypeOK /\ Section!MaskAsMeant

(* What dwt_readtempvbat returns is of the time of the call, all of it,    *)
(* and leaves neither regulator nor sensor on; and until such a call the   *)
(* functions for the last wake-up give its readings.                       *)
ReadingsTrue == Die!TypeOK /\ Die!IsCurrent /\ Die!NothingLeftOn /\ Die!AtWakeup

(* Nothing waits for ever: every good frame is delivered and every frame   *)
(* that was sent reported, what ends a reception leads to another, an      *)
(* interrupt is handled however often the main loop sets the mask, and the *)
(* wait for the converter ends.                                            *)
DriverGoesOn ==
  /\ AllDelivered
  /\ AllReported
  /\ ListensAgain
  /\ part = "mask" => Section!Handled
  /\ part = "sensors" => Die!WaitEnds
=============================================================================
