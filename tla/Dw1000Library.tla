----------------------------- MODULE Dw1000Library -----------------------------
(***************************************************************************)
(* The DW1000 library on small instances, in parts that share no state:    *)
(* its arithmetic of times with clocks of one rate and with a faster one   *)
(* (Dw1000Time), the ranging of a tag with its anchors (Dw1000Ranging),    *)
(* the table of devices (DeviceTable), the interrupt handler against the main  *)
(* loop (Dw1000Radio), and the configuration of a chip (Dw1000Config).     *)
(* The first state chooses the part that runs; the others stay in a first  *)
(* state of theirs.                                                        *)
(***************************************************************************)
EXTENDS Dw1000Time, Sequences, FiniteSets

CONSTANTS
  Parts,                                       \* the parts to run
  Anchors, Tag, BlinkPeriod, Inactivity, Restarting, NoFrame,  \* of Dw1000Ranging
  Addr, MaxDevices, LenData,                   \* of DeviceTable
  Chips, Channels, Delays                      \* of Dw1000Config

VARIABLES part,
  devices, expected, counter, known, failed, slot, ranges, tx, sent, got, calm,
  table,
  sysctrl, sysstatus, mode, pc, job, isr, radio, rxAfter, status, pending, owed, late,
  lib, chip, selected, configured, asked

timeVars == <<phase, now, offset, tof, gain, at, stamps, range>>
rangingVars == <<devices, expected, counter, known, failed, slot, ranges, tx, sent, got, calm>>
radioVars == <<sysctrl, sysstatus, mode, pc, job, isr, radio, rxAfter, status, pending, owed, late>>
configVars == <<lib, chip, selected, configured, asked>>
allVars == <<part, timeVars, rangingVars, table, radioVars, configVars>>

Pair == INSTANCE Dw1000Ranging WITH range <- ranges

Table == INSTANCE DeviceTable WITH devices <- table

Radio == INSTANCE Dw1000Radio WITH chip <- radio

(* A configuration begins with the defaults.                               *)
Config == INSTANCE Dw1000Config WITH AlwaysDefaults <- TRUE, phase <- configured

ASSUME PartAssumptions ==
  /\ Pair!Dw1000RangingAssumption
  /\ Table!NetworkDevicesAssumption /\ Config!Dw1000ConfigAssumption

MCInit ==
  /\ part \in Parts
  /\ Init /\ Pair!Init /\ Table!Init /\ Radio!Init /\ Config!Init
  /\ part = "time" \/ (tof = 0 /\ offset = [d \in Devices |-> 0] /\ gain = CHOOSE g \in Gains : TRUE)

PairNext == part = "pair" /\ Pair!Next
TableNext == part = "table" /\ Table!Next
RadioNext == part = "radio" /\ Radio!Next
ConfigNext == part = "config" /\ Config!Next

MCNext ==
  /\ UNCHANGED part
  /\ \/ part = "time" /\ Next /\ UNCHANGED <<rangingVars, table, radioVars, configVars>>
     \/ PairNext /\ UNCHANGED <<timeVars, table, radioVars, configVars>>
     \/ TableNext /\ UNCHANGED <<timeVars, rangingVars, radioVars, configVars>>
     \/ RadioNext /\ UNCHANGED <<timeVars, rangingVars, table, configVars>>
     \/ ConfigNext /\ UNCHANGED <<timeVars, rangingVars, table, radioVars>>

(* The fairness of each part's own specification.                          *)
PairFairness ==
  /\ WF_rangingVars(part = "pair" /\ Pair!Tick)
  /\ WF_rangingVars(part = "pair" /\ Pair!TagSent)
  /\ WF_rangingVars(part = "pair" /\ Pair!TagReceived)
  /\ \A n \in Pair!Module : WF_rangingVars(part = "pair" /\ Pair!Air(n))
  /\ \A a \in Anchors : /\ WF_rangingVars(part = "pair" /\ Pair!AnchorSent(a))
                         /\ WF_rangingVars(part = "pair" /\ Pair!AnchorReceived(a))
                         /\ WF_rangingVars(part = "pair" /\ Pair!AnchorCheck(a))

MCSpec ==
  /\ MCInit /\ [][MCNext]_allVars
  /\ PairFairness
  /\ WF_table(part = "table" /\ Table!Check)

-----------------------------------------------------------------------------
(* Properties of the parts; those of Dw1000Time are taken as they are.     *)

(* Whatever is lost or restarts, the answers to a poll are never due at    *)
(* the same moment, a range with the last device of the table is computed  *)
(* from the times of one exchange, and so is every range where there is    *)
(* one anchor.                                                             *)
PairRanges ==
  /\ [](Pair!TypeOK /\ Pair!AnswersApart)
  /\ [](Cardinality(Anchors) = 1 => Pair!OneExchange)
  /\ Pair!LastIsRight

(* The table, though the loop that removes devices passes over the one     *)
(* behind each: every device carries the index of its place and is there   *)
(* once, and a check keeps every device that is not silent, in its order.  *)
TableKept == [](Table!TypeOK /\ Table!TableSound) /\ Table!KeepsActive

(* A device that stays silent leaves the table in the end, though a check  *)
(* may pass over it.                                                       *)
SilentLeave == part = "table" => Table!SilentGo

(* A handler that preempts the main loop between any two of its accesses   *)
(* reports all that was sent or received until it read the status.  What   *)
(* comes between that read and clearAllStatus is lost, and nothing else    *)
(* is, nor does anything but a frame received then leave the radio deaf.   *)
RadioTellsAll == Radio!TypeOK /\ Radio!NothingLost /\ Radio!DeafIfLate

(* A chip at work is tuned for what its registers say, by no register that *)
(* was written from an array no branch has filled; its delimiter and its   *)
(* flag for 110 kb/s belong to its rate, and it has the antenna delay that *)
(* was asked for, also after a reset.                                      *)
ChipAsSet ==
  /\ Config!TypeOK
  /\ Config!TunedAsSet
  /\ Config!SfdAgrees
  /\ Config!WholeTune
  /\ Config!AntennaKept
=============================================================================
