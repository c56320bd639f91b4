---------------------------- MODULE DriverConfig ----------------------------
(***************************************************************************)
(* Bringing up, configuring, putting to sleep and waking the DW3000:       *)
(* dw3000_device_api.cpp.  The driver keeps a copy (pdw3000local) of what  *)
(* it has told the chip, reads and writes go by that copy, and the chip    *)
(* loses registers in sleep and in a reset that the copy does not lose.    *)
(* One thread calls the driver; the chip's PLL locks when it does.         *)
(***************************************************************************)
EXTENDS Integers

CONSTANTS
  Configs,       \* what dwt_configure is called with: see Config
  MaxRetriesPLL, \* polls of the PLL's lock bit: MAX_RETRIES_FOR_PLL
  MaxCalls,      \* calls of the driver in a behaviour
  Softly         \* whether the host goes on after dwt_softreset by itself,
                 \* and not with dwt_initialise

Config == [chan : {5, 9}, code : 1 .. 31, long : BOOLEAN, sts : {"off", "1", "nd"}]

DriverConfigAssumption ==
  /\ Configs \subseteq Config
  /\ MaxRetriesPLL \in Nat \ {0}
  /\ MaxCalls \in Nat
  /\ Softly \in BOOLEAN

VARIABLES
  otp,      \* what the factory has written: [tuneLo, tuneHi, bias, dgc], nonzero or not
  chip,     \* registers and state of the chip
  aon,      \* what it has saved in its always-on memory
  local,    \* pdw3000local
  pc,       \* "idle", or where dwt_configure is
  cfg,      \* the configuration that dwt_configure was given last
  cnt,      \* polls of the lock bit so far
  result,   \* what dwt_configure returned last, NotYet before
  calls

vars == <<otp, chip, aon, local, pc, cfg, cnt, result, calls>>

DWT_SUCCESS == 0
DWT_ERROR == -1
NotYet == 1   \* dwt_configure has not returned anything

-----------------------------------------------------------------------------
(* The chip.  Of a register file: what of it the driver keeps a copy of,   *)
(* or has to bring back after sleep.                                       *)

(* CHAN_CTRL: the channel's bit, SFD type 1, and the codes, 5 bits each.   *)
ChanCtrl(c) == (IF c.chan = 9 THEN 1 ELSE 0) + 2 + 8 * c.code + 256 * c.code

ResetRegs == [chanCtrl |-> 0, sts |-> "off", dbl |-> FALSE, crc |-> FALSE,
              auto |-> FALSE, dig |-> FALSE]

(* Gain tables: whose, and for which channel.                              *)
NoTable == [from |-> "reset", chan |-> 0]

(* Registers that sleep does not preserve.                                 *)
Volatile == [ops |-> "reset", dgc |-> NoTable, tuned |-> FALSE, indirectB |-> FALSE]

Init ==
  /\ otp \in [tuneLo : BOOLEAN, tuneHi : BOOLEAN, bias : BOOLEAN, dgc : BOOLEAN]
  /\ chip = [state |-> "reset", pll |-> FALSE, lock |-> FALSE, pgf |-> FALSE,
             regs |-> ResetRegs, vol |-> Volatile]
  /\ aon = ResetRegs
  /\ local = [dblbuffon |-> "off", stsconfig |-> "off", spicrc |-> FALSE,
              ops |-> "none", bias_tune |-> FALSE, dgc_otp_set |-> FALSE]
  /\ pc = "idle"
  /\ cfg \in Configs
  /\ cnt = 0
  /\ result = NotYet
  /\ calls = 0

(* With the INIT2IDLE bit set the chip starts its PLL; locked, it is idle. *)
PllLocks ==
  /\ chip.state = "idle_rc" /\ chip.regs.auto
  /\ chip' = [chip EXCEPT !.state = "idle_pll", !.pll = TRUE, !.lock = TRUE]
  /\ UNCHANGED <<otp, aon, local, pc, cfg, cnt, result, calls>>

(* It wakes with what was saved, if it was told to download that.          *)
Wakes ==
  /\ chip.state = "asleep"
  /\ chip' = [state |-> "woken", pll |-> FALSE, lock |-> FALSE, pgf |-> chip.pgf,
              regs |-> IF aon.dig THEN aon ELSE ResetRegs,
              vol |-> Volatile]
  /\ UNCHANGED <<otp, aon, local, pc, cfg, cnt, result, calls>>

-----------------------------------------------------------------------------
Call == pc = "idle" /\ calls < MaxCalls /\ calls' = calls + 1
Quiet == UNCHANGED <<otp, aon, pc, cfg, cnt, result>>
Awake == chip.state \in {"idle_rc", "idle_pll"} \/ (Softly /\ chip.state = "softreset")

(* dwt_initialise, after power-up or a reset, of a device it knows.        *)
Initialise ==
  /\ Call
  /\ chip.state \in {"reset", "softreset"}
  /\ local' = [dblbuffon |-> "off", stsconfig |-> "off", spicrc |-> FALSE,
               ops |-> "none", bias_tune |-> otp.bias, dgc_otp_set |-> otp.dgc]
  /\ chip' = [chip EXCEPT !.state = "idle_rc",
                !.vol.tuned = @ \/ (otp.tuneLo /\ otp.tuneHi /\ otp.bias)]
  /\ Quiet

(* dwt_softreset: clears the AON configuration, and resets the chip.       *)
SoftReset ==
  /\ Call
  /\ chip.state \in {"idle_rc", "idle_pll"}
  /\ chip' = [state |-> "softreset", pll |-> FALSE, lock |-> FALSE, pgf |-> FALSE,
              regs |-> ResetRegs, vol |-> Volatile]
  /\ aon' = ResetRegs
  /\ local' = [local EXCEPT !.dblbuffon = "0", !.ops = "none"]
  /\ result' = NotYet
  /\ UNCHANGED <<otp, pc, cfg, cnt>>

(* dwt_setdwstate(DWT_DW_IDLE_RC): the PLL is off, its lock bit stays set. *)
SetDwState ==
  /\ Call
  /\ chip.state = "idle_pll"
  /\ chip' = [chip EXCEPT !.state = "idle_rc", !.pll = FALSE, !.regs.auto = FALSE]
  /\ Quiet /\ UNCHANGED local

-----------------------------------------------------------------------------
(* dwt_configure.                                                          *)

(* Which table of operating parameters suits the configuration.            *)
OpsOf(c) == IF c.code > 24 THEN "scp" ELSE IF c.long THEN "long" ELSE "short"

(* The bits of sleep_mode that name the table to load on wake-up: none for *)
(* a short one.                                                            *)
SleepOps(c) == IF OpsOf(c) = "short" THEN "none" ELSE OpsOf(c)

(* Up to the start of the PLL, in IDLE_RC.                                 *)
Configure ==
  /\ Call
  /\ chip.state = "idle_rc" /\ ~chip.pll
  /\ \E c \in Configs :
       /\ cfg' = c
       /\ local' = [local EXCEPT !.stsconfig = c.sts, !.ops = SleepOps(c)]
       /\ chip' = [chip EXCEPT !.regs.sts = c.sts, !.regs.chanCtrl = ChanCtrl(c),
                     !.regs.auto = TRUE, !.vol.ops = OpsOf(c), !.lock = FALSE, !.pgf = FALSE]
  /\ pc' = "pll"
  /\ cnt' = 0
  /\ UNCHANGED <<otp, aon, result>>

(* 20 us, and a look at the lock bit; so many times and no more.           *)
PollPll ==
  /\ pc = "pll"
  /\ \/ /\ chip.lock
        /\ pc' = "calibrate" /\ UNCHANGED <<cnt, result>>
     \/ /\ ~chip.lock /\ cnt + 1 < MaxRetriesPLL
        /\ cnt' = cnt + 1 /\ UNCHANGED <<pc, result>>
     \/ /\ ~chip.lock /\ cnt + 1 = MaxRetriesPLL
        /\ result' = DWT_ERROR /\ pc' = "idle" /\ UNCHANGED cnt
  /\ UNCHANGED <<otp, chip, aon, local, cfg, calls>>

(* The gain table for a channel: from OTP, or the driver's own.            *)
DgcFor(c) == [from |-> IF local.dgc_otp_set THEN "otp" ELSE "driver", chan |-> c]

(* The codes of a 64 MHz pulse repetition, which alone use it.             *)
Prf64(code) == code \in 9 .. 24

(* dwt_run_pgfcal: does it end in time, and succeed in I and in Q.         *)
RunPgfCal(done, i, q) == IF done /\ i /\ q THEN DWT_SUCCESS ELSE DWT_ERROR

(* dwt_pgf_cal hands that on in a uint8_t.                                 *)
PgfCal(done, i, q) == RunPgfCal(done, i, q) % 256

Calibrate ==
  /\ pc = "calibrate"
  /\ \E done, i, q \in BOOLEAN :
       /\ result' = PgfCal(done, i, q)
       /\ chip' = [chip EXCEPT !.pgf = done /\ i /\ q,
                     !.vol.dgc = IF Prf64(cfg.code) THEN DgcFor(cfg.chan) ELSE NoTable]
  /\ pc' = "idle"
  /\ UNCHANGED <<otp, aon, local, cfg, cnt, calls>>

-----------------------------------------------------------------------------
(* What else the host may set.                                             *)

ConfigureStsMode ==
  /\ Call /\ Awake
  /\ \E m \in {"off", "1", "nd"} :
       /\ local' = [local EXCEPT !.stsconfig = m]
       /\ chip' = [chip EXCEPT !.regs.sts = m]
  /\ Quiet

EnableSpiCrcCheck ==
  /\ Call /\ Awake
  /\ \E on \in BOOLEAN :
       /\ local' = [local EXCEPT !.spicrc = on]
       /\ chip' = [chip EXCEPT !.regs.crc = on]
  /\ Quiet

(* dwt_setdblrxbuffmode: the first buffer is next, and indirect pointer B  *)
(* is for the second's results.                                            *)
SetDblRxBuffMode ==
  /\ Call /\ Awake
  /\ \E on \in BOOLEAN :
       /\ local' = [local EXCEPT !.dblbuffon = IF on THEN "0" ELSE "off"]
       /\ chip' = [chip EXCEPT !.regs.dbl = on, !.vol.indirectB = @ \/ on]
  /\ Quiet

-----------------------------------------------------------------------------
(* Sleep.                                                                  *)

(* dwt_configuresleep, with DWT_CONFIG in the mode.                        *)
ConfigureSleep ==
  /\ Call /\ chip.state \in {"idle_rc", "idle_pll"}
  /\ chip' = [chip EXCEPT !.regs.dig = TRUE]
  /\ Quiet /\ UNCHANGED local

(* dwt_entersleep, of a device configured for it.                          *)
EnterSleep ==
  /\ Call /\ chip.state \in {"idle_rc", "idle_pll"}
  /\ chip.regs.dig
  /\ result = DWT_SUCCESS
  /\ \E idle_rc \in BOOLEAN :
       LET regs == [chip.regs EXCEPT !.auto = @ /\ ~idle_rc] IN
       /\ aon' = regs
       /\ chip' = [chip EXCEPT !.state = "asleep", !.regs = regs]
  /\ UNCHANGED <<otp, local, pc, cfg, cnt, result>>

(* What dwt_restoreconfig takes for the code: CHAN_CTRL is shifted to the  *)
(* code's place, and then masked as if it had not been.                    *)
CodeAsRead == LET v == chip.regs.chanCtrl \div 8 IN (v % 256) - (v % 8)

(* Mutant: the pointer to the second buffer's results is not restored.     *)
RestoreConfig_NoPointer ==
  /\ Call /\ chip.state = "woken"
  /\ chip' = [chip EXCEPT
       !.state = "idle_rc",
       !.vol.tuned = @ \/ local.bias_tune,
       !.vol.ops = IF local.ops # "none" THEN local.ops ELSE @,
       !.vol.dgc = IF CodeAsRead \in 9 .. 24
                   THEN DgcFor(IF chip.regs.chanCtrl % 2 = 1 THEN 9 ELSE 5) ELSE @]
  /\ Quiet /\ UNCHANGED local

RestoreConfig ==
  /\ Call /\ chip.state = "woken"
  /\ chip' = [chip EXCEPT
       !.state = "idle_rc",
       !.vol.tuned = @ \/ local.bias_tune,
       !.vol.indirectB = TRUE,
       !.vol.ops = IF local.ops # "none" THEN local.ops ELSE @,
       !.vol.dgc = IF CodeAsRead \in 9 .. 24
                   THEN DgcFor(IF chip.regs.chanCtrl % 2 = 1 THEN 9 ELSE 5) ELSE @]
  /\ Quiet /\ UNCHANGED local

-----------------------------------------------------------------------------
Driver ==
  \/ Initialise \/ SoftReset \/ SetDwState \/ Configure \/ PollPll \/ Calibrate
  \/ ConfigureStsMode \/ EnableSpiCrcCheck \/ SetDblRxBuffMode
  \/ ConfigureSleep \/ EnterSleep \/ RestoreConfig

Done == calls = MaxCalls /\ UNCHANGED vars

Next == Driver \/ PllLocks \/ Wakes \/ Done

Spec == Init /\ [][Next]_vars

-----------------------------------------------------------------------------
(* Properties.                                                             *)

(* CHAN_CTRL has 13 bits.                                                  *)
ChanCtrls == 0 .. 8191

(* Every variable keeps its type.                                          *)
TypeOK ==
  /\ otp \in [tuneLo : BOOLEAN, tuneHi : BOOLEAN, bias : BOOLEAN, dgc : BOOLEAN]
  /\ chip.state \in {"reset", "softreset", "idle_rc", "idle_pll", "asleep", "woken"}
  /\ {chip.pll, chip.lock, chip.pgf, chip.vol.tuned, chip.vol.indirectB} \subseteq BOOLEAN
  /\ chip.vol.ops \in {"reset", "long", "scp", "short"}
  /\ chip.vol.dgc \in {NoTable} \cup [from : {"otp", "driver"}, chan : {5, 9}]
  /\ chip.regs.chanCtrl \in ChanCtrls
  /\ local.ops \in {"none", "long", "scp"}
  /\ local.dblbuffon \in {"off", "0", "1"}
  /\ pc \in {"idle", "pll", "calibrate"}
  /\ cfg \in Configs
  /\ cnt \in 0 .. MaxRetriesPLL - 1
  /\ result \in {NotYet, DWT_SUCCESS, DWT_ERROR, 255}
  /\ calls \in 0 .. MaxCalls

InUse == pc = "idle" /\ chip.state \in {"idle_rc", "idle_pll"}

(* The driver's copy agrees with the chip whenever the chip is in use,     *)
(* through reset, configuration, sleep and wake-up: the STS mode by which  *)
(* dwt_isr reads events, the CRC on the SPI, and the buffering by which    *)
(* frames and stamps are read; and with two buffers there is a way to the  *)
(* results of the second.                                                  *)
CopyAgrees ==
  InUse => /\ local.stsconfig = chip.regs.sts
           /\ local.spicrc = chip.regs.crc
           /\ (local.dblbuffon # "off") = chip.regs.dbl
           /\ chip.regs.dbl => chip.vol.indirectB

(* After sleep no other table of operating parameters is in force than the *)
(* configuration's: the one dwt_configure chose, or none loaded.           *)
OpsRestored == InUse /\ result = DWT_SUCCESS => chip.vol.ops \in {OpsOf(cfg), "reset"}

(* dwt_configure succeeds only if the PLL has locked in this very call and *)
(* the receiver's calibration has passed in every part.                    *)
SuccessIsTrue ==
  [][pc # "idle" /\ pc' = "idle" /\ result' = DWT_SUCCESS => chip'.pll /\ chip'.pgf]_vars

(* dwt_configure returns DWT_SUCCESS or DWT_ERROR, as its comment says.    *)
ReturnsAsDocumented == result \in {NotYet, DWT_SUCCESS, DWT_ERROR}

(* dwt_restoreconfig brings back the gain table of a configuration that    *)
(* uses one.                                                               *)
DgcRestored ==
  InUse /\ result = DWT_SUCCESS /\ Prf64(cfg.code) => chip.vol.dgc = DgcFor(cfg.chan)

(* The tuning of regulators and bias that the factory has stored in full   *)
(* is in force whenever the chip is in use, before sleep and after it.     *)
TuningSurvives ==
  InUse /\ otp.tuneLo /\ otp.tuneHi /\ otp.bias => chip.vol.tuned

(* dwt_softreset keeps the flag of double buffering: it makes the first    *)
(* buffer next only in that mode.                                          *)
SoftResetKeepsMode == [][chip'.state = "softreset" /\ chip.state # "softreset"
                           => (local.dblbuffon = "off" => local'.dblbuffon = "off")]_vars
=============================================================================
