---------------------------- MODULE Dw1000Config ----------------------------
(***************************************************************************)
(* The configuration of DW1000 chips by DW1000Class: settings in the       *)
(* variables of the class, images of registers in memory, and the          *)
(* registers of the chip, which take the images at commitConfiguration and *)
(* some of them before. The library is one class for all chips.            *)
(* Left out: addresses, the event mask and frame filters, which go the     *)
(* way of the other images, and the registers that are written alike for   *)
(* every setting.                                                          *)
(***************************************************************************)
EXTENDS Integers

CONSTANTS
  Chips,          \* the chips, by their select lines
  Channels,       \* the channels a program chooses from
  Delays,         \* the antenna delays a program sets
  AlwaysDefaults  \* a configuration begins with setDefaults

DelayValues == 0 .. 65535  \* of an antenna, in two octets

Dw1000ConfigAssumption ==
  Channels \subseteq {1, 2, 3, 4, 5, 7} /\ Delays \subseteq DelayValues

VARIABLES
  lib,       \* settings and images: the members of the class
  chip,      \* the registers of each chip
  selected,  \* _ss
  phase,     \* of each chip: "off", "reset", "new", "defaults", "ready"
  asked      \* what setAntennaDelay was last given, for the properties

vars == <<lib, chip, selected, phase, asked>>

-----------------------------------------------------------------------------
(* The values that tune writes to the registers that depend on channel,    *)
(* pulse repetition frequency (MHz), data rate (kb/s), preamble length and *)
(* code, one table for each register. A register for which no branch has a *)
(* value is written from an uninitialised array.                           *)
Unset == -1

-----------------------------------------------------------------------------
(* By pulse repetition frequency.                                          *)
AgcTune1(prf) == CASE prf = 16 -> \h8870 [] prf = 64 -> \h889B [] OTHER -> Unset
DrxTune1a(prf) == CASE prf = 16 -> \h0087 [] prf = 64 -> \h008D [] OTHER -> Unset
LdeCfg2(prf) == CASE prf = 16 -> \h1607 [] prf = 64 -> \h0607 [] OTHER -> Unset

(* By data rate.                                                           *)
DrxTune0b(rate) ==
  CASE rate = 110 -> \h0016 [] rate = 850 -> \h0006 [] rate = 6800 -> \h0001 [] OTHER -> Unset

(* By preamble length and data rate.                                       *)
DrxTune1b(len, rate) ==
  CASE len \in {1536, 2048, 4096} /\ rate = 110 -> \h0064
    [] len \notin {64, 1536, 2048, 4096} /\ rate \in {850, 6800} -> \h0020
    [] len = 64 /\ rate = 6800 -> \h0010
    [] OTHER -> Unset
DrxTune4H(len) == IF len = 64 THEN \h0010 ELSE \h0028

(* By acquisition chunk and pulse repetition frequency.                    *)
DrxTune2(pac, prf) ==
  CASE pac =  8 /\ prf = 16 -> \h311A002D [] pac =  8 /\ prf = 64 -> \h313B006B
    [] pac = 16 /\ prf = 16 -> \h331A0052 [] pac = 16 /\ prf = 64 -> \h333B00BE
    [] pac = 32 /\ prf = 16 -> \h351A009A [] pac = 32 /\ prf = 64 -> \h353B015E
    [] pac = 64 /\ prf = 16 -> \h371A011D [] pac = 64 /\ prf = 64 -> \h373B0296
    [] OTHER -> Unset

(* By channel.                                                             *)
RfRxCtrlH(ch) == IF ch \in {4, 7} THEN \hBC ELSE \hD8
RfTxCtrl(ch) ==
  CASE ch = 1 -> \h5C40  [] ch = 2 -> \h45CA0  [] ch = 3 -> \h86CC0
    [] ch = 4 -> \h45C80 [] ch = 5 -> \h1E3FE0 [] ch = 7 -> \h1E7DE0 [] OTHER -> Unset
PgDelay(ch) ==
  CASE ch = 1 -> \hC9 [] ch = 2 -> \hC2 [] ch = 3 -> \hC5
    [] ch = 4 -> \h95 [] ch = 5 -> \hC0 [] ch = 7 -> \h93 [] OTHER -> Unset
PllCfg(ch) ==
  CASE ch = 1 -> \h09000407 [] ch \in {2, 4} -> \h08400508
    [] ch = 3 -> \h08401009 [] ch \in {5, 7} -> \h0800041D [] OTHER -> Unset
PllTune(ch) ==
  CASE ch = 1 -> \h1E [] ch \in {2, 4} -> \h26
    [] ch = 3 -> \h56 [] ch \in {5, 7} -> \hBE [] OTHER -> Unset

(* By preamble code; at 110 kb/s an eighth of it.                          *)
Replica(code) ==
  CASE code \in {1, 2} -> \h5998   [] code \in {3, 8} -> \h51EA [] code = 4 -> \h428E
    [] code = 5 -> \h451E          [] code = 6 -> \h2E14        [] code = 7 -> \h8000
    [] code = 9 -> \h28F4          [] code \in {10, 17} -> \h3332
    [] code = 11 -> \h3AE0         [] code = 12 -> \h3D70
    [] code \in {18, 19} -> \h35C2 [] code = 20 -> \h47AE       [] OTHER -> Unset
LdeRepc(code, rate) ==
  IF rate = 110 /\ Replica(code) # Unset THEN Replica(code) \div 8 ELSE Replica(code)

(* By channel and pulse repetition frequency: the bytes with smart power,  *)
(* the highest first, and the byte that is repeated without.               *)
Power(ch, prf) ==
  CASE ch \in {1, 2} /\ prf = 16 -> <<\h15, \h35, \h55, \h75, \h75>>
    [] ch \in {1, 2} /\ prf = 64 -> <<\h07, \h27, \h47, \h67, \h67>>
    [] ch = 3 /\ prf = 16 -> <<\h0F, \h2F, \h4F, \h6F, \h6F>>
    [] ch = 3 /\ prf = 64 -> <<\h2B, \h4B, \h6B, \h8B, \h8B>>
    [] ch = 4 /\ prf = 16 -> <<\h1F, \h1F, \h3F, \h5F, \h5F>>
    [] ch = 4 /\ prf = 64 -> <<\h3A, \h5A, \h7A, \h9A, \h9A>>
    [] ch = 5 /\ prf = 16 -> <<\h0E, \h08, \h28, \h48, \h48>>
    [] ch = 5 /\ prf = 64 -> <<\h25, \h45, \h65, \h85, \h85>>
    [] ch = 7 /\ prf = 16 -> <<\h32, \h52, \h72, \h92, \h92>>
    [] ch = 7 /\ prf = 64 -> <<\h51, \h71, \hB1, \hD1, \hD1>>
    [] OTHER -> <<>>
TxPower(ch, prf, smart) ==
  LET p == Power(ch, prf)
  IN  IF p = <<>> THEN <<Unset>>
      ELSE IF smart THEN <<p[1], p[2], p[3], p[4]>> ELSE <<p[5], p[5], p[5], p[5]>>

-----------------------------------------------------------------------------
(* tune, of the settings it reads.                                         *)
Tune(c) ==
  [agc1 |-> AgcTune1(c.prf), drx0b |-> DrxTune0b(c.rate), drx1a |-> DrxTune1a(c.prf),
   drx1b |-> DrxTune1b(c.prealen, c.rate), drx2 |-> DrxTune2(c.pac, c.prf),
   drx4H |-> DrxTune4H(c.prealen), lde2 |-> LdeCfg2(c.prf), repc |-> LdeRepc(c.code, c.rate),
   rxctrl |-> RfRxCtrlH(c.channel), txctrl |-> RfTxCtrl(c.channel),
   plltune |-> PllTune(c.channel), pllcfg |-> PllCfg(c.channel),
   pgdelay |-> PgDelay(c.channel), power |-> TxPower(c.channel, c.prf, c.smart)]

None == -1
Untuned == [power |-> <<Unset>>]

(* The MODE_ constants.                                                    *)
Mode == {[rate |-> 110, prf |-> 16, prealen |-> 2048], [rate |-> 6800, prf |-> 16, prealen |-> 128],
         [rate |-> 6800, prf |-> 16, prealen |-> 1024], [rate |-> 6800, prf |-> 64, prealen |-> 128],
         [rate |-> 6800, prf |-> 64, prealen |-> 1024], [rate |-> 110, prf |-> 64, prealen |-> 2048]}
LongdataRangeLowpower == [rate |-> 110, prf |-> 16, prealen |-> 2048]

(* The start-of-frame delimiter in CHAN_CTRL: DWSFD, and TNSSFD and RNSSFD.*)
Sfd(rate) == [dw |-> rate # 6800, ns |-> rate = 850]
SfdLength(rate) == IF rate = 6800 THEN 8 ELSE IF rate = 850 THEN 16 ELSE 64

(* The registers after a reset, which does not touch the class.            *)
ResetRegisters ==
  [disStxp |-> FALSE, rxm110k |-> FALSE, rate |-> 6800, prf |-> 16, prealen |-> 128,
   channel |-> 5, code |-> 4, rxprf |-> 16, sfd |-> Sfd(6800), sfdlen |-> 8,
   antd |-> 0, tune |-> Untuned]

InitialLib ==
  [rate |-> 6800, prf |-> 16, prealen |-> 128, pac |-> 8, channel |-> 5, code |-> 4,
   smart |-> FALSE, antd |-> 0, calibrated |-> FALSE, mode |-> "IDLE", permanent |-> FALSE,
   syscfg |-> [disStxp |-> FALSE, rxm110k |-> FALSE],
   txfctrl |-> [rate |-> 110, prf |-> None, prealen |-> None],
   chanctrl |-> [channel |-> 0, code |-> 0, rxprf |-> None, sfd |-> Sfd(6800)]]

Init ==
  /\ lib = InitialLib
  /\ chip = [c \in Chips |-> ResetRegisters]
  /\ selected \in Chips
  /\ phase = [c \in Chips |-> "off"]
  /\ asked = None

-----------------------------------------------------------------------------
(* The setters, each a function of the members of the class.               *)

SetDataRate(l, rate) ==
  [l EXCEPT !.rate = rate, !.txfctrl.rate = rate, !.syscfg.rxm110k = rate = 110,
            !.chanctrl.sfd = Sfd(rate)]

(* Mutant: the image of CHAN_CTRL keeps the frequency it had.              *)
SetPulseFrequency_TxOnly(l, freq) == [l EXCEPT !.prf = freq, !.txfctrl.prf = freq]

SetPulseFrequency(l, freq) ==
  [l EXCEPT !.prf = freq, !.txfctrl.prf = freq, !.chanctrl.rxprf = freq]

Pac(prealen) ==
  CASE prealen \in {64, 128} -> 8
    [] prealen \in {256, 512} -> 16
    [] prealen = 1024 -> 32
    [] OTHER -> 64

SetPreambleLength(l, prealen) ==
  [l EXCEPT !.prealen = prealen, !.pac = Pac(prealen), !.txfctrl.prealen = prealen]

SetPreambleCode(l, code) == [l EXCEPT !.code = code, !.chanctrl.code = code]

CodeFor(channel, prf) ==
  CASE channel = 1 -> IF prf = 16 THEN 2 ELSE 10
    [] channel = 3 -> IF prf = 16 THEN 6 ELSE 10
    [] channel \in {4, 7} -> IF prf = 16 THEN 8 ELSE 18
    [] OTHER -> IF prf = 16 THEN 4 ELSE 10

SetChannel(l, channel) ==
  SetPreambleCode([l EXCEPT !.channel = channel, !.chanctrl.channel = channel],
                  CodeFor(channel, l.prf))

UseSmartPower(l, smart) == [l EXCEPT !.smart = smart, !.syscfg.disStxp = ~smart]

EnableMode(l, m) ==
  SetPreambleLength(SetPulseFrequency(SetDataRate(l, m.rate), m.prf), m.prealen)

SetDefaults(l) ==
  IF l.mode # "IDLE" THEN l
  ELSE LET set == SetChannel(EnableMode(UseSmartPower(l, FALSE), LongdataRangeLowpower), 5)
       IN  SetPreambleCode(set, IF set.prf = 16 THEN 4 ELSE 10)

(* What setDataRate writes at once to the chip that is selected.           *)
WithSfdLength(c, l) == [c EXCEPT !.sfdlen = SfdLength(l.rate)]

-----------------------------------------------------------------------------
(* What a program does.                                                    *)

InPhase(ps) == phase[selected] \in ps
Goes(p) == phase' = [phase EXCEPT ![selected] = p]

(* select: the chip is reset; SYS_CFG is written from a cleared image.     *)
Select(c) ==
  /\ selected' = c
  /\ chip' = [chip EXCEPT ![c] = ResetRegisters]
  /\ lib' = [lib EXCEPT !.mode = "IDLE", !.syscfg = [disStxp |-> FALSE, rxm110k |-> FALSE]]
  /\ phase' = [phase EXCEPT ![c] = "reset"]
  /\ UNCHANGED asked

Reselect(c) ==
  /\ c # selected /\ phase[c] = "ready"
  /\ selected' = c
  /\ UNCHANGED <<lib, chip, phase, asked>>

(* newConfiguration: idle, and the images are read from the chip.          *)
NewConfiguration ==
  /\ InPhase({"reset", "ready"})
  /\ LET c == chip[selected]
     IN  lib' = [lib EXCEPT !.mode = "IDLE",
                   !.syscfg = [disStxp |-> c.disStxp, rxm110k |-> c.rxm110k],
                   !.txfctrl = [rate |-> c.rate, prf |-> c.prf, prealen |-> c.prealen],
                   !.chanctrl = [channel |-> c.channel, code |-> c.code, rxprf |-> c.rxprf,
                                 sfd |-> c.sfd]]
  /\ Goes("new")
  /\ UNCHANGED <<chip, selected, asked>>

Defaults ==
  /\ InPhase({"new"})
  /\ lib' = SetDefaults(lib)
  /\ chip' = [chip EXCEPT ![selected] = WithSfdLength(@, lib')]
  /\ Goes("defaults")
  /\ UNCHANGED <<selected, asked>>

Configuring == IF AlwaysDefaults THEN {"defaults"} ELSE {"new", "defaults"}

ChooseMode(m) ==
  /\ InPhase(Configuring)
  /\ lib' = EnableMode(lib, m)
  /\ chip' = [chip EXCEPT ![selected] = WithSfdLength(@, lib')]
  /\ UNCHANGED <<selected, phase, asked>>

ChooseChannel(ch) ==
  /\ InPhase(Configuring)
  /\ lib' = SetChannel(lib, ch)
  /\ UNCHANGED <<chip, selected, phase, asked>>

ChoosePower(smart) ==
  /\ InPhase(Configuring)
  /\ lib' = UseSmartPower(lib, smart)
  /\ UNCHANGED <<chip, selected, phase, asked>>

(* setAntennaDelay writes to the chip at once.                             *)
SetAntennaDelay(d) ==
  /\ phase[selected] # "off"
  /\ lib' = [lib EXCEPT !.antd = d, !.calibrated = TRUE]
  /\ chip' = [chip EXCEPT ![selected].antd = d]
  /\ asked' = d
  /\ UNCHANGED <<selected, phase>>

(* commitConfiguration: the images, the tuning, the antenna delay.         *)
Committed(l) ==
  [disStxp |-> l.syscfg.disStxp, rxm110k |-> l.syscfg.rxm110k,
   rate |-> l.txfctrl.rate, prf |-> l.txfctrl.prf, prealen |-> l.txfctrl.prealen,
   channel |-> l.chanctrl.channel, code |-> l.chanctrl.code, rxprf |-> l.chanctrl.rxprf,
   sfd |-> l.chanctrl.sfd, sfdlen |-> chip[selected].sfdlen, antd |-> l.antd,
   tune |-> Tune(l)]

Calibrated(l) ==
  IF l.antd = 0 /\ ~l.calibrated THEN [l EXCEPT !.antd = 16384, !.calibrated = TRUE] ELSE l

Commit ==
  /\ InPhase(Configuring)
  /\ lib' = Calibrated(lib)
  /\ chip' = [chip EXCEPT ![selected] = Committed(lib')]
  /\ Goes("ready")
  /\ UNCHANGED <<selected, asked>>

(* large_power_init, of generalStart: after a commit, on channel 5.        *)
FlatPower == <<\h1F, \h1F, \h1F, \h1F>>
LargePowerInit ==
  /\ InPhase({"ready"}) /\ lib.channel = 5
  /\ chip' = [chip EXCEPT ![selected].tune.power = FlatPower, ![selected].tune.pgdelay = \hC0]
  /\ UNCHANGED <<lib, selected, phase, asked>>

(* newTransmit, setDefaults and startTransmit, which writes TX_FCTRL; with *)
(* receivePermanently the receiver is then on.                             *)
Transmit ==
  /\ InPhase({"ready"})
  /\ LET set == SetDefaults([lib EXCEPT !.mode = "TX"])
     IN  /\ lib' = [set EXCEPT !.mode = IF set.permanent THEN "RX" ELSE "IDLE"]
         /\ chip' = [chip EXCEPT ![selected] =
                       [@ EXCEPT !.rate = set.txfctrl.rate, !.prf = set.txfctrl.prf,
                                 !.prealen = set.txfctrl.prealen]]
  /\ UNCHANGED <<selected, phase, asked>>

(* receiver: newReceive, setDefaults, receivePermanently and startReceive. *)
Receive ==
  /\ InPhase({"ready"})
  /\ lib' = [SetDefaults([lib EXCEPT !.mode = "RX"]) EXCEPT !.permanent = TRUE]
  /\ chip' = [chip EXCEPT ![selected].disStxp = lib'.syscfg.disStxp,
                          ![selected].rxm110k = lib'.syscfg.rxm110k]
  /\ UNCHANGED <<selected, phase, asked>>

Next ==
  \/ \E c \in Chips : Select(c) \/ Reselect(c)
  \/ NewConfiguration \/ Defaults \/ Commit \/ LargePowerInit \/ Transmit \/ Receive
  \/ \E m \in Mode : ChooseMode(m)
  \/ \E ch \in Channels : ChooseChannel(ch)
  \/ \E smart \in BOOLEAN : ChoosePower(smart)
  \/ \E d \in Delays : SetAntennaDelay(d)

Spec == Init /\ [][Next]_vars

-----------------------------------------------------------------------------
(* Properties. A chip is at work when it is selected and configured.       *)

AtWork == phase[selected] = "ready"
Reg == chip[selected]

(* Every variable keeps its type.                                          *)
TypeOK ==
  /\ lib.rate \in {110, 850, 6800} /\ lib.prf \in {16, 64} /\ lib.pac \in {8, 16, 32, 64}
  /\ lib.mode \in {"IDLE", "RX", "TX"} /\ lib.antd \in Delays \cup {0, 16384}
  /\ selected \in Chips /\ asked \in Delays \cup {None}
  /\ phase \in [Chips -> {"off", "reset", "new", "defaults", "ready"}]

(* Through resets, reconfigurations and frames, a chip at work is tuned    *)
(* for what its registers say: its rate, frequencies, preamble, channel,   *)
(* code, and power unless that was raised since.                           *)
Says(c) ==
  [rate |-> c.rate, prf |-> c.prf, prealen |-> c.prealen, pac |-> Pac(c.prealen),
   channel |-> c.channel, code |-> c.code, smart |-> ~c.disStxp]
TunedAsSet ==
  AtWork => LET tune == Tune(Says(Reg))
            IN  Reg.rxprf = Reg.prf /\ Reg.tune \in {tune, [tune EXCEPT !.power = FlatPower]}

(* The delimiter of a chip at work, its length, which is written at once,  *)
(* and the flag for 110 kb/s belong to its rate.                           *)
SfdAgrees ==
  AtWork => /\ Reg.sfd = Sfd(Reg.rate) /\ Reg.sfdlen = SfdLength(Reg.rate)
            /\ Reg.rxm110k = (Reg.rate = 110)

(* Of the modes that are offered, on every channel, no tuning register is  *)
(* written from an array that no branch has filled.                        *)
WholeTune ==
  AtWork => /\ Unset \notin {Reg.tune[r] : r \in DOMAIN Reg.tune \ {"power"}}
            /\ Reg.tune.power # <<Unset>>

(* A chip at work has the antenna delay that was asked for, zero too, also *)
(* after a reset has taken it from the chip.                               *)
AntennaKept == AtWork /\ asked # None => Reg.antd = asked

(* A chip at work is tuned for its channel.                                *)
ChannelTuned == AtWork => Reg.tune.txctrl = RfTxCtrl(Reg.channel)

(* The preamble code of a chip at work is one for its pulse repetition     *)
(* frequency.                                                              *)
CodeSuitsPrf == AtWork => (Reg.code <= 8) = (Reg.prf = 16)
=============================================================================
