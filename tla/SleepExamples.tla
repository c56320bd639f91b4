--------------------------- MODULE SleepExamples ---------------------------
(***************************************************************************)
(* The two examples that send a blink frame, put the DW3000 to sleep and   *)
(* wake it for the next: ex_01b, which enters sleep by a call and then     *)
(* configures the chip anew, and ex_01c, in which the chip goes to sleep   *)
(* by itself after each transmission and is restored.                      *)
(*                                                                         *)
(* What sleep does to the registers is the matter of DriverConfig.  Here   *)
(* it is who wakes whom: the chip falls asleep only while its interrupt    *)
(* line is low, wakes only by a source it was configured for, and does not *)
(* answer in between.                                                      *)
(***************************************************************************)
EXTENDS Integers

CONSTANT SeqWrap  \* numbers of frames, 256 in the code

SleepAssumption == SeqWrap \in Nat /\ SeqWrap >= 2

VARIABLES example, \* "sleep" for ex_01b, "sleep_auto" for ex_01c
          pc,      \* where the program is
          chip,    \* the chip: its state, events, and registers that matter here
          seq,     \* tx_msg[BLINK_FRAME_SN_IDX]
          air      \* the number of the frame sent last, -1 before the first

vars == <<example, pc, chip, seq, air>>

Auto == example = "sleep_auto"

(* The chip after a reset: it announces SPIRDY on its interrupt line.      *)
Fresh ==
    [state |-> "starting", spirdy |-> FALSE, txfrs |-> FALSE, enabled |-> TRUE,
     auto |-> FALSE, wake |-> {}, slp |-> FALSE, frame |-> -1, config |-> FALSE]

Awake == chip.state = "on"
Irq(c) == c.spirdy /\ c.enabled

Init ==
    /\ example \in {"sleep", "sleep_auto"}
    /\ pc = "select"
    /\ chip = Fresh
    /\ seq = 0 /\ air = -1

(* An access to the registers; a chip that sleeps takes no notice.         *)
Registers(new) == chip' = IF Awake THEN new ELSE chip
Goto(l) == pc' = l
Quiet == UNCHANGED <<example, seq, air>>

----------------------------------------------------------------------------
(* The chip.                                                               *)

Starts ==
    /\ chip.state = "starting"
    /\ chip' = [chip EXCEPT !.state = "on", !.spirdy = TRUE]
    /\ UNCHANGED pc /\ Quiet

Asleep(c) == [c EXCEPT !.state = "asleep", !.frame = -1, !.config = FALSE]

(* A frame has been sent.  In sleep-after-transmission the chip is gone    *)
(* with it, unless its interrupt line is up.                               *)
Transmitted ==
    /\ chip.state = "sending"
    /\ air' = chip.frame
    /\ LET done == [chip EXCEPT !.state = "on", !.txfrs = TRUE] IN
       chip' = IF chip.auto /\ chip.slp /\ ~Irq(chip) THEN Asleep(done) ELSE done
    /\ UNCHANGED <<example, pc, seq>>

----------------------------------------------------------------------------
(* setup.                                                                  *)

(* spiBegin, spiSelect: the chip is reset by its pin, asleep or not.       *)
Select ==
    /\ pc = "select"
    /\ chip' = Fresh
    /\ Goto("check") /\ Quiet

(* Two milliseconds later it is there.                                     *)
Check ==
    /\ pc = "check" /\ Awake
    /\ Goto("configure")
    /\ UNCHANGED chip /\ Quiet

Configure ==
    /\ pc = "configure"
    /\ Registers([chip EXCEPT !.config = TRUE])
    /\ Goto("configuresleep") /\ Quiet

(* ex_01c names the WAKEUP pin only.                                       *)
ConfigureSleep ==
    /\ pc = "configuresleep"
    /\ Registers([chip EXCEPT !.slp = TRUE, !.wake = IF Auto THEN {"wup"} ELSE {"wup", "csn"}])
    /\ Goto(IF Auto THEN "sleepaftertx" ELSE "write") /\ Quiet

SleepAfterTx ==
    /\ pc = "sleepaftertx"
    /\ Registers([chip EXCEPT !.auto = TRUE])
    /\ Goto("quieten") /\ Quiet

(* The interrupt is disabled and the events read before are cleared.       *)
Quieten ==
    /\ pc = "quieten"
    /\ Registers([chip EXCEPT !.enabled = FALSE, !.spirdy = FALSE, !.txfrs = FALSE])
    /\ Goto("write") /\ Quiet

----------------------------------------------------------------------------
(* loop.                                                                   *)

WriteFrame ==
    /\ pc = "write"
    /\ Registers([chip EXCEPT !.frame = seq])
    /\ Goto("start") /\ Quiet

StartTx ==
    /\ pc = "start"
    /\ Registers([chip EXCEPT !.state = "sending"])
    /\ Goto(IF Auto THEN "pause" ELSE "poll") /\ Quiet

(* ex_01b waits for the frame to be sent, and clears the event.            *)
PollSent ==
    /\ pc = "poll" /\ Awake /\ chip.txfrs
    /\ chip' = [chip EXCEPT !.txfrs = FALSE]
    /\ Goto("entersleep") /\ Quiet

EnterSleep ==
    /\ pc = "entersleep"
    /\ Registers(IF chip.slp THEN Asleep(chip) ELSE chip)
    /\ Goto("pause") /\ Quiet

(* A second is longer than any frame.                                      *)
Pause ==
    /\ pc = "pause" /\ chip.state # "sending"
    /\ Goto("wake")
    /\ UNCHANGED chip /\ Quiet

(* The chip select goes down for a while, in an access as in the call that *)
(* wakes.                                                                  *)
ChipSelect == IF chip.state = "asleep" /\ "csn" \in chip.wake
              THEN [chip EXCEPT !.state = "starting"] ELSE chip

WakeUp ==
    /\ pc = "wake"
    /\ chip' = ChipSelect
    /\ Goto("awake?") /\ Quiet

(* dwt_checkidlerc until it is true.  Of a chip that sleeps any value may  *)
(* be read.                                                                *)
CheckAwake ==
    /\ pc \in {"awake?", "again?"}
    /\ \/ Awake /\ chip.spirdy /\ Goto("restore") /\ UNCHANGED chip
       \/ /\ chip.state # "on" /\ chip' = ChipSelect
          /\ pc' \in {IF pc = "again?" THEN "awake?" ELSE "again?", "restore"}
    /\ Quiet

(* ex_01b starts over with the reset, ex_01c calls dwt_restoreconfig.      *)
Restore ==
    /\ pc = "restore"
    /\ IF Auto THEN Registers([chip EXCEPT !.config = TRUE]) /\ Goto("write")
       ELSE UNCHANGED chip /\ Goto("select")
    /\ seq' = (seq + 1) % SeqWrap
    /\ UNCHANGED <<example, air>>

Setup == Select \/ Check \/ Configure \/ ConfigureSleep \/ SleepAfterTx \/ Quieten
Loop == WriteFrame \/ StartTx \/ PollSent \/ EnterSleep \/ Pause \/ WakeUp \/ CheckAwake \/ Restore
Next == Starts \/ Transmitted \/ Setup \/ Loop

Spec == Init /\ [][Next]_vars /\ WF_vars(Starts \/ Transmitted) /\ WF_vars(Setup \/ Loop)

----------------------------------------------------------------------------
(* Properties.                                                             *)

TypeOK ==
    /\ example \in {"sleep", "sleep_auto"}
    /\ pc \in {"select", "check", "configure", "configuresleep", "sleepaftertx", "quieten", "write",
               "start", "poll", "entersleep", "pause", "wake", "awake?", "again?", "restore"}
    /\ chip.state \in {"starting", "on", "sending", "asleep"}
    /\ chip.wake \subseteq {"wup", "csn"}
    /\ seq \in 0 .. SeqWrap - 1 /\ air \in -1 .. SeqWrap - 1

(* No setting or frame is written to a chip that sleeps: it would be lost. *)
WritesHeard ==
    pc \in {"configure", "configuresleep", "sleepaftertx", "quieten", "write", "start", "entersleep"}
      => Awake

(* A frame goes out with the configuration of the radio, which sleep has   *)
(* taken away in between, and with the next number.                        *)
SentConfigured ==
    [][chip.state = "sending" /\ chip'.state # "sending"
         => chip.config /\ air' = (air + 1) % SeqWrap]_vars

(* The chip does sleep: its interrupt line does not keep it awake.         *)
FallsAsleep == chip.state = "sending" ~> chip.state = "asleep"

(* Blinks go on being sent: a chip that sleeps is woken and sends again.   *)
Blinks == chip.state = "asleep" ~> chip.state = "sending"
=============================================================================
