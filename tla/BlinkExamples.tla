--------------------------- MODULE BlinkExamples ----------------------------
(***************************************************************************)
(* The simplest pair of examples: one sends a blink with a sequence number *)
(* every half second, the other receives whatever comes.  Both poll the    *)
(* status of their chip.  There are strangers on the channel, whose frames *)
(* are shorter or longer than a blink.                                     *)
(*                                                                         *)
(* Of the receiver's buffer a few places are followed: whose frame the     *)
(* octet there is of.                                                      *)
(***************************************************************************)
EXTENDS Integers

CONSTANTS SeqWrap,  \* sequence numbers: 256 in the program
          Places,   \* octets of rx_buffer that are followed
          Lengths   \* lengths of the strangers' frames, with the check sequence

FcsLen == 2
FrameLenMax == 127
BlinkLength == 12

BlinkAssumption ==
    /\ SeqWrap \in Nat /\ SeqWrap > 1
    /\ Places \subseteq 1 .. FrameLenMax
    /\ Lengths \subseteq FcsLen .. FrameLenMax

VARIABLES tx,       \* where the sender is
          txMsg,    \* the sequence number in tx_msg
          txBuffer, \* the one in the chip's buffer
          txfrs,    \* TXFRS of the sender's chip
          air,      \* the frame that is being sent, or Silence
          last,     \* number of the blink that was started last, -1 before
          rx,       \* where the receiver is
          rxStatus, \* RXFCG and the errors of the receiver's chip
          on,       \* its receiver is enabled
          chip,     \* the frame in its buffer
          seen,     \* status_reg
          frameLen, \* frame_len
          buffer    \* rx_buffer

vars == <<tx, txMsg, txBuffer, txfrs, air, last, rx, rxStatus, on, chip, seen, frameLen, buffer>>
sender == <<tx, txMsg, txBuffer, txfrs, last>>
receiver == <<rx, rxStatus, on, chip, seen, frameLen, buffer>>

Blink(n) == [from |-> "blink", n |-> n, len |-> BlinkLength, whole |-> TRUE]
Strange(l) == [from |-> "stranger", n |-> 0, len |-> l, whole |-> TRUE]
Silence == [from |-> "none", n |-> 0, len |-> 0, whole |-> TRUE]
Zero == "zero"
Cleared == [p \in Places |-> Zero]

Init ==
    /\ tx = "setup" /\ txMsg = 0 /\ txBuffer = 0 /\ txfrs = FALSE /\ last = -1
    /\ air = Silence
    /\ rx = "setup" /\ rxStatus = {} /\ on = FALSE /\ chip = Silence
    /\ seen = {} /\ frameLen = 0 /\ buffer = Cleared

----------------------------------------------------------------------------
(* The sender.                                                             *)

(* The chip is reset, initialised and configured, or the program halts.    *)
SetupSender ==
    /\ tx = "setup"
    /\ tx' \in {"write", "halted"}
    /\ UNCHANGED <<txMsg, txBuffer, txfrs, air, last, receiver>>

(* The buffer is written; a frame that is still being sent from it is      *)
(* spoilt.                                                                 *)
WriteData ==
    /\ tx = "write"
    /\ txBuffer' = txMsg
    /\ air' = IF air.from = "blink" THEN [air EXCEPT !.whole = FALSE] ELSE air
    /\ tx' = "start"
    /\ UNCHANGED <<txMsg, txfrs, last, receiver>>

(* The transmission starts; a stranger's frame on air is lost.             *)
StartTx ==
    /\ tx = "start"
    /\ air' = Blink(txBuffer)
    /\ last' = txBuffer
    /\ tx' = "sent"
    /\ UNCHANGED <<txMsg, txBuffer, txfrs, receiver>>

(* The frame has been sent: TXFRS is polled and cleared.                   *)
PollSent ==
    /\ tx = "sent" /\ txfrs
    /\ txfrs' = FALSE
    /\ tx' = "pause"
    /\ UNCHANGED <<txMsg, txBuffer, air, last, receiver>>

Pause ==
    /\ tx = "pause"
    /\ txMsg' = (txMsg + 1) % SeqWrap
    /\ tx' = "write"
    /\ UNCHANGED <<txBuffer, txfrs, air, last, receiver>>

Sender == SetupSender \/ WriteData \/ StartTx \/ PollSent \/ Pause

----------------------------------------------------------------------------
(* The channel and the chips (external).                                   *)

(* A stranger sends when the sender does not.                              *)
Stranger ==
    /\ air = Silence
    /\ tx # "sent"
    /\ \E l \in Lengths : air' = Strange(l)
    /\ UNCHANGED <<sender, receiver>>

(* A frame ends.  An enabled receiver has it, or an error, or has missed   *)
(* it, and is off after the first two.                                     *)
Ends ==
    /\ air # Silence
    /\ air' = Silence
    /\ txfrs' = (txfrs \/ air.from = "blink")
    /\ \/ /\ on
          /\ \/ chip' = air /\ rxStatus' = rxStatus \cup {"RXFCG"}
             \/ rxStatus' = rxStatus \cup {"error"} /\ UNCHANGED chip
          /\ on' = FALSE
       \/ UNCHANGED <<chip, rxStatus, on>>
    /\ UNCHANGED <<tx, txMsg, txBuffer, last, rx, seen, frameLen, buffer>>

----------------------------------------------------------------------------
(* The receiver.                                                           *)

SetupReceiver ==
    /\ rx = "setup"
    /\ rx' \in {"top", "halted"}
    /\ UNCHANGED <<sender, air, rxStatus, on, chip, seen, frameLen, buffer>>

(* The buffer is cleared and the receiver enabled.                         *)
Top ==
    /\ rx = "top"
    /\ buffer' = Cleared
    /\ on' = TRUE
    /\ rx' = "poll"
    /\ UNCHANGED <<sender, air, rxStatus, chip, seen, frameLen>>

Awaited == {"RXFCG", "error"}

PollStatus ==
    /\ rx = "poll"
    /\ seen' = rxStatus
    /\ rx' = IF rxStatus \cap Awaited = {} THEN "poll" ELSE "account"
    /\ UNCHANGED <<sender, air, rxStatus, on, chip, frameLen, buffer>>

(* Mutant: RXFCG is not cleared.                                           *)
Account_Kept ==
    /\ rx = "account"
    /\ IF "RXFCG" \in seen
       THEN /\ frameLen' = chip.len
            /\ buffer' = [p \in Places |-> IF p <= chip.len - FcsLen THEN chip.from ELSE buffer[p]]
            /\ UNCHANGED rxStatus
       ELSE /\ rxStatus' = rxStatus \ {"error"}
            /\ UNCHANGED <<frameLen, buffer>>
    /\ rx' = "top"
    /\ UNCHANGED <<sender, air, on, chip, seen>>

(* A good frame is read without its check sequence if it fits, and its     *)
(* event is cleared; else the errors are.                                  *)
Account ==
    /\ rx = "account"
    /\ IF "RXFCG" \in seen
       THEN /\ frameLen' = chip.len
            /\ buffer' = [p \in Places |-> IF chip.len <= FrameLenMax /\ p <= chip.len - FcsLen
                                           THEN chip.from ELSE buffer[p]]
            /\ rxStatus' = rxStatus \ {"RXFCG"}
       ELSE /\ rxStatus' = rxStatus \ {"error"}
            /\ UNCHANGED <<frameLen, buffer>>
    /\ rx' = "top"
    /\ UNCHANGED <<sender, air, on, chip, seen>>

Receiver == SetupReceiver \/ Top \/ PollStatus \/ Account

Next == Sender \/ Stranger \/ Ends \/ Receiver

(* The programs run and frames end.                                        *)
Spec == Init /\ [][Next]_vars /\ WF_vars(Sender) /\ WF_vars(Receiver) /\ WF_vars(Ends)

----------------------------------------------------------------------------
(* Properties.                                                             *)

Frames == {Silence} \cup {Blink(n) : n \in 0 .. SeqWrap - 1} \cup {Strange(l) : l \in Lengths}

TypeOK ==
    /\ tx \in {"setup", "write", "start", "sent", "pause", "halted"}
    /\ txMsg \in 0 .. SeqWrap - 1 /\ txBuffer \in 0 .. SeqWrap - 1 /\ last \in -1 .. SeqWrap - 1
    /\ txfrs \in BOOLEAN
    /\ [air EXCEPT !.whole = TRUE] \in Frames /\ [chip EXCEPT !.whole = TRUE] \in Frames
    /\ rx \in {"setup", "top", "poll", "account", "halted"}
    /\ rxStatus \subseteq {"RXFCG", "error"} /\ seen \subseteq {"RXFCG", "error"}
    /\ on \in BOOLEAN
    /\ frameLen \in 0 .. FrameLenMax
    /\ buffer \in [Places -> {Zero, "blink", "stranger"}]

(* At the head of the receiver's loop, where its comment suggests a break  *)
(* point, the buffer holds the last frame and nothing of any before, and   *)
(* frame_len its length, if status_reg says that it was good.              *)
BreakPoint ==
    rx = "top" /\ "RXFCG" \in seen =>
        /\ frameLen = chip.len
        /\ buffer = [p \in Places |-> IF p <= chip.len - FcsLen THEN chip.from ELSE Zero]

(* While the receiver is on no event of an earlier frame is there for the  *)
(* loop to take for one of the next.                                       *)
NothingOld == rx = "poll" /\ on => rxStatus = {}

(* No frame is written over while it is sent.                              *)
SentWhole == air.whole /\ chip.whole

(* Blinks are sent with one number after the other.                        *)
Consecutive == [][last' # last => last' = (last + 1) % SeqWrap]_last

(* The receiver comes to the head of its loop for every frame or error.    *)
LoopGoesOn == rxStatus # {} ~> rxStatus = {}
=============================================================================
