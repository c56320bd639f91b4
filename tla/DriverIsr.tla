------------------------------ MODULE DriverIsr ------------------------------
(***************************************************************************)
(* dwt_isr of the DW3000 driver and the callbacks of a program that turns  *)
(* the receiver on again in each of them, with one receive buffer or two;  *)
(* main transmits and turns the radio off. The handler interrupts main as  *)
(* soon as an event is pending, unless main has masked it, and runs again  *)
(* while one is; the radio goes on between any two accesses of either.     *)
(* Good frames count from one.                                             *)
(***************************************************************************)
EXTENDS Integers

CONSTANTS
  Double,     \* the double receive buffer is enabled
  MainTurnsOff, \* main uses dwt_forcetrxoff
  MaxFrames   \* bound: good frames received, frames sent

ASSUME BoundIsNat == MaxFrames \in Nat

VARIABLES
  radio,    \* "idle", "rx", "tx", or "txrx" for DWT_RESPONSE_EXPECTED
  status,   \* the events pending in SYS_STATUS
  buffer,   \* the frame in each receive buffer
  full,     \* the buffers the host has not freed
  ready,    \* RDB_STATUS: the buffers with a frame that was not looked at
  fills,    \* the buffer the radio receives into
  reads,    \* dblbuffon: the buffer the host reads, 0 also when off
  pc,       \* where the handler is, or "main", or "masked" in main
  fstat,    \* what it has read of the pending events
  info,     \* cbData.datalength: of which frame
  received, sent,     \* frames that ended, for the bounds and the properties
  delivered, reported, \* frames the callbacks have had
  off       \* main has turned the radio off, and not on again

vars == <<radio, status, buffer, full, ready, fills, reads, pc, fstat, info,
          received, sent, delivered, reported, off>>
chip == <<buffer, full, ready, fills>>
host == <<reads, pc, fstat, info>>
counts == <<received, sent, delivered, reported>>

Buffers == {0, 1}
Other(b) == 1 - b

Init ==
  /\ radio = "idle" /\ status = {} /\ off = TRUE
  /\ buffer = [b \in Buffers |-> 0] /\ full = {} /\ ready = {} /\ fills = 0
  /\ reads = 0 /\ pc = "main" /\ fstat = {} /\ info = 0
  /\ received = 0 /\ sent = 0 /\ delivered = 0 /\ reported = 0

-----------------------------------------------------------------------------
(* The radio. With two buffers it goes on to the other one, and has an     *)
(* overrun when that is not free.                                          *)

Hears ==
  /\ radio = "rx" /\ received < MaxFrames
  /\ radio' = "idle"
  /\ IF Double /\ fills \in full
     THEN status' = status \cup {"RXERR"} /\ UNCHANGED <<chip, received>>
     ELSE /\ status' = status \cup {"RXOK"}
          /\ received' = received + 1
          /\ buffer' = [buffer EXCEPT ![fills] = received']
          /\ IF Double THEN /\ full' = full \cup {fills} /\ ready' = ready \cup {fills}
                            /\ fills' = Other(fills)
                       ELSE UNCHANGED <<full, ready, fills>>
  /\ UNCHANGED <<host, sent, delivered, reported, off>>

HearsBadly ==
  /\ radio = "rx"
  /\ radio' = "idle"
  /\ \E e \in {"RXERR", "RXTO"} : status' = status \cup {e}
  /\ UNCHANGED <<chip, host, counts, off>>

HasSent ==
  /\ radio \in {"tx", "txrx"}
  /\ radio' = IF radio = "tx" THEN "idle" ELSE "rx"
  /\ status' = status \cup {"TXOK"}
  /\ sent' = sent + 1
  /\ UNCHANGED <<chip, host, received, delivered, reported, off>>

-----------------------------------------------------------------------------
(* The handler.                                                            *)

Enter ==
  /\ pc = "main" /\ status # {}
  /\ pc' = "tx" /\ fstat' = status
  /\ UNCHANGED <<radio, status, chip, reads, info, counts, off>>

Skip(here, event, next) ==
  /\ pc = here /\ event \notin fstat /\ pc' = next
  /\ UNCHANGED <<radio, status, chip, reads, fstat, info, counts, off>>

TxClear ==
  /\ pc = "tx" /\ "TXOK" \in fstat /\ pc' = "txcb"
  /\ status' = status \ {"TXOK"}
  /\ UNCHANGED <<radio, chip, reads, fstat, info, counts, off>>

(* cbTxDone may send the next frame.                                       *)
TxDone ==
  /\ pc = "txcb" /\ pc' = "rx"
  /\ reported' = reported + 1
  /\ \/ /\ radio = "idle" /\ sent < MaxFrames
        /\ radio' = "tx"
     \/ UNCHANGED radio
  /\ UNCHANGED <<status, chip, reads, fstat, info, received, sent, delivered, off>>

(* The status of the buffer that the host reads, and the frame's length.   *)
RxInfo ==
  /\ pc = "rx" /\ "RXOK" \in fstat /\ pc' = "rxclear"
  /\ info' = buffer[reads]
  /\ ready' = ready \ {reads}
  /\ UNCHANGED <<radio, status, buffer, full, fills, reads, fstat, counts, off>>

(* Mutant: every event is cleared.                                         *)
RxClear_All ==
  /\ pc = "rxclear" /\ pc' = "rxcb"
  /\ status' = {}
  /\ UNCHANGED <<radio, chip, reads, fstat, info, counts, off>>

RxClear ==
  /\ pc = "rxclear" /\ pc' = "rxcb"
  /\ status' = status \ {"RXOK"}
  /\ UNCHANGED <<radio, chip, reads, fstat, info, counts, off>>

(* cbRxOk turns the receiver on, with two buffers before it reads.         *)
RxOn(here, next) ==
  /\ pc = here /\ pc' = next
  /\ radio' = IF radio = "idle" THEN "rx" ELSE radio
  /\ UNCHANGED <<status, chip, reads, fstat, info, counts, off>>
ReadRxData(here, next) ==
  /\ pc = here /\ pc' = next
  /\ delivered' = buffer[reads]
  /\ UNCHANGED <<radio, status, chip, reads, fstat, info, received, sent, reported, off>>
RxCallback ==
  IF Double THEN RxOn("rxcb", "rxcb2") \/ ReadRxData("rxcb2", "free")
  ELSE ReadRxData("rxcb", "rxcb2") \/ RxOn("rxcb2", "free")

(* Mutant: the host stays at its buffer.                                   *)
SignalRxBuffFree_Stay ==
  /\ pc = "free" /\ pc' = "err"
  /\ IF Double THEN full' = full \ {reads} ELSE UNCHANGED full
  /\ UNCHANGED <<radio, status, buffer, ready, fills, reads, fstat, info, counts, off>>

SignalRxBuffFree ==
  /\ pc = "free" /\ pc' = "err"
  /\ IF Double THEN full' = full \ {reads} /\ reads' = Other(reads)
     ELSE UNCHANGED <<full, reads>>
  /\ UNCHANGED <<radio, status, buffer, ready, fills, fstat, info, counts, off>>

(* An error and a timeout are cleared before their callbacks.              *)
BadClear(here, event, next) ==
  /\ pc = here /\ event \in fstat /\ pc' = next
  /\ status' = status \ {event}
  /\ UNCHANGED <<radio, chip, reads, fstat, info, counts, off>>

Isr ==
  \/ Enter
  \/ Skip("tx", "TXOK", "rx") \/ TxClear \/ TxDone
  \/ Skip("rx", "RXOK", "err") \/ RxInfo \/ RxClear \/ RxCallback \/ SignalRxBuffFree
  \/ Skip("err", "RXERR", "to") \/ BadClear("err", "RXERR", "errcb") \/ RxOn("errcb", "to")
  \/ Skip("to", "RXTO", "main") \/ BadClear("to", "RXTO", "tocb") \/ RxOn("tocb", "main")

-----------------------------------------------------------------------------
(* Main, between runs of the handler.                                      *)

StartTx(expects) ==
  /\ pc = "main" /\ status = {} /\ radio = "idle" /\ sent < MaxFrames
  /\ radio' = IF expects THEN "txrx" ELSE "tx"
  /\ off' = FALSE
  /\ UNCHANGED <<status, chip, host, counts>>

RxEnable ==
  /\ pc = "main" /\ status = {} /\ radio = "idle"
  /\ radio' = "rx" /\ off' = FALSE
  /\ UNCHANGED <<status, chip, host, counts>>

(* dwt_forcetrxoff: the interrupt masked, the radio turned off.            *)
Mask ==
  /\ MainTurnsOff /\ pc = "main" /\ status = {}
  /\ pc' = "masked"
  /\ UNCHANGED <<radio, status, chip, reads, fstat, info, counts, off>>
ForceTrxOff ==
  /\ pc = "masked" /\ pc' = "main"
  /\ radio' = "idle" /\ off' = TRUE
  /\ UNCHANGED <<status, chip, reads, fstat, info, counts>>

Radio == Hears \/ HearsBadly \/ HasSent
Main == RxEnable \/ Mask \/ ForceTrxOff \/ \E expects \in BOOLEAN : StartTx(expects)

Next == Radio \/ Isr \/ Main

(* The handler runs while an event is pending, the radio goes on, and main *)
(* does not stay masked.                                                   *)
Spec == Init /\ [][Next]_vars /\ WF_vars(Isr) /\ WF_vars(Radio) /\ WF_vars(ForceTrxOff)

-----------------------------------------------------------------------------
(* Properties.                                                             *)

(* Every variable keeps its type.                                          *)
TypeOK ==
  /\ radio \in {"idle", "rx", "tx", "txrx"} /\ status \subseteq {"TXOK", "RXOK", "RXERR", "RXTO"}
  /\ buffer \in [Buffers -> 0 .. MaxFrames] /\ full \subseteq Buffers /\ ready \subseteq full
  /\ fills \in Buffers /\ reads \in Buffers /\ info \in 0 .. MaxFrames
  /\ received \in 0 .. MaxFrames /\ sent \in 0 .. MaxFrames
  /\ delivered \in 0 .. received /\ reported \in 0 .. sent

(* The callbacks get the good frames one by one, none twice and none left  *)
(* out, each with its own length and its own data, though the radio may    *)
(* receive the next one while a callback reads.                            *)
DeliversEach ==
  [][delivered' # delivered => delivered' = delivered + 1 /\ info = delivered']_vars

(* The host reads the buffer with the oldest frame that was not freed, and *)
(* never has an overrun.                                                   *)
InStep ==
  Double => /\ pc \in {"rxclear", "rxcb", "rxcb2", "free"} => reads \in full
            /\ radio = "rx" => fills \notin full

(* Both together.                                                          *)
HandlesEach == [](TypeOK /\ InStep) /\ DeliversEach

(* Every good frame is delivered, and every frame that was sent reported,  *)
(* in the end.                                                             *)
AllDelivered == (received = MaxFrames) ~> (delivered = MaxFrames)
AllReported == (sent = MaxFrames) ~> (reported = MaxFrames)

(* What ends a reception leads to another, so that a program that only     *)
(* listens is never deaf.                                                  *)
ListensAgain ==
  (status \cap {"RXOK", "RXERR", "RXTO"} # {}) ~> (radio # "idle" \/ off)

(* After dwt_forcetrxoff the radio is off until main starts it.            *)
StaysOff == off => radio = "idle"
=============================================================================
