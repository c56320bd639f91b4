---------------------------- MODULE Dw1000Radio ----------------------------
(***************************************************************************)
(* The driver of the DW1000 between its two callers: the main program,     *)
(* which starts a transmission or the receiver in several steps, and the   *)
(* interrupt handler, which preempts it between any two and turns the      *)
(* receiver on again.  Both use _sysctrl, _sysstatus and _deviceMode.      *)
(*                                                                         *)
(* A step of either is an access to the chip or to a shared variable.  The *)
(* handler starts at the rising edge of the interrupt line, before main    *)
(* takes another step, and main waits until it has returned.               *)
(***************************************************************************)
VARIABLES
  sysctrl,        \* _sysctrl, the bits of SYS_CTRL
  sysstatus,      \* _sysstatus, the bits of SYS_STATUS that were read
  mode,           \* _deviceMode
  pc,             \* where main is
  job,            \* what main is about: a frame, at once or delayed, or to receive
  isr,            \* where the handler is, "off" when it does not run
  chip,           \* what the chip does
  rxAfter,        \* whether it receives after it has transmitted
  status,         \* SYS_STATUS, of the events that raise the interrupt line
  pending,        \* the line has risen
  owed,           \* events the handler is to tell of, and has not
  late            \* those that came after it had read the status, since main began

mainVars == <<pc, job>>
chipVars == <<chip, rxAfter>>
vars == <<sysctrl, sysstatus, mode, mainVars, isr, chipVars, status, pending, owed, late>>

Event == {"TXFRS", "RXFCG", "RXFCE"}
RxEvent == {"RXFCG", "RXFCE"}
Handled == {"TXFRS", "RXFCG"}

Init ==
  /\ sysctrl = {} /\ sysstatus = {} /\ mode = "IDLE"
  /\ pc = "idle1" /\ job = "receive"
  /\ isr = "off"
  /\ chip = "idle" /\ rxAfter = FALSE
  /\ status = {} /\ pending = FALSE /\ owed = {} /\ late = {}

-----------------------------------------------------------------------------
(* The chip.                                                               *)

(* A write to SYS_CTRL.                                                    *)
WriteSysCtrl(bits) ==
  CASE "TRXOFF" \in bits -> chip' = "idle" /\ rxAfter' = FALSE
    [] "TXSTRT" \in bits /\ "TRXOFF" \notin bits ->
         /\ chip' = IF "TXDLYS" \in bits THEN "waits" ELSE "sends"
         /\ rxAfter' = FALSE
    [] "RXENAB" \in bits /\ "TXSTRT" \notin bits /\ "TRXOFF" \notin bits ->
         IF chip \in {"waits", "sends"} THEN rxAfter' = TRUE /\ UNCHANGED chip
         ELSE chip' = "receives" /\ UNCHANGED rxAfter
    [] OTHER -> UNCHANGED chipVars

(* Writing a one to a bit of SYS_STATUS clears it.                         *)
ClearStatus(bits) == status' = status \ bits

(* An event may come at any time.  Only the read of the status makes the   *)
(* handler aware of it.                                                    *)
Raise(event) ==
  /\ status' = status \union {event}
  /\ pending' = (pending \/ status = {})
  /\ IF isr \in {"off", "read"}
     THEN owed' = owed \union ({event} \intersect Handled) /\ UNCHANGED late
     ELSE late' = late \union {event} /\ UNCHANGED owed
  /\ UNCHANGED <<sysctrl, sysstatus, mode, mainVars, isr>>

Left ==
  /\ chip \in {"waits", "sends"}
  /\ Raise("TXFRS")
  /\ chip' = IF rxAfter THEN "receives" ELSE "idle"
  /\ rxAfter' = FALSE

(* After a good frame the receiver is off.                                 *)
Heard ==
  /\ chip = "receives"
  /\ Raise("RXFCG")
  /\ chip' = "idle"
  /\ UNCHANGED rxAfter

(* After a bad one it turns itself on again, RXAUTR being set.             *)
HeardBadly ==
  /\ chip = "receives"
  /\ Raise("RXFCE")
  /\ UNCHANGED chipVars

-----------------------------------------------------------------------------
(* handleInterrupt, with handlers for sent and received alone.             *)

Isr(from, to) == isr = from /\ isr' = to /\ UNCHANGED <<mainVars, late>>

IsrStarts ==
  /\ pending /\ pending' = FALSE
  /\ Isr("off", "read")
  /\ UNCHANGED <<sysctrl, sysstatus, mode, chipVars, status, owed>>

IsrRead ==
  /\ Isr("read", "sent")
  /\ sysstatus' = status
  /\ UNCHANGED <<sysctrl, mode, chipVars, status, pending, owed>>

(* Mutant: a reception is not looked for after a transmission.             *)
IsrSent_Alone ==
  /\ isr = "sent"
  /\ isr' = IF "TXFRS" \in sysstatus THEN "clear" ELSE "received"
  /\ IF "TXFRS" \in sysstatus
     THEN ClearStatus(sysstatus) /\ owed' = owed \ {"TXFRS"}
     ELSE UNCHANGED <<status, owed>>
  /\ UNCHANGED <<mainVars, sysctrl, sysstatus, mode, chipVars, pending, late>>

(* clearTransmitStatus writes back what else was read.                     *)
IsrSent ==
  /\ Isr("sent", "received")
  /\ IF "TXFRS" \in sysstatus
     THEN ClearStatus(sysstatus) /\ owed' = owed \ {"TXFRS"}
     ELSE UNCHANGED <<status, owed>>
  /\ UNCHANGED <<sysctrl, sysstatus, mode, chipVars, pending>>

(* A failure has no handler of its own, and is found last.                 *)
IsrReceived ==
  /\ isr = "received"
  /\ IF "RXFCG" \in sysstatus
     THEN /\ isr' = "idle1"
          /\ ClearStatus(sysstatus \union RxEvent)
          /\ owed' = owed \ {"RXFCG"}
          /\ sysstatus' = sysstatus \union RxEvent
     ELSE isr' = "clear" /\ UNCHANGED <<status, sysstatus, owed>>
  /\ UNCHANGED <<mainVars, sysctrl, mode, chipVars, pending, late>>

(* newReceive and startReceive, receiving being permanent.                 *)
IsrNewReceive ==
  /\ Isr("idle1", "start")
  /\ WriteSysCtrl({"TRXOFF"})
  /\ sysctrl' = {}
  /\ ClearStatus(sysstatus \union RxEvent)
  /\ sysstatus' = sysstatus \union RxEvent
  /\ mode' = "RX"
  /\ UNCHANGED <<pending, owed>>

IsrStartReceive ==
  /\ Isr("start", "clear")
  /\ sysctrl' = sysctrl \union {"RXENAB"}
  /\ WriteSysCtrl(sysctrl')
  /\ UNCHANGED <<sysstatus, mode, status, pending, owed>>

(* clearAllStatus, and with it what came after the status was read.        *)
IsrClearAll ==
  /\ Isr("clear", "off")
  /\ sysstatus' = Event
  /\ ClearStatus(Event)
  /\ UNCHANGED <<sysctrl, mode, chipVars, pending, owed>>

IsrStep ==
  IsrStarts \/ IsrRead \/ IsrSent \/ IsrReceived \/ IsrNewReceive \/ IsrStartReceive \/ IsrClearAll

-----------------------------------------------------------------------------
(* Main.                                                                   *)

Main(from, to) ==
  /\ isr = "off" /\ ~pending
  /\ pc = from /\ pc' = to
  /\ UNCHANGED <<isr, pending, owed>>

Goes(from, to) == Main(from, to) /\ UNCHANGED late

(* transmit, with or without a delay, or receiver.                         *)
Begin ==
  /\ Main("done", "idle1")
  /\ job' \in {"send", "sendLater", "receive"}
  /\ late' = {}
  /\ UNCHANGED <<sysctrl, sysstatus, mode, chipVars, status>>

(* idle, before and at its write.                                          *)
Idle ==
  /\ Goes("idle1", "idle2")
  /\ sysctrl' = {"TRXOFF"} /\ mode' = "IDLE"
  /\ UNCHANGED <<job, sysstatus, chipVars, status>>

IdleWrite ==
  /\ Goes("idle2", "new")
  /\ WriteSysCtrl(sysctrl)
  /\ UNCHANGED <<job, sysctrl, sysstatus, mode, status>>

(* The rest of newTransmit and newReceive.                                 *)
New ==
  /\ Goes("new", "mode")
  /\ LET bits == IF job = "receive" THEN RxEvent ELSE {"TXFRS"}
     IN  /\ ClearStatus(sysstatus \union bits)
         /\ sysstatus' = sysstatus \union bits
  /\ sysctrl' = {}
  /\ UNCHANGED <<job, mode, chipVars>>

SetMode ==
  /\ Goes("mode", CASE job = "receive" -> "rx2" [] job = "send" -> "start1" [] OTHER -> "delay")
  /\ mode' = IF job = "receive" THEN "RX" ELSE "TX"
  /\ UNCHANGED <<job, sysctrl, sysstatus, chipVars, status>>

SetDelay ==
  /\ Goes("delay", "start1")
  /\ sysctrl' = sysctrl \union (CASE mode = "TX" -> {"TXDLYS"} [] mode = "RX" -> {"RXDLYS"} [] OTHER -> {})
  /\ UNCHANGED <<job, sysstatus, mode, chipVars, status>>

(* startTransmit, its two accesses of _sysctrl and startReceive.           *)
StartTransmit ==
  /\ Goes("start1", "start2")
  /\ sysctrl' = sysctrl \union {"TXSTRT"}
  /\ UNCHANGED <<job, sysstatus, mode, chipVars, status>>

StartTransmitWrite ==
  /\ Goes("start2", "rx1")
  /\ WriteSysCtrl(sysctrl)
  /\ UNCHANGED <<job, sysctrl, sysstatus, mode, status>>

ReceiveAfter ==
  /\ Goes("rx1", "rx2")
  /\ sysctrl' = {} /\ mode' = "RX"
  /\ UNCHANGED <<job, sysstatus, chipVars, status>>

StartReceive ==
  /\ Goes("rx2", "done")
  /\ sysctrl' = sysctrl \union {"RXENAB"}
  /\ WriteSysCtrl(sysctrl')
  /\ UNCHANGED <<job, sysstatus, mode, status>>

MainStep ==
  \/ Begin \/ Idle \/ IdleWrite \/ New \/ SetMode \/ SetDelay
  \/ StartTransmit \/ StartTransmitWrite \/ ReceiveAfter \/ StartReceive

Next == Left \/ Heard \/ HeardBadly \/ IsrStep \/ MainStep

Spec == Init /\ [][Next]_vars

-----------------------------------------------------------------------------
(* Properties.                                                             *)

(* Every variable keeps its type, and the mode is to receive when main has *)
(* done its job.                                                           *)
TypeOK ==
  /\ sysctrl \subseteq {"TRXOFF", "TXSTRT", "TXDLYS", "RXENAB", "RXDLYS"}
  /\ sysstatus \subseteq Event /\ status \subseteq Event
  /\ owed \subseteq Handled /\ late \subseteq Event
  /\ mode \in {"IDLE", "RX", "TX"}
  /\ chip \in {"idle", "waits", "sends", "receives"}
  /\ rxAfter \in BOOLEAN /\ pending \in BOOLEAN
  /\ pc = "done" => mode = "RX"

(* Neither main nor the handler is at work.                                *)
AtRest == pc = "done" /\ isr = "off" /\ ~pending

(* The program is told of every frame that was sent or received before the *)
(* handler read the status, whatever came while it ran.                    *)
NothingLost == AtRest => owed = {}

(* Receiving is permanent: at rest the chip receives, or does as soon as   *)
(* it has transmitted, unless a good frame came after the handler had read *)
(* the status.                                                             *)
DeafIfLate == AtRest => chip = "receives" \/ rxAfter \/ "RXFCG" \in late

(* The same as the comment on clearAllStatus has it, for every frame.      *)
NeverDeaf == AtRest => chip = "receives" \/ rxAfter

(* A frame with a time of its own leaves at that time.                     *)
DelayedIsDelayed == pc = "rx1" /\ job = "sendLater" => chip # "sends"
=============================================================================
