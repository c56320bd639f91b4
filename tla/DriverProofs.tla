-------------------------- MODULE DriverProofs -----------------------------
(***************************************************************************)
(* Proofs about the DW3000 driver, part by part.                           *)
(*   dwt_isr and callbacks that turn the receiver on again, with one       *)
(* receive buffer or two: every good frame is delivered once and in order, *)
(* and the two buffers never overrun, for any number of frames.            *)
(*   The driver's copy of the configuration agrees with the chip through   *)
(* reset, configuration, sleep and wake-up.                                *)
(*   By every header the chip carries out the access that was meant, and   *)
(* writes and modifications that overlap leave each octet as their callers *)
(* made it.                                                                *)
(*   Between calls the interrupt mask is what the calls make of it.        *)
(*   The readings of temperature and voltage are of the time of the call.  *)
(***************************************************************************)
EXTENDS Driver, TLAPS

(***************************************************************************)
(* The interrupt handler.                                                  *)
(***************************************************************************)

RxEvents == {"RXOK", "RXERR", "RXTO"}
Receiving == radio \in {"rx", "txrx"}

Types ==
  /\ radio \in {"idle", "rx", "tx", "txrx"} /\ status \subseteq {"TXOK", "RXOK", "RXERR", "RXTO"}
  /\ buffer \in [Buffers -> 0 .. MaxFrames] /\ full \subseteq Buffers /\ ready \subseteq full
  /\ fills \in Buffers /\ reads \in Buffers /\ info \in 0 .. MaxFrames
  /\ received \in 0 .. MaxFrames /\ sent \in 0 .. MaxFrames
  /\ delivered \in Nat /\ reported \in Nat
  /\ pc \in {"main", "masked", "tx", "txcb", "rx", "rxclear", "rxcb", "rxcb2", "free",
             "err", "errcb", "to", "tocb"}

(* The places of the handler at which it has yet to clear an event.        *)
Before(e) ==
  \/ e = "RXOK" /\ pc \in {"tx", "txcb", "rx", "rxclear"}
  \/ e = "RXERR" /\ pc \in {"tx", "txcb", "rx", "err"}
  \/ e = "RXTO" /\ pc \in {"tx", "txcb", "rx", "err", "to"}

(* What ends a reception is alone until it has been cleared and the        *)
(* receiver is on again.                                                   *)
Events ==
  /\ \A e, f \in RxEvents : e \in status /\ f \in status => e = f
  /\ \A e, f \in RxEvents : e \in fstat /\ f \in fstat => e = f
  /\ \A e \in RxEvents : e \in status => ~Receiving
  /\ \A e \in RxEvents : e \in fstat /\ Before(e) => e \in status

(* The callbacks run for an event that was seen and cleared.               *)
Callbacks ==
  /\ pc \in {"rxclear", "rxcb", "rxcb2", "free"} => "RXOK" \in fstat
  /\ pc = "errcb" => "RXERR" \in fstat
  /\ pc = "tocb" => "RXTO" \in fstat
  /\ pc \in {"rxcb", "errcb", "tocb"} \/ (pc = "rxcb2" /\ ~Double) =>
       ~Receiving /\ \A e \in RxEvents : e \notin status

(* The frame of the callback, and the frame that is pending.               *)
Holding == pc \in {"rxcb", "rxcb2", "free"}
Unread == pc = "rxcb" \/ (Double /\ pc = "rxcb2")
Newest == IF Double THEN Other(fills) ELSE 0

TwoBuffers ==
  Double =>
    /\ \A b \in Buffers :
         b \in full <=> (Holding /\ b = reads) \/ ("RXOK" \in status /\ b = Newest)
    /\ (fills = reads) <=> (Holding <=> "RXOK" \in status)
    /\ Holding \/ pc = "rxclear" => reads \notin ready

OneBuffer == ~Double => full = {} /\ fills = 0 /\ reads = 0

(* A frame that was received and not delivered is pending, or in the hands *)
(* of the callback.                                                        *)
Frames ==
  /\ received = delivered + (IF "RXOK" \in status THEN 1 ELSE 0) + (IF Unread THEN 1 ELSE 0)
  /\ "RXOK" \in status => buffer[Newest] = received
  /\ Unread => info = delivered + 1
  /\ pc = "rxclear" \/ Unread => info = buffer[reads]

Sending ==
  /\ radio \in {"tx", "txrx"} => sent < MaxFrames
  /\ "TXOK" \in status \/ pc = "txcb" => radio \notin {"tx", "txrx"} /\ sent = reported + 1
  /\ ~("TXOK" \in status /\ pc = "txcb")
  /\ "TXOK" \notin status /\ pc # "txcb" => sent = reported
  /\ pc = "tx" /\ "TXOK" \in fstat => "TXOK" \in status

IsrInv == Types /\ Events /\ Callbacks /\ TwoBuffers /\ OneBuffer /\ Frames /\ Sending

-----------------------------------------------------------------------------
(* At the start nothing has arrived and the handler is not running.        *)
LEMMA IsrInit == Init => IsrInv
<1> SUFFICES ASSUME Init PROVE IsrInv
  OBVIOUS
<1>1. Types
  BY BoundIsNat DEF Init, Types, Buffers
<1>2. Events /\ Callbacks /\ Sending
  BY DEF Init, Events, Callbacks, Sending, Before, Receiving, RxEvents
<1>3. TwoBuffers /\ OneBuffer /\ Frames
  BY DEF Init, TwoBuffers, OneBuffer, Frames, Holding, Unread, Newest
<1> QED BY <1>1, <1>2, <1>3 DEF IsrInv

(* A good frame ends: the receiver stops and its buffer is full.           *)
LEMMA HearsKeeps ==
  ASSUME IsrInv,
         Hears
  PROVE  IsrInv'
<1> USE BoundIsNat DEF IsrInv, Hears, chip, host, counts, Buffers, Other, RxEvents, Receiving
<1>1. Types'
  <2>1. received + 1 \in 0 .. MaxFrames /\ fills \in {0, 1}
    BY DEF Types
  <2>2. buffer' \in [Buffers -> 0 .. MaxFrames] /\ received' \in 0 .. MaxFrames
    BY <2>1 DEF Types
  <2>3. full' \subseteq Buffers /\ ready' \subseteq full' /\ fills' \in Buffers
    <3>1. \/ UNCHANGED <<full, ready, fills>>
          \/ full' = full \cup {fills} /\ ready' = ready \cup {fills} /\ fills' = 1 - fills
      OBVIOUS
    <3>2. full \subseteq Buffers /\ ready \subseteq full /\ fills \in Buffers
      BY DEF Types
    <3>3. CASE UNCHANGED <<full, ready, fills>>
      BY <3>2, <3>3
    <3>4. CASE full' = full \cup {fills} /\ ready' = ready \cup {fills} /\ fills' = 1 - fills
      <4>1. fills' \in Buffers
        BY <3>2, <3>4
      <4>2. full' \subseteq Buffers /\ ready' \subseteq full'
        BY <3>2, <3>4, Zenon
      <4> QED BY <4>1, <4>2
    <3> QED BY <3>1, <3>3, <3>4
  <2> QED BY <2>2, <2>3 DEF Types
<1>2. Events'
  BY DEF Types, Events, Callbacks, Before
<1>3. Callbacks'
  BY DEF Types, Events, Callbacks, Before
<1>4. TwoBuffers' /\ OneBuffer'
  <2>1. pc' = pc /\ reads' = reads /\ pc # "rxclear" /\ "RXOK" \notin status
        /\ fills \in {0, 1} /\ reads \in {0, 1}
    BY DEF Types, Events, Callbacks, Before
  <2>2. CASE Double
    <3>1. fills \notin full /\ (Holding <=> fills # reads)
      BY <2>1, <2>2 DEF TwoBuffers
    <3>2. /\ status' = status \cup {"RXOK"} /\ full' = full \cup {fills}
          /\ ready' = ready \cup {fills} /\ fills' = 1 - fills
      BY <2>2, <3>1
    <3>3. \A b \in Buffers : b \in full' <=> (Holding /\ b = reads) \/ b = fills
      BY <2>1, <2>2, <3>2 DEF TwoBuffers
    <3>4. Holding' = Holding /\ Newest' = fills
      BY <2>1, <2>2, <3>2 DEF Holding, Newest
    <3>5. (fills' = reads') <=> Holding
      BY <2>1, <3>1, <3>2
    <3> QED BY <2>1, <2>2, <3>1, <3>2, <3>3, <3>4, <3>5 DEF TwoBuffers, OneBuffer
  <2>3. CASE ~Double
    BY <2>3 DEF TwoBuffers, OneBuffer
  <2> QED BY <2>2, <2>3
<1>5. Frames'
  BY DEF Types, Events, Callbacks, Before, TwoBuffers, OneBuffer, Frames, Holding, Newest, Unread
<1>6. Sending'
  BY DEF Types, Events, Sending
<1> QED BY <1>1, <1>2, <1>3, <1>4, <1>5, <1>6

(* A reception ends otherwise.                                             *)
LEMMA HearsBadlyKeeps ==
  ASSUME IsrInv,
         HearsBadly
  PROVE  IsrInv'
<1> USE BoundIsNat DEF IsrInv, HearsBadly, chip, host, counts, Buffers, Other, RxEvents, Receiving
<1>1. Types'
  BY DEF Types, Sending
<1>2. Events'
  BY DEF Types, Events, Callbacks, Before
<1>3. Callbacks'
  BY DEF Types, Events, Callbacks, Before
<1>4. TwoBuffers' /\ OneBuffer'
  BY DEF Types, Events, Callbacks, Before, TwoBuffers, OneBuffer, Holding, Newest
<1>5. Frames'
  BY DEF Types, Events, Callbacks, Before, TwoBuffers, OneBuffer, Frames, Holding, Newest, Unread
<1>6. Sending'
  BY DEF Types, Events, Sending
<1> QED BY <1>1, <1>2, <1>3, <1>4, <1>5, <1>6

(* A frame has been sent.                                                  *)
LEMMA HasSentKeeps ==
  ASSUME IsrInv,
         HasSent
  PROVE  IsrInv'
<1> USE BoundIsNat DEF IsrInv, HasSent, chip, host, counts, Buffers, Other, RxEvents, Receiving
<1>1. Types'
  BY DEF Types, Sending
<1>2. Events'
  BY DEF Types, Events, Callbacks, Before
<1>3. Callbacks'
  BY DEF Types, Events, Callbacks, Before
<1>4. TwoBuffers' /\ OneBuffer'
  BY DEF Types, Events, Callbacks, Before, TwoBuffers, OneBuffer, Holding, Newest
<1>5. Frames'
  BY DEF Types, Events, Callbacks, Before, TwoBuffers, OneBuffer, Frames, Holding, Newest, Unread
<1>6. Sending'
  BY DEF Types, Events, Sending
<1> QED BY <1>1, <1>2, <1>3, <1>4, <1>5, <1>6

(* The handler begins.                                                     *)
LEMMA EnterKeeps ==
  ASSUME IsrInv,
         Enter
  PROVE  IsrInv'
<1> USE BoundIsNat DEF IsrInv, Enter, chip, host, counts, Buffers, Other, RxEvents, Receiving
<1>1. Types'
  BY DEF Types, Sending
<1>2. Events'
  BY DEF Types, Events, Callbacks, Before
<1>3. Callbacks'
  BY DEF Types, Events, Callbacks, Before
<1>4. TwoBuffers' /\ OneBuffer'
  BY DEF Types, Events, Callbacks, Before, TwoBuffers, OneBuffer, Holding, Newest
<1>5. Frames'
  BY DEF Types, Events, Callbacks, Before, TwoBuffers, OneBuffer, Frames, Holding, Newest, Unread
<1>6. Sending'
  BY DEF Types, Events, Sending
<1> QED BY <1>1, <1>2, <1>3, <1>4, <1>5, <1>6

(* The handler passes over what it has not seen.                           *)
LEMMA SkipsKeeps ==
  ASSUME IsrInv,
         Skip("tx", "TXOK", "rx") \/ Skip("rx", "RXOK", "err")
           \/ Skip("err", "RXERR", "to") \/ Skip("to", "RXTO", "main")
  PROVE  IsrInv'
<1> USE BoundIsNat DEF IsrInv, Skip, chip, host, counts, Buffers, Other, RxEvents, Receiving
<1>1. Types'
  BY DEF Types, Sending
<1>2. Events'
  BY DEF Types, Events, Callbacks, Before
<1>3. Callbacks'
  BY DEF Types, Events, Callbacks, Before
<1>4. TwoBuffers' /\ OneBuffer'
  BY DEF Types, Events, Callbacks, Before, TwoBuffers, OneBuffer, Holding, Newest
<1>5. Frames'
  BY DEF Types, Events, Callbacks, Before, TwoBuffers, OneBuffer, Frames, Holding, Newest, Unread
<1>6. Sending'
  BY DEF Types, Events, Sending
<1> QED BY <1>1, <1>2, <1>3, <1>4, <1>5, <1>6

(* A transmission is noted.                                                *)
LEMMA TxClearKeeps ==
  ASSUME IsrInv,
         TxClear
  PROVE  IsrInv'
<1> USE BoundIsNat DEF IsrInv, TxClear, chip, host, counts, Buffers, Other, RxEvents, Receiving
<1>1. Types'
  BY DEF Types, Sending
<1>2. Events'
  BY DEF Types, Events, Callbacks, Before
<1>3. Callbacks'
  BY DEF Types, Events, Callbacks, Before
<1>4. TwoBuffers' /\ OneBuffer'
  BY DEF Types, Events, Callbacks, Before, TwoBuffers, OneBuffer, Holding, Newest
<1>5. Frames'
  BY DEF Types, Events, Callbacks, Before, TwoBuffers, OneBuffer, Frames, Holding, Newest, Unread
<1>6. Sending'
  BY DEF Types, Events, Sending
<1> QED BY <1>1, <1>2, <1>3, <1>4, <1>5, <1>6

(* Its callback sends another frame, or does not.                          *)
LEMMA TxDoneKeeps ==
  ASSUME IsrInv,
         TxDone
  PROVE  IsrInv'
<1> USE BoundIsNat DEF IsrInv, TxDone, chip, host, counts, Buffers, Other, RxEvents, Receiving
<1>1. Types'
  BY DEF Types, Sending
<1>2. Events'
  BY DEF Types, Events, Callbacks, Before
<1>3. Callbacks'
  BY DEF Types, Events, Callbacks, Before
<1>4. TwoBuffers' /\ OneBuffer'
  BY DEF Types, Events, Callbacks, Before, TwoBuffers, OneBuffer, Holding, Newest
<1>5. Frames'
  BY DEF Types, Events, Callbacks, Before, TwoBuffers, OneBuffer, Frames, Holding, Newest, Unread
<1>6. Sending'
  BY DEF Types, Events, Sending
<1> QED BY <1>1, <1>2, <1>3, <1>4, <1>5, <1>6

(* A good frame is looked at.                                              *)
LEMMA RxInfoKeeps ==
  ASSUME IsrInv,
         RxInfo
  PROVE  IsrInv'
<1> USE BoundIsNat DEF IsrInv, RxInfo, chip, host, counts, Buffers, Other, RxEvents, Receiving
<1>1. Types'
  BY DEF Types, Sending
<1>2. Events'
  BY DEF Types, Events, Callbacks, Before
<1>3. Callbacks'
  BY DEF Types, Events, Callbacks, Before
<1>4. TwoBuffers' /\ OneBuffer'
  BY DEF Types, Events, Callbacks, Before, TwoBuffers, OneBuffer, Holding, Newest
<1>5. Frames'
  BY DEF Types, Events, Callbacks, Before, TwoBuffers, OneBuffer, Frames, Holding, Newest, Unread
<1>6. Sending'
  BY DEF Types, Events, Sending
<1> QED BY <1>1, <1>2, <1>3, <1>4, <1>5, <1>6

(* Its event is cleared.                                                   *)
LEMMA RxClearKeeps ==
  ASSUME IsrInv,
         RxClear
  PROVE  IsrInv'
<1> USE BoundIsNat DEF IsrInv, RxClear, chip, host, counts, Buffers, Other, RxEvents, Receiving
<1>1. Types'
  BY DEF Types, Sending
<1>2. Events'
  BY DEF Types, Events, Callbacks, Before
<1>3. Callbacks'
  BY DEF Types, Events, Callbacks, Before
<1>4. TwoBuffers' /\ OneBuffer'
  BY DEF Types, Events, Callbacks, Before, TwoBuffers, OneBuffer, Holding, Newest
<1>5. Frames'
  BY DEF Types, Events, Callbacks, Before, TwoBuffers, OneBuffer, Frames, Holding, Newest, Unread
<1>6. Sending'
  BY DEF Types, Events, Sending
<1> QED BY <1>1, <1>2, <1>3, <1>4, <1>5, <1>6

(* Its callback reads it.                                                  *)
LEMMA RxReadsKeeps ==
  ASSUME IsrInv,
         \/ Double /\ ReadRxData("rxcb2", "free")
         \/ ~Double /\ ReadRxData("rxcb", "rxcb2")
  PROVE  IsrInv'
<1> USE BoundIsNat DEF IsrInv, ReadRxData, chip, host, counts, Buffers, Other, RxEvents, Receiving
<1>1. Types'
  <2>1. delivered' = buffer[reads] /\ buffer[reads] \in Nat
    BY DEF Types
  <2> QED BY <2>1 DEF Types
<1>2. Events'
  BY DEF Types, Events, Callbacks, Before
<1>3. Callbacks'
  BY DEF Types, Events, Callbacks, Before
<1>4. TwoBuffers' /\ OneBuffer'
  BY DEF Types, Events, Callbacks, Before, TwoBuffers, OneBuffer, Holding, Newest
<1>5. Frames'
  BY DEF Types, Events, Callbacks, Before, TwoBuffers, OneBuffer, Frames, Holding, Newest, Unread
<1>6. Sending'
  BY DEF Types, Events, Sending
<1> QED BY <1>1, <1>2, <1>3, <1>4, <1>5, <1>6

(* A callback turns the receiver on.                                       *)
LEMMA RxStartsKeeps ==
  ASSUME IsrInv,
         \/ Double /\ RxOn("rxcb", "rxcb2")
         \/ ~Double /\ RxOn("rxcb2", "free")
         \/ RxOn("errcb", "to") \/ RxOn("tocb", "main")
  PROVE  IsrInv'
<1> USE BoundIsNat DEF IsrInv, RxOn, chip, host, counts, Buffers, Other, RxEvents, Receiving
<1>1. Types'
  BY DEF Types, Sending
<1>2. Events'
  BY DEF Types, Events, Callbacks, Before
<1>3. Callbacks'
  BY DEF Types, Events, Callbacks, Before
<1>4. TwoBuffers' /\ OneBuffer'
  BY DEF Types, Events, Callbacks, Before, TwoBuffers, OneBuffer, Holding, Newest
<1>5. Frames'
  BY DEF Types, Events, Callbacks, Before, TwoBuffers, OneBuffer, Frames, Holding, Newest, Unread
<1>6. Sending'
  BY DEF Types, Events, Sending
<1> QED BY <1>1, <1>2, <1>3, <1>4, <1>5, <1>6

(* The buffer is free again.                                               *)
LEMMA FreeKeeps ==
  ASSUME IsrInv,
         SignalRxBuffFree
  PROVE  IsrInv'
<1> USE BoundIsNat DEF IsrInv, SignalRxBuffFree, chip, host, counts, Buffers, Other, RxEvents, Receiving
<1>1. Types'
  <2>1. CASE Double
    <3>1. ready' \subseteq full' /\ full' \subseteq Buffers
      BY <2>1 DEF Types, TwoBuffers, Holding
    <3> QED BY <2>1, <3>1 DEF Types
  <2>2. CASE ~Double
    BY <2>2 DEF Types
  <2> QED BY <2>1, <2>2
<1>2. Events'
  BY DEF Types, Events, Callbacks, Before
<1>3. Callbacks'
  BY DEF Types, Events, Callbacks, Before
<1>4. TwoBuffers' /\ OneBuffer'
  <2>1. CASE Double
    <3>1. pc = "free" /\ pc' = "err" /\ fills' = fills /\ status' = status /\ full' = full \ {reads}
          /\ reads' = 1 - reads /\ reads \in {0, 1} /\ fills \in {0, 1}
      BY <2>1 DEF Types
    <3>2. \A b \in {0, 1} : b \in full' <=> "RXOK" \in status /\ b = 1 - fills
      BY <2>1, <3>1 DEF TwoBuffers, Holding, Newest
    <3> QED BY <2>1, <3>1, <3>2 DEF TwoBuffers, OneBuffer, Holding, Newest
  <2>2. CASE ~Double
    BY <2>2 DEF Types, TwoBuffers, OneBuffer
  <2> QED BY <2>1, <2>2
<1>5. Frames'
  BY DEF Types, Events, Callbacks, Before, TwoBuffers, OneBuffer, Frames, Holding, Newest, Unread
<1>6. Sending'
  BY DEF Types, Events, Sending
<1> QED BY <1>1, <1>2, <1>3, <1>4, <1>5, <1>6

(* What ended a reception otherwise is cleared.                            *)
LEMMA BadClearKeeps ==
  ASSUME IsrInv,
         BadClear("err", "RXERR", "errcb") \/ BadClear("to", "RXTO", "tocb")
  PROVE  IsrInv'
<1> USE BoundIsNat DEF IsrInv, BadClear, chip, host, counts, Buffers, Other, RxEvents, Receiving
<1>1. Types'
  BY DEF Types, Sending
<1>2. Events'
  BY DEF Types, Events, Callbacks, Before
<1>3. Callbacks'
  BY DEF Types, Events, Callbacks, Before
<1>4. TwoBuffers' /\ OneBuffer'
  BY DEF Types, Events, Callbacks, Before, TwoBuffers, OneBuffer, Holding, Newest
<1>5. Frames'
  BY DEF Types, Events, Callbacks, Before, TwoBuffers, OneBuffer, Frames, Holding, Newest, Unread
<1>6. Sending'
  BY DEF Types, Events, Sending
<1> QED BY <1>1, <1>2, <1>3, <1>4, <1>5, <1>6

(* Main, in between.                                                       *)
LEMMA MainKeeps ==
  ASSUME IsrInv,
         Main
  PROVE  IsrInv'
<1> USE BoundIsNat DEF IsrInv, Main, RxEnable, Mask, ForceTrxOff, StartTx, chip, host, counts, Buffers, Other, RxEvents, Receiving
<1>1. Types'
  BY DEF Types, Sending
<1>2. Events'
  BY DEF Types, Events, Callbacks, Before
<1>3. Callbacks'
  BY DEF Types, Events, Callbacks, Before
<1>4. TwoBuffers' /\ OneBuffer'
  BY DEF Types, Events, Callbacks, Before, TwoBuffers, OneBuffer, Holding, Newest
<1>5. Frames'
  BY DEF Types, Events, Callbacks, Before, TwoBuffers, OneBuffer, Frames, Holding, Newest, Unread
<1>6. Sending'
  BY DEF Types, Events, Sending
<1> QED BY <1>1, <1>2, <1>3, <1>4, <1>5, <1>6

(* Every step of the radio, of the handler and of the main loop keeps it.  *)
LEMMA IsrStep == IsrInv /\ [Next]_vars => IsrInv'
<1> SUFFICES ASSUME IsrInv, [Next]_vars PROVE IsrInv'
  OBVIOUS
<1>1. CASE Radio
  BY <1>1, HearsKeeps, HearsBadlyKeeps, HasSentKeeps DEF Radio
<1>2. CASE Isr
  BY <1>2, EnterKeeps, SkipsKeeps, TxClearKeeps, TxDoneKeeps, RxInfoKeeps, RxClearKeeps,
     RxReadsKeeps, RxStartsKeeps, FreeKeeps, BadClearKeeps DEF Isr, RxCallback
<1>3. CASE Main
  BY <1>3, MainKeeps
<1>4. CASE UNCHANGED vars
  BY <1>4 DEF vars, chip, host, counts, IsrInv, Types, Events, Callbacks, Before, TwoBuffers,
     OneBuffer, Frames, Holding, Newest, Unread, Sending, Receiving
<1> QED BY <1>1, <1>2, <1>3, <1>4 DEF Next

(* So the invariant holds always.                                          *)
LEMMA IsrAlways == Spec => []IsrInv
  BY IsrInit, IsrStep, PTL DEF Spec

-----------------------------------------------------------------------------
(* Types, with every frame delivered or reported received or sent before.  *)
THEOREM IsrTypes == Spec => []TypeOK
<1>1. IsrInv => TypeOK
  BY DEF IsrInv, Types, Frames, Sending, TypeOK
<1> QED BY <1>1, IsrAlways, PTL

(* The host reads a full buffer, and the radio receives into a free one.   *)
THEOREM IsrInStep == Spec => []InStep
<1>1. IsrInv => InStep
  BY DEF IsrInv, Types, Events, Callbacks, Before, TwoBuffers, Holding, Newest, InStep,
     Buffers, Other, RxEvents, Receiving
<1> QED BY <1>1, IsrAlways, PTL

(* The callbacks get every good frame once, in order, with its length.     *)
THEOREM IsrDeliversEach == Spec => DeliversEach
<1>1. IsrInv /\ [Next]_vars =>
        [delivered' # delivered => delivered' = delivered + 1 /\ info = delivered']_vars
  <2> SUFFICES ASSUME IsrInv, Next, delivered' # delivered
               PROVE  delivered' = delivered + 1 /\ info = delivered'
    OBVIOUS
  <2>1. \/ Double /\ ReadRxData("rxcb2", "free")
        \/ ~Double /\ ReadRxData("rxcb", "rxcb2")
    BY DEF Next, Radio, Hears, HearsBadly, HasSent, Isr, Enter, Skip, TxClear, TxDone, RxInfo,
       RxClear, RxCallback, RxOn, SignalRxBuffFree, BadClear, Main, RxEnable, Mask,
       ForceTrxOff, StartTx, counts, chip, host
  <2>2. Unread /\ delivered' = buffer[reads]
    BY <2>1 DEF ReadRxData, Unread
  <2> QED BY <2>2 DEF IsrInv, Frames
<1> QED BY <1>1, IsrAlways, PTL DEF Spec, DeliversEach

(* The handler hands over what comes in, and stays in step with the radio. *)
THEOREM IsrHandlesEach == Spec => HandlesEach
BY IsrTypes, IsrInStep, IsrDeliversEach, PTL DEF HandlesEach

(***************************************************************************)
(* Configuration.                                                          *)
(***************************************************************************)

ChipFields == {"state", "pll", "lock", "pgf", "regs", "vol"}
RegFields == {"chanCtrl", "sts", "dbl", "crc", "auto", "dig"}
VolFields == {"ops", "dgc", "tuned", "indirectB"}
LocalFields == {"dblbuffon", "stsconfig", "spicrc", "ops", "bias_tune", "dgc_otp_set"}

RegsOK(r) ==
  /\ DOMAIN r = RegFields /\ r.chanCtrl \in Setup!ChanCtrls /\ r.sts \in {"off", "1", "nd"}
  /\ r.dbl \in BOOLEAN /\ r.crc \in BOOLEAN /\ r.auto \in BOOLEAN /\ r.dig \in BOOLEAN
VolOK(v) ==
  /\ DOMAIN v = VolFields /\ v.ops \in {"reset", "long", "scp", "short"}
  /\ v.dgc \in {Setup!NoTable} \cup [from : {"otp", "driver"}, chan : {5, 9}]
  /\ v.tuned \in BOOLEAN /\ v.indirectB \in BOOLEAN
LocalOK(l) ==
  /\ DOMAIN l = LocalFields /\ l.dblbuffon \in {"off", "0", "1"} /\ l.stsconfig \in {"off", "1", "nd"}
  /\ l.spicrc \in BOOLEAN /\ l.ops \in {"none", "long", "scp"}
  /\ l.bias_tune \in BOOLEAN /\ l.dgc_otp_set \in BOOLEAN
ChipOK(c) ==
  /\ DOMAIN c = ChipFields
  /\ c.state \in {"reset", "softreset", "idle_rc", "idle_pll", "asleep", "woken"}
  /\ c.pll \in BOOLEAN /\ c.lock \in BOOLEAN /\ c.pgf \in BOOLEAN
  /\ RegsOK(c.regs) /\ VolOK(c.vol)

SetupTypes ==
  /\ otp \in [tuneLo : BOOLEAN, tuneHi : BOOLEAN, bias : BOOLEAN, dgc : BOOLEAN]
  /\ ChipOK(dw3000) /\ LocalOK(local)
  /\ at \in {"idle", "pll", "calibrate"} /\ cfg \in Configs
  /\ cnt \in 0 .. MaxRetriesPLL - 1 /\ result \in {1, 0, -1, 255} /\ calls \in 0 .. MaxCalls

(* The registers that the driver keeps a copy of.                          *)
Agrees(l, r) == l.stsconfig = r.sts /\ l.spicrc = r.crc /\ (l.dblbuffon # "off") = r.dbl

Running(c) == c.state \in {"idle_rc", "idle_pll"}

(* Out of reset the copy is the reset registers', so it agrees as soon as  *)
(* dwt_initialise has been called; asleep, the chip's registers are the    *)
(* saved ones, which it wakes with; whenever it runs, what sleep has taken *)
(* is there again; and the table dwt_configure chose is the one the copy   *)
(* names.                                                                  *)
Fresh ==
  dw3000.state \in {"reset", "softreset"} =>
    /\ at = "idle" /\ result = 1
    /\ dw3000.regs.sts = "off" /\ dw3000.regs.crc = FALSE /\ dw3000.regs.dbl = FALSE
Copied ==
  dw3000.state \notin {"reset", "softreset"} =>
    Agrees(local, dw3000.regs) /\ local.bias_tune = otp.bias
Saved == dw3000.state = "asleep" => aon = dw3000.regs /\ aon.dig
Restored ==
  Running(dw3000) =>
    /\ dw3000.regs.dbl => dw3000.vol.indirectB
    /\ otp.tuneLo /\ otp.tuneHi /\ otp.bias => dw3000.vol.tuned
Chosen ==
  at # "idle" \/ result = 0 =>
    local.ops = Setup!SleepOps(cfg) /\ dw3000.vol.ops \in {Setup!OpsOf(cfg), "reset"}
Locking ==
  /\ at # "idle" => Running(dw3000)
  /\ at = "pll" /\ dw3000.lock => dw3000.pll
  /\ at = "calibrate" => dw3000.pll
SetupInv == SetupTypes /\ Fresh /\ Copied /\ Saved /\ Restored /\ Chosen /\ Locking

(* What follows from the assumptions: the values a configuration gives to  *)
(* CHAN_CTRL and the tables of operating parameters it can call for.       *)
LEMMA SetupFacts ==
  /\ Configs \subseteq Setup!Config /\ MaxRetriesPLL \in Nat \ {0} /\ MaxCalls \in Nat
  /\ \A c \in Configs : /\ c.chan \in {5, 9} /\ c.sts \in {"off", "1", "nd"}
                        /\ Setup!ChanCtrl(c) \in Setup!ChanCtrls
                        /\ Setup!OpsOf(c) \in {"long", "scp", "short"}
                        /\ Setup!SleepOps(c) \in {"none", "long", "scp"}
<1>1. Setup!DriverConfigAssumption
  BY PartAssumptions
<1>2. Configs \subseteq Setup!Config /\ MaxRetriesPLL \in Nat \ {0} /\ MaxCalls \in Nat
  BY <1>1 DEF Setup!DriverConfigAssumption
<1>3. ASSUME NEW c \in Configs
      PROVE  /\ c.chan \in {5, 9} /\ c.sts \in {"off", "1", "nd"}
             /\ Setup!ChanCtrl(c) \in Setup!ChanCtrls
             /\ Setup!OpsOf(c) \in {"long", "scp", "short"}
             /\ Setup!SleepOps(c) \in {"none", "long", "scp"}
  <2>1. c.chan \in {5, 9} /\ c.sts \in {"off", "1", "nd"} /\ c.code \in 1 .. 31
    BY <1>2 DEF Setup!Config
  <2>2. Setup!ChanCtrl(c) \in Setup!ChanCtrls
    <3>1. PICK b \in 0 .. 1, k \in 1 .. 31 : b = (IF c.chan = 9 THEN 1 ELSE 0) /\ k = c.code
      BY <2>1
    <3>2. Setup!ChanCtrl(c) = b + 2 + 8 * k + 256 * k
      BY <3>1 DEF Setup!ChanCtrl
    <3> QED BY <3>2 DEF Setup!ChanCtrls
  <2>3. Setup!OpsOf(c) \in {"long", "scp", "short"}
    BY DEF Setup!OpsOf
  <2> QED BY <2>1, <2>2, <2>3 DEF Setup!SleepOps
<1> QED BY <1>2, <1>3

(* At the start the chip is out of reset and the copy is empty.            *)
LEMMA SetupInit == Setup!Init => SetupInv
<1> SUFFICES ASSUME Setup!Init
             PROVE  SetupInv
  OBVIOUS
<1>1. /\ otp \in [tuneLo : BOOLEAN, tuneHi : BOOLEAN, bias : BOOLEAN, dgc : BOOLEAN]
      /\ at = "idle" /\ cfg \in Configs /\ cnt = 0 /\ result = 1 /\ calls = 0
  BY DEF Setup!Init, Setup!NotYet
<1>2. dw3000 = [state |-> "reset", pll |-> FALSE, lock |-> FALSE, pgf |-> FALSE,
                regs |-> Setup!ResetRegs, vol |-> Setup!Volatile]
  BY DEF Setup!Init
<1>3. /\ DOMAIN dw3000 = ChipFields /\ dw3000.state = "reset" /\ dw3000.pll = FALSE
      /\ dw3000.lock = FALSE /\ dw3000.pgf = FALSE
      /\ dw3000.regs = Setup!ResetRegs /\ dw3000.vol = Setup!Volatile
  BY <1>2 DEF ChipFields
<1>4. /\ RegsOK(Setup!ResetRegs)
      /\ Setup!ResetRegs.sts = "off" /\ Setup!ResetRegs.crc = FALSE /\ Setup!ResetRegs.dbl = FALSE
  BY DEF RegsOK, RegFields, Setup!ResetRegs, Setup!ChanCtrls
<1>5. VolOK(Setup!Volatile)
  BY DEF VolOK, VolFields, Setup!Volatile
<1>6. LocalOK(local)
  BY DEF Setup!Init, LocalOK, LocalFields
<1>7. SetupTypes
  <2>1. ChipOK(dw3000)
    BY <1>3, <1>4, <1>5 DEF ChipOK
  <2>2. cnt \in 0 .. MaxRetriesPLL - 1 /\ calls \in 0 .. MaxCalls
    BY <1>1, SetupFacts
  <2> QED BY <1>1, <1>6, <2>1, <2>2 DEF SetupTypes
<1> QED BY <1>1, <1>3, <1>4, <1>7
        DEF SetupInv, Fresh, Copied, Saved, Restored, Chosen, Locking, Running

(* The PLL locks.                                                          *)
LEMMA LockKeeps ==
  ASSUME SetupInv, Setup!PllLocks
  PROVE  SetupInv'
<1>1. /\ dw3000.state = "idle_rc"
      /\ UNCHANGED <<otp, aon, local, at, cfg, cnt, result, calls>>
  BY DEF Setup!PllLocks
<1>2. PICK c, v : c = dw3000 /\ v = TRUE
  OBVIOUS
<1>3. dw3000' = [c EXCEPT !.state = "idle_pll", !.pll = v, !.lock = v]
  BY <1>2 DEF Setup!PllLocks
<1>4. ChipOK(c)
  BY <1>2 DEF SetupInv, SetupTypes
<1>5. /\ DOMAIN dw3000' = ChipFields /\ dw3000'.state = "idle_pll" /\ dw3000'.pll = v
      /\ dw3000'.lock = v /\ dw3000'.pgf = c.pgf /\ dw3000'.regs = c.regs /\ dw3000'.vol = c.vol
  BY <1>3, <1>4 DEF ChipOK, ChipFields
<1>6. ChipOK(dw3000')
  BY <1>2, <1>4, <1>5 DEF ChipOK
<1>7. SetupTypes'
  BY <1>1, <1>6 DEF SetupInv, SetupTypes
<1>8. Fresh' /\ Saved' /\ Locking'
  BY <1>1, <1>2, <1>5 DEF Fresh, Saved, Locking, Running
<1>9. Copied' /\ Restored' /\ Chosen'
  BY <1>1, <1>2, <1>5 DEF SetupInv, Copied, Restored, Chosen, Running
<1> QED BY <1>7, <1>8, <1>9 DEF SetupInv

(* The chip wakes.                                                         *)
LEMMA WakesKeeps ==
  ASSUME SetupInv, Setup!Wakes
  PROVE  SetupInv'
<1>1. /\ dw3000.state = "asleep"
      /\ UNCHANGED <<otp, aon, local, at, cfg, cnt, result, calls>>
  BY DEF Setup!Wakes
<1>2. aon = dw3000.regs /\ aon.dig
  BY <1>1 DEF SetupInv, Saved
<1>3. dw3000' = [state |-> "woken", pll |-> FALSE, lock |-> FALSE, pgf |-> dw3000.pgf,
                 regs |-> aon, vol |-> Setup!Volatile]
  BY <1>2 DEF Setup!Wakes
<1>4. /\ DOMAIN dw3000' = ChipFields /\ dw3000'.state = "woken" /\ dw3000'.pll = FALSE
      /\ dw3000'.lock = FALSE /\ dw3000'.pgf = dw3000.pgf /\ dw3000'.regs = dw3000.regs
      /\ dw3000'.vol = Setup!Volatile
  BY <1>2, <1>3 DEF ChipFields
<1>5. VolOK(Setup!Volatile) /\ Setup!Volatile.ops = "reset"
  BY DEF VolOK, VolFields, Setup!Volatile
<1>6. ChipOK(dw3000')
  BY <1>4, <1>5 DEF SetupInv, SetupTypes, ChipOK
<1>7. SetupTypes'
  BY <1>1, <1>6 DEF SetupInv, SetupTypes
<1>8. at = "idle"
  BY <1>1 DEF SetupInv, Locking, Running
<1>9. Fresh' /\ Saved' /\ Locking' /\ Restored'
  BY <1>1, <1>4, <1>8 DEF Fresh, Saved, Locking, Restored, Running
<1>10. Copied' /\ Chosen'
  BY <1>1, <1>4, <1>5 DEF SetupInv, Copied, Chosen
<1> QED BY <1>7, <1>9, <1>10 DEF SetupInv

(* dwt_initialise, ...                                                     *)
LEMMA SetupInitialiseKeeps ==
  ASSUME SetupInv, Setup!Initialise
  PROVE  SetupInv'
<1>1. /\ dw3000.state \in {"reset", "softreset"} /\ calls < MaxCalls /\ calls' = calls + 1
      /\ UNCHANGED <<otp, aon, at, cfg, cnt, result>>
  BY DEF Setup!Initialise, Setup!Call, Setup!Quiet
<1>2. local' = [dblbuffon |-> "off", stsconfig |-> "off", spicrc |-> FALSE,
                ops |-> "none", bias_tune |-> otp.bias, dgc_otp_set |-> otp.dgc]
  BY DEF Setup!Initialise
<1>3. /\ LocalOK(local') /\ local'.dblbuffon = "off" /\ local'.stsconfig = "off"
      /\ local'.spicrc = FALSE /\ local'.bias_tune = otp.bias
  BY <1>2 DEF SetupInv, SetupTypes, LocalOK, LocalFields
<1>4. PICK c, v, t : /\ c = dw3000 /\ v = dw3000.vol
                     /\ t = (v.tuned \/ (otp.tuneLo /\ otp.tuneHi /\ otp.bias))
  OBVIOUS
<1>5. dw3000' = [c EXCEPT !.state = "idle_rc", !.vol = [v EXCEPT !.tuned = t]]
  BY <1>4 DEF Setup!Initialise
<1>6. ChipOK(c) /\ VolOK(v)
  BY <1>4 DEF SetupInv, SetupTypes, ChipOK
<1>7. /\ DOMAIN dw3000' = ChipFields /\ dw3000'.state = "idle_rc" /\ dw3000'.pll = c.pll
      /\ dw3000'.lock = c.lock /\ dw3000'.pgf = c.pgf /\ dw3000'.regs = c.regs
      /\ dw3000'.vol = [v EXCEPT !.tuned = t]
  BY <1>5, <1>6 DEF ChipOK, ChipFields
<1>8. t \in BOOLEAN
  BY <1>4
<1>9. VolOK(dw3000'.vol) /\ dw3000'.vol.tuned = t
  BY <1>6, <1>7, <1>8 DEF VolOK, VolFields
<1>10. ChipOK(dw3000')
  BY <1>6, <1>7, <1>9 DEF ChipOK
<1>11. SetupTypes'
  <2>1. calls' \in 0 .. MaxCalls
    BY <1>1, SetupFacts DEF SetupInv, SetupTypes
  <2> QED BY <1>1, <1>3, <1>10, <2>1 DEF SetupInv, SetupTypes
<1>12. /\ at = "idle" /\ result = 1
       /\ c.regs.sts = "off" /\ c.regs.crc = FALSE /\ c.regs.dbl = FALSE
  BY <1>1, <1>4 DEF SetupInv, Fresh
<1>13. Fresh' /\ Saved' /\ Locking' /\ Chosen'
  BY <1>1, <1>7, <1>12 DEF Fresh, Saved, Locking, Chosen, Running
<1>14. Copied'
  BY <1>1, <1>3, <1>7, <1>12 DEF Copied, Agrees
<1>15. Restored'
  BY <1>1, <1>4, <1>7, <1>9, <1>12 DEF Restored, Running
<1> QED BY <1>11, <1>13, <1>14, <1>15 DEF SetupInv

(* A call is one more, and no more than there may be.                      *)
LEMMA Counted ==
  ASSUME SetupInv, Setup!Call
  PROVE  at = "idle" /\ calls' \in 0 .. MaxCalls
BY SetupFacts DEF SetupInv, SetupTypes, Setup!Call

(* ... dwt_softreset, ...                                                  *)
LEMMA SoftResetKeeps ==
  ASSUME SetupInv, Setup!SoftReset
  PROVE  SetupInv'
<1>1. /\ Setup!Call /\ aon' = Setup!ResetRegs /\ result' = 1
      /\ UNCHANGED <<otp, at, cfg, cnt>>
  BY DEF Setup!SoftReset, Setup!NotYet
<1>2. dw3000' = [state |-> "softreset", pll |-> FALSE, lock |-> FALSE, pgf |-> FALSE,
                 regs |-> Setup!ResetRegs, vol |-> Setup!Volatile]
  BY DEF Setup!SoftReset
<1>3. /\ DOMAIN dw3000' = ChipFields /\ dw3000'.state = "softreset" /\ dw3000'.pll = FALSE
      /\ dw3000'.lock = FALSE /\ dw3000'.pgf = FALSE
      /\ dw3000'.regs = Setup!ResetRegs /\ dw3000'.vol = Setup!Volatile
  BY <1>2 DEF ChipFields
<1>4. /\ RegsOK(Setup!ResetRegs)
      /\ Setup!ResetRegs.sts = "off" /\ Setup!ResetRegs.crc = FALSE /\ Setup!ResetRegs.dbl = FALSE
  BY DEF RegsOK, RegFields, Setup!ResetRegs, Setup!ChanCtrls
<1>5. VolOK(Setup!Volatile)
  BY DEF VolOK, VolFields, Setup!Volatile
<1>6. LocalOK(local')
  <2>1. PICK l : l = local
    OBVIOUS
  <2>2. local' = [l EXCEPT !.dblbuffon = "0", !.ops = "none"]
    BY <2>1 DEF Setup!SoftReset
  <2>3. LocalOK(l)
    BY <2>1 DEF SetupInv, SetupTypes
  <2> QED BY <2>2, <2>3 DEF LocalOK, LocalFields
<1>7. at = "idle" /\ calls' \in 0 .. MaxCalls
  BY <1>1, Counted
<1>8. ChipOK(dw3000')
  BY <1>3, <1>4, <1>5 DEF ChipOK
<1>9. SetupTypes'
  BY <1>1, <1>6, <1>7, <1>8 DEF SetupInv, SetupTypes
<1> QED BY <1>1, <1>3, <1>4, <1>7, <1>9
        DEF SetupInv, Fresh, Copied, Saved, Restored, Chosen, Locking, Running

(* ... dwt_setdwstate, ...                                                 *)
LEMMA SetDwStateKeeps ==
  ASSUME SetupInv, Setup!SetDwState
  PROVE  SetupInv'
<1>1. /\ Setup!Call /\ dw3000.state = "idle_pll"
      /\ UNCHANGED <<otp, aon, at, cfg, cnt, result, local>>
  BY DEF Setup!SetDwState, Setup!Quiet
<1>2. at = "idle" /\ calls' \in 0 .. MaxCalls
  BY <1>1, Counted
<1>3. PICK c, r, v : c = dw3000 /\ r = dw3000.regs /\ v = FALSE
  OBVIOUS
<1>4. dw3000' = [c EXCEPT !.state = "idle_rc", !.pll = v, !.regs = [r EXCEPT !.auto = v]]
  BY <1>3 DEF Setup!SetDwState
<1>5. ChipOK(c) /\ RegsOK(r)
  BY <1>3 DEF SetupInv, SetupTypes, ChipOK
<1>6. /\ DOMAIN dw3000' = ChipFields /\ dw3000'.state = "idle_rc" /\ dw3000'.pll = v
      /\ dw3000'.lock = c.lock /\ dw3000'.pgf = c.pgf /\ dw3000'.regs = [r EXCEPT !.auto = v]
      /\ dw3000'.vol = c.vol
  BY <1>4, <1>5 DEF ChipOK, ChipFields
<1>7. /\ RegsOK(dw3000'.regs) /\ dw3000'.regs.sts = r.sts /\ dw3000'.regs.crc = r.crc
      /\ dw3000'.regs.dbl = r.dbl
  <2>1. /\ DOMAIN dw3000'.regs = RegFields /\ dw3000'.regs.auto = v
        /\ dw3000'.regs.sts = r.sts /\ dw3000'.regs.crc = r.crc /\ dw3000'.regs.dbl = r.dbl
        /\ dw3000'.regs.dig = r.dig /\ dw3000'.regs.chanCtrl = r.chanCtrl
    BY <1>5, <1>6 DEF RegsOK, RegFields
  <2>2. v \in BOOLEAN
    BY <1>3
  <2> QED BY <1>5, <2>1, <2>2 DEF RegsOK
<1>8. ChipOK(dw3000')
  BY <1>3, <1>5, <1>6, <1>7 DEF ChipOK
<1>9. SetupTypes'
  BY <1>1, <1>2, <1>8 DEF SetupInv, SetupTypes
<1>10. Fresh' /\ Saved' /\ Locking'
  BY <1>1, <1>2, <1>6 DEF Fresh, Saved, Locking, Running
<1>11. Copied'
  BY <1>1, <1>3, <1>6, <1>7 DEF SetupInv, Copied, Agrees
<1>12. Restored' /\ Chosen'
  BY <1>1, <1>3, <1>6, <1>7 DEF SetupInv, Restored, Chosen, Running
<1> QED BY <1>9, <1>10, <1>11, <1>12 DEF SetupInv

(* ... dwt_configure up to its wait, ...                                   *)
LEMMA ConfigureKeeps ==
  ASSUME SetupInv, Setup!Configure
  PROVE  SetupInv'
<1>1. /\ Setup!Call /\ dw3000.state = "idle_rc" /\ at' = "pll" /\ cnt' = 0
      /\ UNCHANGED <<otp, aon, result>>
  BY DEF Setup!Configure
<1>2. at = "idle" /\ calls' \in 0 .. MaxCalls
  BY <1>1, Counted
<1>3. PICK k \in Configs :
        /\ cfg' = k
        /\ local' = [local EXCEPT !.stsconfig = k.sts, !.ops = Setup!SleepOps(k)]
        /\ dw3000' = [dw3000 EXCEPT !.regs.sts = k.sts, !.regs.chanCtrl = Setup!ChanCtrl(k),
                     !.regs.auto = TRUE, !.vol.ops = Setup!OpsOf(k), !.lock = FALSE, !.pgf = FALSE]
  BY DEF Setup!Configure
<1>4. PICK c, r, v, l, t, f : /\ c = dw3000 /\ r = dw3000.regs /\ v = dw3000.vol /\ l = local
                              /\ t = TRUE /\ f = FALSE
  OBVIOUS
<1>5. PICK sts, ch, ops, sleep :
        sts = k.sts /\ ch = Setup!ChanCtrl(k) /\ ops = Setup!OpsOf(k) /\ sleep = Setup!SleepOps(k)
  OBVIOUS
<1>6. /\ sts \in {"off", "1", "nd"} /\ ch \in Setup!ChanCtrls /\ ops \in {"long", "scp", "short"}
      /\ sleep \in {"none", "long", "scp"}
  BY <1>3, <1>5, SetupFacts
<1>7. local' = [l EXCEPT !.stsconfig = sts, !.ops = sleep]
  BY <1>3, <1>4, <1>5
<1>8. dw3000' = [c EXCEPT !.regs = [r EXCEPT !.sts = sts, !.chanCtrl = ch, !.auto = t],
                          !.vol = [v EXCEPT !.ops = ops], !.lock = f, !.pgf = f]
  BY <1>3, <1>4, <1>5
<1>9. ChipOK(c) /\ RegsOK(r) /\ VolOK(v) /\ LocalOK(l)
  BY <1>4 DEF SetupInv, SetupTypes, ChipOK
<1>10. /\ DOMAIN dw3000' = ChipFields /\ dw3000'.state = c.state /\ dw3000'.pll = c.pll
       /\ dw3000'.lock = f /\ dw3000'.pgf = f
       /\ dw3000'.regs = [r EXCEPT !.sts = sts, !.chanCtrl = ch, !.auto = t]
       /\ dw3000'.vol = [v EXCEPT !.ops = ops]
  BY <1>8, <1>9 DEF ChipOK, ChipFields
<1>11. /\ RegsOK(dw3000'.regs) /\ dw3000'.regs.sts = sts /\ dw3000'.regs.crc = r.crc
       /\ dw3000'.regs.dbl = r.dbl
  <2>1. /\ DOMAIN dw3000'.regs = RegFields /\ dw3000'.regs.auto = t
        /\ dw3000'.regs.sts = sts /\ dw3000'.regs.crc = r.crc /\ dw3000'.regs.dbl = r.dbl
        /\ dw3000'.regs.dig = r.dig /\ dw3000'.regs.chanCtrl = ch
    BY <1>9, <1>10 DEF RegsOK, RegFields
  <2>2. t \in BOOLEAN
    BY <1>4
  <2> QED BY <1>6, <1>9, <2>1, <2>2 DEF RegsOK
<1>12. /\ VolOK(dw3000'.vol) /\ dw3000'.vol.ops = ops /\ dw3000'.vol.tuned = v.tuned
       /\ dw3000'.vol.indirectB = v.indirectB
  BY <1>6, <1>9, <1>10 DEF VolOK, VolFields
<1>13. /\ LocalOK(local') /\ local'.stsconfig = sts /\ local'.ops = sleep
       /\ local'.spicrc = l.spicrc /\ local'.dblbuffon = l.dblbuffon /\ local'.bias_tune = l.bias_tune
  BY <1>6, <1>7, <1>9 DEF LocalOK, LocalFields
<1>14. ChipOK(dw3000')
  BY <1>4, <1>9, <1>10, <1>11, <1>12 DEF ChipOK
<1>15. SetupTypes'
  <2>1. cnt' \in 0 .. MaxRetriesPLL - 1
    BY <1>1, SetupFacts
  <2> QED BY <1>1, <1>2, <1>3, <1>13, <1>14, <2>1 DEF SetupInv, SetupTypes
<1>16. Fresh' /\ Saved' /\ Locking'
  BY <1>1, <1>2, <1>4, <1>10 DEF Fresh, Saved, Locking, Running
<1>17. Copied'
  <2>1. Agrees(l, r) /\ l.bias_tune = otp.bias
    BY <1>1, <1>4 DEF SetupInv, Copied
  <2>2. Agrees(local', dw3000'.regs)
    BY <1>11, <1>13, <2>1 DEF Agrees
  <2> QED BY <1>1, <1>13, <2>1, <2>2 DEF Copied
<1>18. Restored'
  BY <1>1, <1>4, <1>10, <1>11, <1>12 DEF SetupInv, Restored, Running
<1>19. Chosen'
  BY <1>3, <1>5, <1>12, <1>13 DEF Chosen
<1> QED BY <1>15, <1>16, <1>17, <1>18, <1>19 DEF SetupInv

(* ... its polls, ...                                                      *)
LEMMA PollKeeps ==
  ASSUME SetupInv, Setup!PollPll
  PROVE  SetupInv'
<1>1. at = "pll" /\ UNCHANGED <<otp, dw3000, aon, local, cfg, calls>>
  BY DEF Setup!PollPll
<1>2. \/ dw3000.lock /\ at' = "calibrate" /\ UNCHANGED <<cnt, result>>
      \/ cnt + 1 < MaxRetriesPLL /\ cnt' = cnt + 1 /\ UNCHANGED <<at, result>>
      \/ result' = -1 /\ at' = "idle" /\ UNCHANGED cnt
  BY DEF Setup!PollPll, Setup!DWT_ERROR
<1>3. SetupTypes'
  BY <1>1, <1>2, SetupFacts DEF SetupInv, SetupTypes
<1>4. Running(dw3000) /\ (dw3000.lock => dw3000.pll)
  BY <1>1 DEF SetupInv, Locking
<1>5. Fresh' /\ Saved' /\ Copied' /\ Restored'
  BY <1>1, <1>4 DEF SetupInv, Fresh, Saved, Copied, Restored, Running
<1>6. Chosen'
  BY <1>1, <1>2 DEF SetupInv, Chosen
<1>7. Locking'
  BY <1>1, <1>2, <1>4 DEF Locking, Running
<1> QED BY <1>3, <1>5, <1>6, <1>7 DEF SetupInv

(* ... and the calibration, which succeeds if it has ended in every part.  *)
LEMMA CalibrationIs ==
  ASSUME NEW done \in BOOLEAN, NEW i \in BOOLEAN, NEW q \in BOOLEAN
  PROVE  Setup!PgfCal(done, i, q) = IF done /\ i /\ q THEN 0 ELSE 255
BY DEF Setup!PgfCal, Setup!RunPgfCal, Setup!DWT_SUCCESS, Setup!DWT_ERROR

(* dwt_configure loads a table of the channel, from the OTP memory or from *)
(* the driver.                                                             *)
LEMMA TableIs ==
  ASSUME LocalOK(local), NEW k \in {5, 9}
  PROVE  Setup!DgcFor(k) \in [from : {"otp", "driver"}, chan : {5, 9}]
BY DEF Setup!DgcFor, LocalOK

(* The end of dwt_configure: the receiver's calibration.                   *)
LEMMA CalibrateKeeps ==
  ASSUME SetupInv, Setup!Calibrate
  PROVE  SetupInv' /\ (result' = 0 => dw3000'.pll /\ dw3000'.pgf)
<1>1. at = "calibrate" /\ at' = "idle" /\ UNCHANGED <<otp, aon, local, cfg, cnt, calls>>
  BY DEF Setup!Calibrate
<1>2. PICK done, i, q \in BOOLEAN :
        /\ result' = Setup!PgfCal(done, i, q)
        /\ dw3000' = [dw3000 EXCEPT !.pgf = done /\ i /\ q,
             !.vol.dgc = IF Setup!Prf64(cfg.code) THEN Setup!DgcFor(cfg.chan) ELSE Setup!NoTable]
  BY DEF Setup!Calibrate
<1>3. PICK c, v, p, d : /\ c = dw3000 /\ v = dw3000.vol /\ p = (done /\ i /\ q)
                        /\ d = IF Setup!Prf64(cfg.code) THEN Setup!DgcFor(cfg.chan) ELSE Setup!NoTable
  OBVIOUS
<1>4. dw3000' = [c EXCEPT !.pgf = p, !.vol = [v EXCEPT !.dgc = d]]
  BY <1>2, <1>3
<1>5. p \in BOOLEAN /\ result' = IF p THEN 0 ELSE 255
  BY <1>2, <1>3, CalibrationIs
<1>6. d \in {Setup!NoTable} \cup [from : {"otp", "driver"}, chan : {5, 9}]
  <2>1. cfg.chan \in {5, 9}
    BY SetupFacts DEF SetupInv, SetupTypes
  <2>2. Setup!DgcFor(cfg.chan) \in [from : {"otp", "driver"}, chan : {5, 9}]
    BY <2>1, TableIs DEF SetupInv, SetupTypes
  <2> QED BY <1>3, <2>2
<1>7. ChipOK(c) /\ VolOK(v)
  BY <1>3 DEF SetupInv, SetupTypes, ChipOK
<1>8. /\ DOMAIN dw3000' = ChipFields /\ dw3000'.state = c.state /\ dw3000'.pll = c.pll
      /\ dw3000'.lock = c.lock /\ dw3000'.pgf = p /\ dw3000'.regs = c.regs
      /\ dw3000'.vol = [v EXCEPT !.dgc = d]
  BY <1>4, <1>7 DEF ChipOK, ChipFields
<1>9. /\ VolOK(dw3000'.vol) /\ dw3000'.vol.ops = v.ops /\ dw3000'.vol.tuned = v.tuned
      /\ dw3000'.vol.indirectB = v.indirectB
  BY <1>6, <1>7, <1>8 DEF VolOK, VolFields
<1>10. ChipOK(dw3000')
  BY <1>5, <1>7, <1>8, <1>9 DEF ChipOK
<1>11. SetupTypes'
  BY <1>1, <1>5, <1>10 DEF SetupInv, SetupTypes
<1>12. Running(c) /\ c.pll
  BY <1>1, <1>3 DEF SetupInv, Locking
<1>13. Fresh' /\ Saved' /\ Locking'
  BY <1>1, <1>8, <1>12 DEF Fresh, Saved, Locking, Running
<1>14. Copied' /\ Restored'
  BY <1>1, <1>3, <1>8, <1>9 DEF SetupInv, Copied, Restored, Running
<1>15. Chosen'
  BY <1>1, <1>3, <1>9 DEF SetupInv, Chosen
<1>16. result' = 0 => dw3000'.pll /\ dw3000'.pgf
  BY <1>5, <1>8, <1>12
<1> QED BY <1>11, <1>13, <1>14, <1>15, <1>16 DEF SetupInv

(* The STS mode, the CRC on the SPI, and the buffers: of the copy and of   *)
(* the chip at once.                                                       *)
LEMMA SetKeeps ==
  ASSUME SetupInv, Setup!Awake, Setup!Call, Setup!Quiet,
         LocalOK(local'), local'.ops = local.ops, local'.bias_tune = local.bias_tune,
         DOMAIN dw3000' = ChipFields,
         \A x \in ChipFields \ {"regs", "vol"} : dw3000'[x] = dw3000[x],
         RegsOK(dw3000'.regs), VolOK(dw3000'.vol), dw3000'.vol.ops = dw3000.vol.ops,
         dw3000'.vol.tuned = dw3000.vol.tuned,
         dw3000'.regs.dbl => dw3000'.vol.indirectB,
         Agrees(local, dw3000.regs) => Agrees(local', dw3000'.regs)
  PROVE  SetupInv'
<1>1. Running(dw3000) /\ UNCHANGED <<otp, aon, at, cfg, cnt, result>>
  BY DEF Setup!Awake, Setup!Quiet, Running
<1>2. at = "idle" /\ calls' \in 0 .. MaxCalls
  BY Counted
<1>3. /\ dw3000'.state = dw3000.state /\ dw3000'.pll = dw3000.pll
      /\ dw3000'.lock = dw3000.lock /\ dw3000'.pgf = dw3000.pgf
  BY DEF ChipFields
<1>4. ChipOK(dw3000')
  BY <1>3 DEF SetupInv, SetupTypes, ChipOK
<1>5. SetupTypes'
  BY <1>1, <1>2, <1>4 DEF SetupInv, SetupTypes
<1>6. Fresh' /\ Saved' /\ Locking'
  BY <1>1, <1>2, <1>3 DEF Fresh, Saved, Locking, Running
<1>7. Copied'
  BY <1>1, <1>3 DEF SetupInv, Copied, Running
<1>8. Restored' /\ Chosen'
  BY <1>1, <1>3 DEF SetupInv, Restored, Chosen, Running
<1> QED BY <1>5, <1>6, <1>7, <1>8 DEF SetupInv

(* dwt_configurestsmode, ...                                               *)
LEMMA StsKeeps ==
  ASSUME SetupInv, Setup!ConfigureStsMode
  PROVE  SetupInv'
<1>1. Setup!Awake /\ Setup!Call /\ Setup!Quiet
  BY DEF Setup!ConfigureStsMode
<1>2. PICK m \in {"off", "1", "nd"} :
        local' = [local EXCEPT !.stsconfig = m] /\ dw3000' = [dw3000 EXCEPT !.regs.sts = m]
  BY DEF Setup!ConfigureStsMode
<1>3. PICK c, r, l : c = dw3000 /\ r = dw3000.regs /\ l = local
  OBVIOUS
<1>4. local' = [l EXCEPT !.stsconfig = m] /\ dw3000' = [c EXCEPT !.regs = [r EXCEPT !.sts = m]]
  BY <1>2, <1>3
<1>5. ChipOK(c) /\ RegsOK(r) /\ VolOK(c.vol) /\ LocalOK(l)
  BY <1>3 DEF SetupInv, SetupTypes, ChipOK
<1>6. /\ LocalOK(local') /\ local'.stsconfig = m /\ local'.ops = l.ops
      /\ local'.bias_tune = l.bias_tune /\ local'.spicrc = l.spicrc /\ local'.dblbuffon = l.dblbuffon
  BY <1>2, <1>4, <1>5 DEF LocalOK, LocalFields
<1>7. /\ DOMAIN dw3000' = ChipFields /\ dw3000'.regs = [r EXCEPT !.sts = m]
      /\ \A x \in ChipFields \ {"regs"} : dw3000'[x] = c[x]
  BY <1>4, <1>5 DEF ChipOK, ChipFields
<1>8. dw3000'.vol = c.vol
  BY <1>7 DEF ChipFields
<1>9. /\ RegsOK(dw3000'.regs) /\ dw3000'.regs.sts = m /\ dw3000'.regs.crc = r.crc
      /\ dw3000'.regs.dbl = r.dbl
  <2>1. /\ DOMAIN dw3000'.regs = RegFields /\ dw3000'.regs.sts = m
        /\ dw3000'.regs.chanCtrl = r.chanCtrl /\ dw3000'.regs.dbl = r.dbl /\ dw3000'.regs.crc = r.crc
        /\ dw3000'.regs.auto = r.auto /\ dw3000'.regs.dig = r.dig
    BY <1>5, <1>7 DEF RegsOK, RegFields
  <2>2. m \in {"off", "1", "nd"}
    BY <1>2
  <2> QED BY <1>5, <2>1, <2>2 DEF RegsOK
<1>10. r.dbl => c.vol.indirectB
  BY <1>1, <1>3 DEF SetupInv, Restored, Running, Setup!Awake
<1>11. Agrees(l, r) => Agrees(local', dw3000'.regs)
  BY <1>6, <1>9 DEF Agrees
<1> QED BY <1>1, <1>3, <1>5, <1>6, <1>7, <1>8, <1>9, <1>10, <1>11, SetKeeps

(* ... dwt_enablespicrccheck, ...                                          *)
LEMMA CrcCheckKeeps ==
  ASSUME SetupInv, Setup!EnableSpiCrcCheck
  PROVE  SetupInv'
<1>1. Setup!Awake /\ Setup!Call /\ Setup!Quiet
  BY DEF Setup!EnableSpiCrcCheck
<1>2. PICK on \in BOOLEAN :
        local' = [local EXCEPT !.spicrc = on] /\ dw3000' = [dw3000 EXCEPT !.regs.crc = on]
  BY DEF Setup!EnableSpiCrcCheck
<1>3. PICK c, r, l : c = dw3000 /\ r = dw3000.regs /\ l = local
  OBVIOUS
<1>4. local' = [l EXCEPT !.spicrc = on] /\ dw3000' = [c EXCEPT !.regs = [r EXCEPT !.crc = on]]
  BY <1>2, <1>3
<1>5. ChipOK(c) /\ RegsOK(r) /\ VolOK(c.vol) /\ LocalOK(l)
  BY <1>3 DEF SetupInv, SetupTypes, ChipOK
<1>6. /\ LocalOK(local') /\ local'.spicrc = on /\ local'.ops = l.ops
      /\ local'.bias_tune = l.bias_tune /\ local'.stsconfig = l.stsconfig
      /\ local'.dblbuffon = l.dblbuffon
  BY <1>2, <1>4, <1>5 DEF LocalOK, LocalFields
<1>7. /\ DOMAIN dw3000' = ChipFields /\ dw3000'.regs = [r EXCEPT !.crc = on]
      /\ \A x \in ChipFields \ {"regs"} : dw3000'[x] = c[x]
  BY <1>4, <1>5 DEF ChipOK, ChipFields
<1>8. dw3000'.vol = c.vol
  BY <1>7 DEF ChipFields
<1>9. /\ RegsOK(dw3000'.regs) /\ dw3000'.regs.crc = on /\ dw3000'.regs.sts = r.sts
      /\ dw3000'.regs.dbl = r.dbl
  <2>1. /\ DOMAIN dw3000'.regs = RegFields /\ dw3000'.regs.crc = on
        /\ dw3000'.regs.chanCtrl = r.chanCtrl /\ dw3000'.regs.sts = r.sts /\ dw3000'.regs.dbl = r.dbl
        /\ dw3000'.regs.auto = r.auto /\ dw3000'.regs.dig = r.dig
    BY <1>5, <1>7 DEF RegsOK, RegFields
  <2>2. on \in BOOLEAN
    BY <1>2
  <2> QED BY <1>5, <2>1, <2>2 DEF RegsOK
<1>10. r.dbl => c.vol.indirectB
  BY <1>1, <1>3 DEF SetupInv, Restored, Running, Setup!Awake
<1>11. Agrees(l, r) => Agrees(local', dw3000'.regs)
  BY <1>6, <1>9 DEF Agrees
<1> QED BY <1>1, <1>3, <1>5, <1>6, <1>7, <1>8, <1>9, <1>10, <1>11, SetKeeps

(* ... and dwt_setdblrxbuffmode each change a register and its copy.       *)
LEMMA BuffersKeep ==
  ASSUME SetupInv, Setup!SetDblRxBuffMode
  PROVE  SetupInv'
<1>1. Setup!Awake /\ Setup!Call /\ Setup!Quiet
  BY DEF Setup!SetDblRxBuffMode
<1>2. PICK on \in BOOLEAN :
        /\ local' = [local EXCEPT !.dblbuffon = IF on THEN "0" ELSE "off"]
        /\ dw3000' = [dw3000 EXCEPT !.regs.dbl = on, !.vol.indirectB = @ \/ on]
  BY DEF Setup!SetDblRxBuffMode
<1>3. PICK c, r, v, l, b, k : /\ c = dw3000 /\ r = dw3000.regs /\ v = dw3000.vol /\ l = local
                             /\ b = (v.indirectB \/ on) /\ k = IF on THEN "0" ELSE "off"
  OBVIOUS
<1>4. /\ local' = [l EXCEPT !.dblbuffon = k]
      /\ dw3000' = [c EXCEPT !.regs = [r EXCEPT !.dbl = on], !.vol = [v EXCEPT !.indirectB = b]]
  BY <1>2, <1>3
<1>5. ChipOK(c) /\ RegsOK(r) /\ VolOK(v) /\ LocalOK(l)
  BY <1>3 DEF SetupInv, SetupTypes, ChipOK
<1>6. /\ k \in {"off", "0", "1"} /\ (k # "off") = on /\ b \in BOOLEAN /\ (on => b)
  BY <1>2, <1>3
<1>7. /\ LocalOK(local') /\ local'.dblbuffon = k /\ local'.ops = l.ops
      /\ local'.bias_tune = l.bias_tune /\ local'.stsconfig = l.stsconfig
      /\ local'.spicrc = l.spicrc
  BY <1>4, <1>5, <1>6 DEF LocalOK, LocalFields
<1>8. /\ DOMAIN dw3000' = ChipFields /\ dw3000'.regs = [r EXCEPT !.dbl = on]
      /\ dw3000'.vol = [v EXCEPT !.indirectB = b]
      /\ \A x \in ChipFields \ {"regs", "vol"} : dw3000'[x] = c[x]
  BY <1>4, <1>5 DEF ChipOK, ChipFields
<1>9. /\ RegsOK(dw3000'.regs) /\ dw3000'.regs.dbl = on /\ dw3000'.regs.sts = r.sts
      /\ dw3000'.regs.crc = r.crc
  <2>1. /\ DOMAIN dw3000'.regs = RegFields /\ dw3000'.regs.dbl = on
        /\ dw3000'.regs.chanCtrl = r.chanCtrl /\ dw3000'.regs.sts = r.sts /\ dw3000'.regs.crc = r.crc
        /\ dw3000'.regs.auto = r.auto /\ dw3000'.regs.dig = r.dig
    BY <1>5, <1>8 DEF RegsOK, RegFields
  <2>2. on \in BOOLEAN
    BY <1>2
  <2> QED BY <1>5, <2>1, <2>2 DEF RegsOK
<1>10. /\ VolOK(dw3000'.vol) /\ dw3000'.vol.indirectB = b /\ dw3000'.vol.ops = v.ops
       /\ dw3000'.vol.tuned = v.tuned
  BY <1>5, <1>6, <1>8 DEF VolOK, VolFields
<1>11. Agrees(l, r) => Agrees(local', dw3000'.regs)
  BY <1>6, <1>7, <1>9 DEF Agrees
<1> QED BY <1>1, <1>3, <1>6, <1>7, <1>8, <1>9, <1>10, <1>11, SetKeeps

(* Sleep: the chip is told to wake with what it saves, ...                 *)
LEMMA ConfigureSleepKeeps ==
  ASSUME SetupInv, Setup!ConfigureSleep
  PROVE  SetupInv'
<1>1. Setup!Awake /\ Setup!Call /\ Setup!Quiet /\ local' = local
  BY DEF Setup!ConfigureSleep, Setup!Awake
<1>2. PICK c, r, on : c = dw3000 /\ r = dw3000.regs /\ on = TRUE
  OBVIOUS
<1>3. dw3000' = [c EXCEPT !.regs = [r EXCEPT !.dig = on]]
  BY <1>2 DEF Setup!ConfigureSleep
<1>4. on \in BOOLEAN
  BY <1>2
<1>5. ChipOK(c) /\ RegsOK(r) /\ VolOK(c.vol) /\ LocalOK(local')
  BY <1>1, <1>2 DEF SetupInv, SetupTypes, ChipOK
<1>6. /\ DOMAIN dw3000' = ChipFields /\ dw3000'.regs = [r EXCEPT !.dig = on]
      /\ \A x \in ChipFields \ {"regs"} : dw3000'[x] = c[x]
  BY <1>3, <1>5 DEF ChipOK, ChipFields
<1>7. dw3000'.vol = c.vol
  BY <1>6 DEF ChipFields
<1>8. /\ DOMAIN dw3000'.regs = RegFields /\ dw3000'.regs.dig = on
      /\ dw3000'.regs.sts = r.sts /\ dw3000'.regs.crc = r.crc /\ dw3000'.regs.dbl = r.dbl
      /\ dw3000'.regs.auto = r.auto /\ dw3000'.regs.chanCtrl = r.chanCtrl
  BY <1>5, <1>6 DEF RegsOK, RegFields
<1>9. RegsOK(dw3000'.regs)
  BY <1>4, <1>5, <1>8 DEF RegsOK
<1>10. r.dbl => c.vol.indirectB
  BY <1>1, <1>2 DEF SetupInv, Restored, Running, Setup!Awake
<1>11. Agrees(local, r) => Agrees(local', dw3000'.regs)
  BY <1>1, <1>8 DEF Agrees
<1> QED BY <1>1, <1>2, <1>5, <1>6, <1>7, <1>8, <1>9, <1>10, <1>11, SetKeeps

(* ... saves it, ...                                                       *)
LEMMA EnterSleepKeeps ==
  ASSUME SetupInv, Setup!EnterSleep
  PROVE  SetupInv'
<1>1. /\ Setup!Call /\ dw3000.state \in {"idle_rc", "idle_pll"} /\ dw3000.regs.dig
      /\ UNCHANGED <<otp, local, at, cfg, cnt, result>>
  BY DEF Setup!EnterSleep
<1>2. at = "idle" /\ calls' \in 0 .. MaxCalls
  BY <1>1, Counted
<1>3. PICK idle_rc \in BOOLEAN :
        /\ aon' = [dw3000.regs EXCEPT !.auto = @ /\ ~idle_rc]
        /\ dw3000' = [dw3000 EXCEPT !.state = "asleep",
                        !.regs = [dw3000.regs EXCEPT !.auto = @ /\ ~idle_rc]]
  BY DEF Setup!EnterSleep
<1>4. PICK c, r, a : c = dw3000 /\ r = dw3000.regs /\ a = (r.auto /\ ~idle_rc)
  OBVIOUS
<1>5. aon' = [r EXCEPT !.auto = a] /\ dw3000' = [c EXCEPT !.state = "asleep", !.regs = aon']
  BY <1>3, <1>4
<1>6. ChipOK(c) /\ RegsOK(r) /\ r.dig /\ a \in BOOLEAN
  BY <1>1, <1>4 DEF SetupInv, SetupTypes, ChipOK
<1>7. /\ DOMAIN aon' = RegFields /\ aon'.auto = a
      /\ aon'.sts = r.sts /\ aon'.crc = r.crc /\ aon'.dbl = r.dbl
      /\ aon'.dig = r.dig /\ aon'.chanCtrl = r.chanCtrl
  <2>1. aon' = [r EXCEPT !.auto = a]
    BY <1>5
  <2>2. DOMAIN r = RegFields
    BY <1>6 DEF RegsOK
  <2> QED BY <2>1, <2>2 DEF RegFields
<1>8. RegsOK(aon')
  BY <1>6, <1>7 DEF RegsOK
<1>9. /\ DOMAIN dw3000' = ChipFields /\ dw3000'.state = "asleep" /\ dw3000'.regs = aon'
      /\ dw3000'.pll = c.pll /\ dw3000'.lock = c.lock /\ dw3000'.pgf = c.pgf
      /\ dw3000'.vol = c.vol
  BY <1>5, <1>6 DEF ChipOK, ChipFields
<1>10. ChipOK(dw3000')
  BY <1>6, <1>8, <1>9 DEF ChipOK
<1>11. SetupTypes'
  BY <1>1, <1>2, <1>10 DEF SetupInv, SetupTypes
<1>12. Fresh' /\ Saved' /\ Locking' /\ Restored'
  BY <1>1, <1>2, <1>6, <1>7, <1>9 DEF Fresh, Saved, Locking, Restored, Running
<1>13. Copied'
  BY <1>1, <1>4, <1>7, <1>9 DEF SetupInv, Copied, Agrees
<1>14. Chosen'
  BY <1>1, <1>4, <1>9 DEF SetupInv, Chosen
<1> QED BY <1>11, <1>12, <1>13, <1>14 DEF SetupInv

(* ... and what sleep has taken is brought back.                           *)
LEMMA RestoreKeeps ==
  ASSUME SetupInv, Setup!RestoreConfig
  PROVE  SetupInv'
<1>1. /\ Setup!Call /\ dw3000.state = "woken"
      /\ UNCHANGED <<otp, aon, at, cfg, cnt, result, local>>
  BY DEF Setup!RestoreConfig, Setup!Quiet
<1>2. at = "idle" /\ calls' \in 0 .. MaxCalls
  BY <1>1, Counted
<1>3. PICK c, v, t, b, o, d :
        /\ c = dw3000 /\ v = dw3000.vol /\ t = (v.tuned \/ local.bias_tune) /\ b = TRUE
        /\ o = IF local.ops # "none" THEN local.ops ELSE v.ops
        /\ d = IF Setup!CodeAsRead \in 9 .. 24
               THEN Setup!DgcFor(IF c.regs.chanCtrl % 2 = 1 THEN 9 ELSE 5) ELSE v.dgc
  OBVIOUS
<1>4. dw3000' = [c EXCEPT !.state = "idle_rc",
                          !.vol = [v EXCEPT !.tuned = t, !.indirectB = b, !.ops = o, !.dgc = d]]
  BY <1>3 DEF Setup!RestoreConfig
<1>5. ChipOK(c) /\ VolOK(v) /\ LocalOK(local)
  BY <1>3 DEF SetupInv, SetupTypes, ChipOK
<1>6. t \in BOOLEAN /\ b \in BOOLEAN
  BY <1>3
<1>7. o \in {"reset", "long", "scp", "short"}
  BY <1>3, <1>5 DEF LocalOK, VolOK
<1>8. d \in {Setup!NoTable} \cup [from : {"otp", "driver"}, chan : {5, 9}]
  <2>1. \A k \in {5, 9} : Setup!DgcFor(k) \in [from : {"otp", "driver"}, chan : {5, 9}]
    BY <1>5, TableIs
  <2> QED BY <1>3, <1>5, <2>1 DEF VolOK
<1>9. /\ DOMAIN dw3000' = ChipFields /\ dw3000'.state = "idle_rc" /\ dw3000'.regs = c.regs
      /\ dw3000'.pll = c.pll /\ dw3000'.lock = c.lock /\ dw3000'.pgf = c.pgf
      /\ dw3000'.vol = [v EXCEPT !.tuned = t, !.indirectB = b, !.ops = o, !.dgc = d]
  BY <1>4, <1>5 DEF ChipOK, ChipFields
<1>10. /\ DOMAIN dw3000'.vol = VolFields /\ dw3000'.vol.tuned = t /\ dw3000'.vol.indirectB = b
       /\ dw3000'.vol.ops = o /\ dw3000'.vol.dgc = d
  BY <1>5, <1>9 DEF VolOK, VolFields
<1>11. VolOK(dw3000'.vol)
  BY <1>6, <1>7, <1>8, <1>10 DEF VolOK
<1>12. ChipOK(dw3000')
  BY <1>5, <1>9, <1>11 DEF ChipOK
<1>13. SetupTypes'
  BY <1>1, <1>2, <1>12 DEF SetupInv, SetupTypes
<1>14. Fresh' /\ Saved' /\ Locking'
  BY <1>1, <1>2, <1>9 DEF Fresh, Saved, Locking
<1>15. Copied'
  BY <1>1, <1>3, <1>9 DEF SetupInv, Copied
<1>16. Restored'
  <2>1. otp.bias => t
    BY <1>1, <1>3 DEF SetupInv, Copied
  <2> QED BY <1>1, <1>3, <1>10, <2>1 DEF Restored
<1>17. Chosen'
  <2> SUFFICES ASSUME result = 0
               PROVE  local.ops = Setup!SleepOps(cfg) /\ o \in {Setup!OpsOf(cfg), "reset"}
    BY <1>1, <1>2, <1>10 DEF Chosen
  <2>1. local.ops = Setup!SleepOps(cfg) /\ v.ops \in {Setup!OpsOf(cfg), "reset"}
    BY <1>3 DEF SetupInv, Chosen
  <2> QED BY <1>3, <2>1 DEF Setup!SleepOps
<1> QED BY <1>13, <1>14, <1>15, <1>16, <1>17 DEF SetupInv

(* Every step of the driver and of the chip keeps the invariant, ...       *)
LEMMA SetupStep == SetupInv /\ [Setup!Next]_(Setup!vars) => SetupInv'
<1> SUFFICES ASSUME SetupInv, [Setup!Next]_(Setup!vars)
             PROVE  SetupInv'
  OBVIOUS
<1>1. CASE UNCHANGED Setup!vars
  <2>1. UNCHANGED <<otp, dw3000, aon, local, at, cfg, cnt, result, calls>>
    BY <1>1 DEF Setup!vars
  <2> QED BY <2>1 DEF SetupInv, SetupTypes, Fresh, Copied, Saved, Restored, Chosen, Locking
<1>2. CASE Setup!Driver
  BY <1>2, SetupInitialiseKeeps, SoftResetKeeps, SetDwStateKeeps, ConfigureKeeps, PollKeeps,
     CalibrateKeeps, StsKeeps, CrcCheckKeeps, BuffersKeep, ConfigureSleepKeeps, EnterSleepKeeps,
     RestoreKeeps DEF Setup!Driver
<1>3. CASE Setup!PllLocks \/ Setup!Wakes
  BY <1>3, LockKeeps, WakesKeeps
<1> QED BY <1>1, <1>2, <1>3 DEF Setup!Next, Setup!Done

(* ... which says what is to hold of the copy.                             *)
LEMMA SetupHolds ==
  SetupInv => Setup!TypeOK /\ Setup!CopyAgrees /\ Setup!OpsRestored /\ Setup!TuningSurvives
<1> SUFFICES ASSUME SetupInv
             PROVE  Setup!TypeOK /\ Setup!CopyAgrees /\ Setup!OpsRestored /\ Setup!TuningSurvives
  OBVIOUS
<1>1. Setup!TypeOK
  <2>1. dw3000.state \in {"reset", "softreset", "idle_rc", "idle_pll", "asleep", "woken"}
    BY DEF SetupInv, SetupTypes, ChipOK
  <2>2. /\ dw3000.pll \in BOOLEAN /\ dw3000.lock \in BOOLEAN /\ dw3000.pgf \in BOOLEAN
        /\ dw3000.vol.tuned \in BOOLEAN /\ dw3000.vol.indirectB \in BOOLEAN
    BY DEF SetupInv, SetupTypes, ChipOK, VolOK
  <2>3. {dw3000.pll, dw3000.lock, dw3000.pgf, dw3000.vol.tuned, dw3000.vol.indirectB} \subseteq BOOLEAN
    BY <2>2
  <2>4. RegsOK(dw3000.regs) /\ VolOK(dw3000.vol)
    BY DEF SetupInv, SetupTypes, ChipOK
  <2>5. /\ dw3000.vol.ops \in {"reset", "long", "scp", "short"}
        /\ dw3000.vol.dgc \in {Setup!NoTable} \cup [from : {"otp", "driver"}, chan : {5, 9}]
    BY <2>4, Zenon DEF VolOK
  <2>6. dw3000.regs.chanCtrl \in Setup!ChanCtrls
    BY <2>4, Zenon DEF RegsOK
  <2>7. local.ops \in {"none", "long", "scp"} /\ local.dblbuffon \in {"off", "0", "1"}
    BY DEF SetupInv, SetupTypes, LocalOK
  <2>8. /\ otp \in [tuneLo : BOOLEAN, tuneHi : BOOLEAN, bias : BOOLEAN, dgc : BOOLEAN]
        /\ at \in {"idle", "pll", "calibrate"} /\ cfg \in Configs
        /\ cnt \in 0 .. MaxRetriesPLL - 1 /\ calls \in 0 .. MaxCalls
    BY Zenon DEF SetupInv, SetupTypes
  <2>9. result \in {Setup!NotYet, Setup!DWT_SUCCESS, Setup!DWT_ERROR, 255}
    BY DEF SetupInv, SetupTypes, Setup!NotYet, Setup!DWT_SUCCESS, Setup!DWT_ERROR
  <2> QED BY <2>1, <2>3, <2>5, <2>6, <2>7, <2>8, <2>9, Zenon DEF Setup!TypeOK
<1>2. Setup!CopyAgrees
  BY DEF SetupInv, Copied, Restored, Running, Agrees, Setup!CopyAgrees, Setup!InUse
<1>3. Setup!OpsRestored
  BY DEF SetupInv, Chosen, Setup!OpsRestored, Setup!DWT_SUCCESS
<1>4. Setup!TuningSurvives
  BY DEF SetupInv, Restored, Running, Setup!TuningSurvives, Setup!InUse
<1> QED BY <1>1, <1>2, <1>3, <1>4

(* dwt_configure returns only by its calibration with success.             *)
LEMMA SuccessIs ==
  ASSUME SetupInv, [Setup!Next]_(Setup!vars),
         at # "idle", at' = "idle", result' = 0
  PROVE  dw3000'.pll /\ dw3000'.pgf
<1>1. CASE UNCHANGED Setup!vars
  BY <1>1 DEF Setup!vars
<1>2. CASE Setup!Driver
  <2>1. CASE Setup!PollPll
    BY <2>1 DEF Setup!PollPll, Setup!DWT_ERROR
  <2>2. CASE Setup!Calibrate
    BY <2>2, CalibrateKeeps
  <2>3. ~Setup!Call
    BY DEF Setup!Call
  <2> QED BY <1>2, <2>1, <2>2, <2>3 DEF Setup!Driver, Setup!Initialise, Setup!SoftReset, Setup!SetDwState,
           Setup!Configure, Setup!ConfigureStsMode, Setup!EnableSpiCrcCheck, Setup!SetDblRxBuffMode,
           Setup!ConfigureSleep, Setup!EnterSleep, Setup!RestoreConfig
<1>3. CASE Setup!PllLocks \/ Setup!Wakes
  BY <1>3 DEF Setup!PllLocks, Setup!Wakes
<1> QED BY <1>1, <1>2, <1>3 DEF Setup!Next, Setup!Done, Setup!vars

(* The driver's copy agrees with the chip whenever the chip is in use,     *)
(* sleep leaves no wrong table of operating parameters and keeps the       *)
(* factory's tuning, and dwt_configure succeeds only with the PLL locked   *)
(* and the receiver calibrated.                                            *)
THEOREM CopyDoesHold == Setup!Spec => CopyHolds
<1>1. Setup!Init => SetupInv
  BY SetupInit
<1>2. SetupInv /\ [Setup!Next]_(Setup!vars) => SetupInv'
  BY SetupStep
<1>3. SetupInv => Setup!TypeOK /\ Setup!CopyAgrees /\ Setup!OpsRestored /\ Setup!TuningSurvives
  BY SetupHolds
<1>4. SetupInv /\ [Setup!Next]_(Setup!vars)
        => [at # "idle" /\ at' = "idle" /\ result' = 0 => dw3000'.pll /\ dw3000'.pgf]_(Setup!vars)
  BY SuccessIs
<1> QED BY <1>1, <1>2, <1>3, <1>4, PTL DEF Setup!Spec, CopyHolds, Setup!SuccessIsTrue, Setup!DWT_SUCCESS

(***************************************************************************)
(* The SPI.                                                                *)
(***************************************************************************)

(* What follows from the assumptions.                                      *)
LEMMA SpiFacts ==
  /\ Cells \in Nat /\ Registers \subseteq 0 .. 28 /\ BaseOffsets \subseteq Nat
  /\ Indexes \subseteq Nat /\ BufferOffsets \subseteq Nat
<1>1. Spi!SpiAssumption
  BY PartAssumptions
<1> QED BY <1>1 DEF Spi!SpiAssumption

(* The chip reads in a header what dwt_xfer3000 has been told to put there:*)
(* the access, ...                                                         *)
LEMMA HeaderReaches ==
  ASSUME NEW op \in Spi!Modes, NEW file \in 0 .. 31, NEW base \in Nat, NEW index \in Nat,
         base + index <= 127, NEW len \in Nat, len > 0
  PROVE  Spi!Decoded(Spi!Header(op, file, base, index, len)) = Spi!Access(op, file, base + index)
<1>1. PICK place \in 0 .. 127 : place = base + index
  OBVIOUS
<1>2. place = (base + index) % 128
  BY <1>1
<1>3. PICK m \in 0 .. 3, d \in {0, 128} : m = Spi!ModeBits(op) /\ d = Spi!Direction(op)
  BY DEF Spi!ModeBits, Spi!Direction, Spi!Modes
<1>4. CASE place = 0 /\ m = 0
  <2>1. Spi!Header(op, file, base, index, len) = <<d + 2 * file>>
    BY <1>2, <1>3, <1>4 DEF Spi!Header
  <2>2. PICK first \in 0 .. 255 : first = d + 2 * file
    OBVIOUS
  <2>3. /\ (first % 64) \div 2 = file /\ ~(first % 128 >= 64) /\ first % 2 = 0
        /\ first >= 128 <=> d = 128
    BY <2>2
  <2>4. op = IF d = 128 THEN "write" ELSE "read"
    BY <1>3, <1>4 DEF Spi!ModeBits, Spi!Direction, Spi!Modes
  <2>5. Spi!Decoded(<<first>>) = Spi!Access(IF d = 128 THEN "write" ELSE "read", file, 0)
    BY <2>3 DEF Spi!Decoded
  <2> QED BY <1>1, <1>4, <2>1, <2>2, <2>4, <2>5
<1>5. CASE ~(place = 0 /\ m = 0)
  <2>1. PICK upper \in 0 .. 1, lower \in 0 .. 63 : upper = place \div 64 /\ lower = place % 64
    OBVIOUS
  <2>2. Spi!Header(op, file, base, index, len) = <<d + 64 + 2 * file + upper, 4 * lower + m>>
    <3>1. Spi!Header(op, file, base, index, len) =
            <<Spi!Direction(op) + 64 + 2 * file + (place \div 64), 4 * (place % 64) + Spi!ModeBits(op)>>
      BY <1>2, <1>3, <1>5 DEF Spi!Header
    <3> QED BY <1>3, <2>1, <3>1
  <2>3. PICK first \in Nat, second \in Nat :
          first = d + 64 + 2 * file + upper /\ second = 4 * lower + m
    <3>1. d + 64 + 2 * file + upper \in Nat
      OBVIOUS
    <3>2. 4 * lower + m \in Nat
      OBVIOUS
    <3> QED BY <3>1, <3>2
  <2>4. /\ (first % 64) \div 2 = file /\ first % 128 >= 64 /\ first % 2 = upper
        /\ first >= 128 <=> d = 128
    BY <2>3
  <2>5. second % 4 = m /\ second \div 4 = lower
    BY <2>3
  <2>6. 64 * upper + lower = place
    BY <2>1
  <2>7. op = IF d = 128 THEN <<"write", "modify8", "modify16", "modify32">>[m + 1] ELSE "read"
    <3>1. \/ op = "read" /\ d = 0 /\ m = 0
          \/ op = "write" /\ d = 128 /\ m = 0
          \/ op = "modify8" /\ d = 128 /\ m = 1
          \/ op = "modify16" /\ d = 128 /\ m = 2
          \/ op = "modify32" /\ d = 128 /\ m = 3
      BY <1>3 DEF Spi!ModeBits, Spi!Direction, Spi!Modes
    <3> QED BY <3>1
  <2>8. Spi!Decoded(<<first, second>>) =
          Spi!Access(IF d = 128 THEN <<"write", "modify8", "modify16", "modify32">>[m + 1] ELSE "read",
                     file, place)
    BY <2>4, <2>5, <2>6 DEF Spi!Decoded
  <2> QED BY <1>1, <2>2, <2>3, <2>7, <2>8
<1> QED BY <1>4, <1>5

(* ... or the command.                                                     *)
LEMMA CommandReaches ==
  ASSUME NEW cmd \in 0 .. 19
  PROVE  Spi!Decoded(Spi!Header("write", 0, cmd, 0, 0)) = Spi!Command(cmd)
<1>1. Spi!Header("write", 0, cmd, 0, 0) = <<128 + 2 * cmd + 1>>
  BY DEF Spi!Header
<1>2. PICK first \in 0 .. 255 : first = 128 + 2 * cmd + 1
  OBVIOUS
<1>3. (first % 64) \div 2 = cmd /\ ~(first % 128 >= 64) /\ first % 2 = 1 /\ first >= 128
  BY <1>2
<1>4. Spi!Decoded(<<first>>) = Spi!Command(cmd)
  BY <1>3 DEF Spi!Decoded
<1> QED BY <1>1, <1>2, <1>4

(* Whatever the header, the chip reads a file of 5 bits in it.             *)
LEMMA DecodedFile ==
  ASSUME NEW header, header[1] \in Int
  PROVE  Spi!Decoded(header).file \in 0 .. 31
<1>1. PICK file \in 0 .. 31 : file = (header[1] % 64) \div 2
  OBVIOUS
<1> QED BY <1>1 DEF Spi!Decoded, Spi!Access, Spi!Command

(* spiSelect of the port makes so many accesses.                           *)
PortAccess == [op : {"read", "write"}, file : Nat, off : Nat]

(* The accesses of DW1000::select(), one after the other.                  *)
LEMMA SelectIs == Spi!SpiSelect \in Seq(PortAccess) /\ Len(Spi!SpiSelect) \in Nat
<1>1. \A reg, sub \in Nat : Spi!R(reg, sub) \in PortAccess /\ Spi!W(reg, sub) \in PortAccess
  BY DEF Spi!R, Spi!W, Spi!Access, PortAccess
<1>2. Spi!EnableClock \in Seq(PortAccess)
  BY <1>1 DEF Spi!EnableClock, Spi!PMSC
<1>3. Spi!Idle \in Seq(PortAccess)
  BY <1>1 DEF Spi!Idle, Spi!SYS_CTRL, Spi!NO_SUB
<1>4. Spi!Reset \in Seq(PortAccess)
  BY <1>3 DEF Spi!Reset
<1>5. Spi!ReadBytesOtp \in Seq(PortAccess)
  BY <1>1 DEF Spi!ReadBytesOtp, Spi!OTP_IF
<1>6. Spi!ManageLde \in Seq(PortAccess)
  <2>1. <<Spi!R(54, 0), Spi!R(45, 6), Spi!W(54, 0), Spi!W(45, 6), Spi!W(54, 0)>> \in Seq(PortAccess)
    BY <1>1
  <2> QED BY <1>5, <2>1 DEF Spi!ManageLde, Spi!OTP_IF, Spi!PMSC
<1>7. <<Spi!W(3, 255), Spi!W(4, 255), Spi!W(14, 255)>> \in Seq(PortAccess)
  BY <1>1
<1>8. Spi!SpiSelect \in Seq(PortAccess)
  BY <1>2, <1>4, <1>5, <1>6, <1>7 DEF Spi!SpiSelect, Spi!PANADR, Spi!SYS_CFG, Spi!SYS_MASK, Spi!NO_SUB
<1> QED BY <1>8

(* The octets of a number put together of bits are these bits.             *)
LEMMA WeightIs == Spi!Weight(0) = 1 /\ Spi!Weight(1) = 2 /\ Spi!Weight(2) = 4 /\ Spi!Weight(3) = 8
BY DEF Spi!Weight

(* A value of four bits is given back bit by bit.                          *)
LEMMA SumOctet ==
  ASSUME NEW B
  PROVE  /\ Spi!Sum(B) \in 0 .. 15
         /\ \A i \in 0 .. 3 : Spi!Octet(Spi!Sum(B), i) = IF i \in B THEN 1 ELSE 0
<1>1. PICK a, b, c, d \in {0, 1} :
        /\ a = IF 0 \in B THEN 1 ELSE 0
        /\ b = IF 1 \in B THEN 1 ELSE 0
        /\ c = IF 2 \in B THEN 1 ELSE 0
        /\ d = IF 3 \in B THEN 1 ELSE 0
  OBVIOUS
<1>2. Spi!Sum(B) = a + 2 * b + 4 * c + 8 * d
  BY <1>1, WeightIs DEF Spi!Sum
<1>3. PICK s \in 0 .. 15 : s = a + 2 * b + 4 * c + 8 * d
  OBVIOUS
<1>4. (s \div 1) % 2 = a /\ (s \div 2) % 2 = b /\ (s \div 4) % 2 = c /\ (s \div 8) % 2 = d
  BY <1>3
<1>5. \A i \in 0 .. 3 : i = 0 \/ i = 1 \/ i = 2 \/ i = 3
  OBVIOUS
<1>6. \A i \in 0 .. 3 : Spi!Octet(s, i) = IF i \in B THEN 1 ELSE 0
  BY <1>1, <1>4, <1>5, WeightIs DEF Spi!Octet
<1> QED BY <1>2, <1>3, <1>6

(* A bit of a value is 0 or 1, ...                                         *)
LEMMA OctetIs ==
  ASSUME NEW v \in Nat, NEW i \in 0 .. 3
  PROVE  Spi!Octet(v, i) \in 0 .. 1
<1>1. i = 0 \/ i = 1 \/ i = 2 \/ i = 3
  OBVIOUS
<1>2. \A x \in Nat : x % 2 \in 0 .. 1
  OBVIOUS
<1>3. v \div 1 \in Nat /\ v \div 2 \in Nat /\ v \div 4 \in Nat /\ v \div 8 \in Nat
  OBVIOUS
<1> QED BY <1>1, <1>2, <1>3, WeightIs DEF Spi!Octet

(* ... the bits sent of a value are its own, as many as were asked, ...    *)
LEMMA OctetsAre ==
  ASSUME NEW v \in Nat, NEW n \in {1, 2, 4}
  PROVE  /\ Spi!Octets(v, n) \in Seq(Nat) /\ Len(Spi!Octets(v, n)) = n
         /\ \A k \in 1 .. n : Spi!Octets(v, n)[k] = Spi!Octet(v, k - 1)
<1>1. \A k \in 1 .. n : Spi!Octet(v, k - 1) \in 0 .. 1
  <2> TAKE k \in 1 .. n
  <2>1. k - 1 \in 0 .. 3
    OBVIOUS
  <2> QED BY <2>1, OctetIs
<1>2. Spi!Octets(v, n) \in [1 .. n -> Nat]
  BY <1>1 DEF Spi!Octets
<1>3. Spi!Octets(v, n) \in Seq(Nat) /\ Len(Spi!Octets(v, n)) = n
  BY <1>2
<1> QED BY <1>3 DEF Spi!Octets

(* ... each at its place.                                                  *)
LEMMA OctetAt ==
  ASSUME NEW v \in Nat, NEW n \in {1, 2, 4}, NEW k \in Nat, 1 <= k, k <= n
  PROVE  Spi!Octets(v, n)[k] = Spi!Octet(v, k - 1)
BY DEF Spi!Octets

(* The values of the registers are those their callers have made of them,  *)
(* and every access reaches what its caller means.                         *)
Held ==
  /\ mem \in [0 .. Cells - 1 -> 0 .. 1] /\ word = mem
  /\ got.read \in 0 .. 15 /\ got.was = got.read
Pointed == indirect.file \in Spi!Files /\ indirect.off \in 0 .. 1024
Attained == seen.file \in Spi!Files /\ Spi!Reaches
Reached ==
  /\ Pointed /\ Attained
  /\ bare \in BOOLEAN /\ crc \in BOOLEAN
  /\ step \in 1 .. Len(Spi!SpiSelect) + 1
SpiInv == Held /\ Reached

(* An access of the driver whose header names the access its caller means. *)
LEMMA ReachedBy ==
  ASSUME NEW op, NEW file \in 0 .. 31, NEW place \in Nat,
         asked' = Spi!Access(op, file, place), seen' = asked'
  PROVE  Attained'
<1>1. seen'.file = file
  BY DEF Spi!Access
<1> QED BY <1>1 DEF Attained, Spi!Reaches, Spi!Files

(* Nothing is asked, and nothing seen.                                     *)
LEMMA NothingReached ==
  ASSUME asked' = Spi!Nothing, seen' = Spi!Nothing
  PROVE  Attained'
<1>1. seen'.file = 0
  BY DEF Spi!Nothing, Spi!Access
<1> QED BY <1>1 DEF Attained, Spi!Reaches, Spi!Files

(* At the start nothing has been reached and all is 0.                     *)
LEMMA SpiInit == Spi!Init => SpiInv
<1> SUFFICES ASSUME Spi!Init
             PROVE  SpiInv
  OBVIOUS
<1>1. mem \in [0 .. Cells - 1 -> 0 .. 1] /\ word = mem
  BY DEF Spi!Init
<1>2. got.read = 0 /\ got.was = 0 /\ indirect.file = 0 /\ indirect.off = 0
  BY DEF Spi!Init
<1>3. seen = Spi!Nothing /\ seen.file = 0 /\ asked = seen /\ bare = FALSE /\ crc = FALSE /\ step = 1
  BY DEF Spi!Init, Spi!Nothing, Spi!Access
<1>4. step \in 1 .. Len(Spi!SpiSelect) + 1
  BY <1>3, SelectIs
<1>5. Held
  BY <1>1, <1>2 DEF Held
<1>6. Spi!Reaches
  BY <1>3 DEF Spi!Reaches
<1>7. Reached
  <2>1. Pointed
    BY <1>2 DEF Pointed, Spi!Files
  <2>2. Attained
    BY <1>3, <1>6 DEF Attained, Spi!Files
  <2>3. bare \in BOOLEAN /\ crc \in BOOLEAN
    BY <1>3
  <2> QED BY <1>4, <2>1, <2>2, <2>3 DEF Reached
<1> QED BY <1>5, <1>7 DEF SpiInv

(* spiSelect of the port: no access of the driver.                         *)
LEMMA SelectKeeps ==
  ASSUME SpiInv, Spi!SelectStep
  PROVE  SpiInv'
<1>1. /\ step <= Len(Spi!SpiSelect) /\ step' = step + 1
      /\ UNCHANGED <<mem, word, got, indirect, bare, crc>>
  BY DEF Spi!SelectStep, Spi!Contents
<1>2. PICK a : a = Spi!SpiSelect[step]
  OBVIOUS
<1>3. asked' = [a EXCEPT !.op = "port"] /\ seen' = Spi!Decoded(Spi!PortHeader(a))
  BY <1>2 DEF Spi!SelectStep
<1>4. a \in PortAccess
  BY <1>1, <1>2, SelectIs DEF SpiInv, Reached
<1>5. asked'.op = "port"
  BY <1>3, <1>4 DEF PortAccess
<1>6. Spi!PortHeader(a)[1] \in Int
  <2>1. Spi!Direction(a.op) \in Int /\ a.file \in Int
    BY <1>4 DEF PortAccess, Spi!Direction
  <2> QED BY <2>1 DEF Spi!PortHeader
<1>7. seen'.file \in Spi!Files
  BY <1>3, <1>6, DecodedFile DEF Spi!Files
<1>8. step' \in 1 .. Len(Spi!SpiSelect) + 1
  BY <1>1, SelectIs DEF SpiInv, Reached
<1>9. Held'
  BY <1>1 DEF SpiInv, Held
<1>10. Attained'
  BY <1>5, <1>7 DEF Attained, Spi!Reaches
<1>11. Pointed'
  BY <1>1 DEF SpiInv, Reached, Pointed
<1> QED BY <1>1, <1>8, <1>9, <1>10, <1>11 DEF SpiInv, Reached

(* A register is read, written or modified.                                *)
LEMMA AccessKeeps ==
  ASSUME SpiInv, Spi!AccessRegister
  PROVE  SpiInv'
<1>1. PICK op \in Spi!Modes, file \in Registers, base \in BaseOffsets, index \in Indexes :
        /\ base + index <= 127
        /\ asked' = Spi!Access(op, file, base + index)
        /\ seen' = Spi!Resolved(Spi!Decoded(Spi!Header(op, file, base, index, 1)), indirect)
        /\ bare' = (bare \/ (crc /\ op # "read"))
        /\ UNCHANGED <<mem, word, got, indirect, crc, step>>
  BY DEF Spi!AccessRegister, Spi!Transfer, Spi!Contents, Spi!DirectMax
<1>2. file \in 0 .. 31 /\ file # 29 /\ base \in Nat /\ index \in Nat
  BY SpiFacts
<1>3. Spi!Decoded(Spi!Header(op, file, base, index, 1)) = Spi!Access(op, file, base + index)
  <2>1. 1 \in Nat /\ 1 > 0 /\ base + index <= 127
    BY <1>1
  <2> QED BY <1>2, <2>1, HeaderReaches, Zenon
<1>4. Spi!Access(op, file, base + index).file = file
  BY DEF Spi!Access
<1>5. seen' = asked'
  BY <1>1, <1>2, <1>3, <1>4 DEF Spi!Resolved, Spi!PointerA
<1>6. Attained'
  <2>1. base + index \in Nat /\ asked' = Spi!Access(op, file, base + index)
    BY <1>1, <1>2
  <2> QED BY <1>2, <1>5, <2>1, ReachedBy
<1>7. bare' \in BOOLEAN
  BY <1>1
<1>8. Held'
  BY <1>1 DEF SpiInv, Held
<1> QED BY <1>1, <1>6, <1>7, <1>8 DEF SpiInv, Reached, Pointed

(* A fast command.                                                         *)
LEMMA CommandKeeps ==
  ASSUME SpiInv, Spi!FastCommand
  PROVE  SpiInv'
<1>1. PICK cmd \in 0 .. 19 :
        /\ asked' = Spi!Command(cmd)
        /\ seen' = Spi!Resolved(Spi!Decoded(Spi!Header("write", 0, cmd, 0, 0)), indirect)
        /\ UNCHANGED <<mem, word, got, indirect, bare, crc, step>>
  BY DEF Spi!FastCommand, Spi!Transfer, Spi!Contents
<1>2. Spi!Command(cmd).op = "command" /\ Spi!Command(cmd).file = cmd
  BY DEF Spi!Command
<1>3. seen' = asked'
  BY <1>1, <1>2, CommandReaches DEF Spi!Resolved
<1>4. Attained'
  BY <1>1, <1>2, <1>3 DEF Attained, Spi!Files, Spi!Reaches
<1>5. Held'
  BY <1>1 DEF SpiInv, Held
<1> QED BY <1>1, <1>4, <1>5 DEF SpiInv, Reached, Pointed

(* A place in a buffer, by its offset or through the pointer.              *)
LEMMA BufferReaches ==
  ASSUME SpiInv, NEW op \in Spi!Modes, NEW file \in Nat, file <= 28, NEW place \in Nat,
         place <= 1024, NEW len \in Nat, len > 0, Spi!Buffer(op, file, place, len)
  PROVE  Attained' /\ Pointed'
<1>1. asked' = Spi!Access(op, file, place)
  BY DEF Spi!Buffer
<1>2. file \in 0 .. 31 /\ file # 29 /\ op # "command"
  BY DEF Spi!Modes
<1>3. CASE place <= 127
  <2>1. /\ indirect' = indirect
        /\ seen' = Spi!Resolved(Spi!Decoded(Spi!Header(op, file, 0, place, len)), indirect')
    BY <1>3 DEF Spi!Buffer, Spi!Transfer, Spi!DirectMax
  <2>2. Spi!Decoded(Spi!Header(op, file, 0, place, len)) = Spi!Access(op, file, 0 + place)
    <3>1. 0 \in Nat /\ place \in Nat /\ 0 + place <= 127 /\ len \in Nat /\ len > 0
      BY <1>3
    <3> QED BY <1>2, <3>1, HeaderReaches, ZenonT(60)
  <2>3. Spi!Access(op, file, place).file = file
    BY DEF Spi!Access
  <2>4. seen' = asked'
    BY <1>1, <1>2, <2>1, <2>2, <2>3 DEF Spi!Resolved, Spi!PointerA
  <2>5. Attained'
    <3>1. place \in Nat
      OBVIOUS
    <3> QED BY <1>1, <1>2, <2>4, <3>1, ReachedBy
  <2>6. Pointed'
    BY <2>1 DEF SpiInv, Reached, Pointed
  <2> QED BY <2>5, <2>6
<1>4. CASE ~(place <= 127)
  <2>1. /\ indirect' = [file |-> file, off |-> place]
        /\ seen' = Spi!Resolved(Spi!Decoded(Spi!Header(op, 29, 0, 0, len)), indirect')
    BY <1>4 DEF Spi!Buffer, Spi!Transfer, Spi!DirectMax, Spi!PointerA
  <2>2. indirect'.file = file /\ indirect'.off = place
    BY <2>1
  <2>3. Spi!Decoded(Spi!Header(op, 29, 0, 0, len)) = Spi!Access(op, 29, 0)
    <3>1. ASSUME NEW f \in 0 .. 31
          PROVE  Spi!Decoded(Spi!Header(op, f, 0, 0, len)) = Spi!Access(op, f, 0)
      <4>1. 0 \in Nat /\ 0 + 0 <= 127 /\ len \in Nat /\ len > 0 /\ 0 + 0 = 0
        OBVIOUS
      <4>2. Spi!Decoded(Spi!Header(op, f, 0, 0, len)) = Spi!Access(op, f, 0 + 0)
        BY <4>1, HeaderReaches, ZenonT(60)
      <4> QED BY <4>1, <4>2
    <3> QED BY <3>1
  <2>4. /\ Spi!Access(op, 29, 0).op = op /\ Spi!Access(op, 29, 0).file = 29
        /\ Spi!Access(op, 29, 0).off = 0
    BY DEF Spi!Access
  <2>5. seen' = Spi!Access(op, file, place + 0)
    BY <1>2, <2>1, <2>2, <2>3, <2>4 DEF Spi!Resolved, Spi!PointerA
  <2>6. seen' = asked'
    BY <1>1, <2>5
  <2>7. place \in Nat
    OBVIOUS
  <2>8. Attained'
    BY <1>1, <1>2, <2>6, <2>7, ReachedBy
  <2>9. Pointed'
    BY <1>2, <2>2 DEF Pointed, Spi!Files
  <2> QED BY <2>8, <2>9
<1> QED BY <1>3, <1>4

(* Data for the transmitter, ...                                           *)
LEMMA WriteTxKeeps ==
  ASSUME SpiInv, Spi!WriteTxData
  PROVE  SpiInv'
<1>1. PICK place \in BufferOffsets, len \in {1, 12, 1022} :
        /\ IF place + len < 1024 THEN Spi!Buffer("write", 20, place, len) ELSE Spi!Refused
        /\ bare' = (bare \/ (crc /\ asked' # Spi!Nothing))
        /\ UNCHANGED <<mem, word, got, crc, step>>
  BY DEF Spi!WriteTxData, Spi!Contents, Spi!TxBufferMax, Spi!TxBuffer
<1>2. Attained' /\ Pointed'
  <2>1. CASE place + len < 1024
    <3>1. place \in Nat /\ place <= 1024
      BY <2>1, SpiFacts
    <3>2. Spi!Buffer("write", 20, place, len)
      BY <1>1, <2>1
    <3>3. "write" \in Spi!Modes /\ 20 \in Nat /\ 20 <= 28 /\ len \in Nat /\ len > 0
      BY DEF Spi!Modes
    <3> QED BY <3>1, <3>2, <3>3, BufferReaches
  <2>2. CASE ~(place + len < 1024)
    BY <1>1, <2>2, NothingReached DEF Spi!Refused, SpiInv, Reached, Pointed
  <2> QED BY <2>1, <2>2
<1>3. bare' \in BOOLEAN
  BY <1>1
<1>4. Held'
  BY <1>1 DEF SpiInv, Held
<1> QED BY <1>1, <1>2, <1>3, <1>4 DEF SpiInv, Reached

(* ... and from the receiver.                                              *)
LEMMA ReadRxKeeps ==
  ASSUME SpiInv, Spi!ReadRxData
  PROVE  SpiInv'
<1>1. PICK place \in BufferOffsets, len \in {1, 12, 1022}, file \in {18, 19} :
        /\ IF place + len <= 1023 THEN Spi!Buffer("read", file, place, len) ELSE Spi!Refused
        /\ UNCHANGED <<mem, word, got, bare, crc, step>>
  BY DEF Spi!ReadRxData, Spi!Contents, Spi!RxBufferMax, Spi!RxBuffer0, Spi!RxBuffer1
<1>2. Attained' /\ Pointed'
  <2>1. CASE place + len <= 1023
    <3>1. place \in Nat /\ place <= 1024
      BY <2>1, SpiFacts
    <3>2. Spi!Buffer("read", file, place, len)
      BY <1>1, <2>1
    <3>3. "read" \in Spi!Modes /\ file \in Nat /\ file <= 28 /\ len \in Nat /\ len > 0
      BY DEF Spi!Modes
    <3> QED BY <3>1, <3>2, <3>3, BufferReaches
  <2>2. CASE ~(place + len <= 1023)
    BY <1>1, <2>2, NothingReached DEF Spi!Refused, SpiInv, Reached, Pointed
  <2> QED BY <2>1, <2>2
<1>3. Held'
  BY <1>1 DEF SpiInv, Held
<1> QED BY <1>1, <1>2, <1>3 DEF SpiInv, Reached

(* The check on the SPI.                                                   *)
LEMMA CrcKeeps ==
  ASSUME SpiInv, Spi!EnableCrc
  PROVE  SpiInv'
<1>1. /\ crc' \in BOOLEAN /\ asked' = Spi!Nothing /\ seen' = Spi!Nothing
      /\ UNCHANGED <<mem, word, got, indirect, bare, step>>
  BY DEF Spi!EnableCrc, Spi!Contents
<1>2. Held'
  BY <1>1 DEF SpiInv, Held
<1> QED BY <1>1, <1>2, NothingReached DEF SpiInv, Reached, Pointed

(* An access to values reaches nothing else.                               *)
LEMMA NoAccessKeeps ==
  ASSUME SpiInv, Spi!NoAccess
  PROVE  Reached'
BY NothingReached DEF SpiInv, Reached, Spi!NoAccess, Pointed

(* A value is read.                                                        *)
LEMMA ReadValueKeeps ==
  ASSUME SpiInv, Spi!ReadValue
  PROVE  SpiInv'
<1>1. PICK n \in {1, 2, 4} : \E place \in Spi!Places(n) :
        /\ got' = [read |-> Spi!Value(mem, place, n), was |-> Spi!Value(word, place, n)]
        /\ UNCHANGED <<mem, word>> /\ Spi!NoAccess
  BY DEF Spi!ReadValue
<1>2. PICK place \in Spi!Places(n) :
        /\ got' = [read |-> Spi!Value(mem, place, n), was |-> Spi!Value(word, place, n)]
        /\ UNCHANGED <<mem, word>> /\ Spi!NoAccess
  BY <1>1
<1>3. Spi!Value(mem, place, n) \in 0 .. 15
  BY SumOctet DEF Spi!Value
<1>4. got'.read = Spi!Value(mem, place, n) /\ got'.was = Spi!Value(word, place, n)
  BY <1>2
<1>5. word = mem
  BY DEF SpiInv, Held
<1>6. Held'
  BY <1>2, <1>3, <1>4, <1>5 DEF SpiInv, Held
<1> QED BY <1>2, <1>6, NoAccessKeeps DEF SpiInv

(* A value is written.                                                     *)
LEMMA WriteValueKeeps ==
  ASSUME SpiInv, Spi!WriteValue
  PROVE  SpiInv'
<1>1. PICK n \in {1, 2, 4} : \E place \in Spi!Places(n), v \in 0 .. 2^n - 1 :
        /\ mem' = Spi!Written(place, Spi!Octets(v, n))
        /\ Spi!Becomes(place, n, v)
        /\ UNCHANGED got /\ Spi!NoAccess
  BY DEF Spi!WriteValue
<1>2. PICK place \in Spi!Places(n), v \in 0 .. 2^n - 1 :
        /\ mem' = Spi!Written(place, Spi!Octets(v, n))
        /\ Spi!Becomes(place, n, v)
        /\ UNCHANGED got /\ Spi!NoAccess
  BY <1>1
<1>3. v \in Nat /\ place \in Int
  BY SpiFacts DEF Spi!Places
<1>4. mem \in [0 .. Cells - 1 -> 0 .. 1] /\ word = mem
  BY DEF SpiInv, Held
<1>5. mem' = [c \in 0 .. Cells - 1 |-> IF c - place \in 0 .. n - 1 THEN Spi!Octet(v, c - place) ELSE mem[c]]
  <2>1. DOMAIN mem = 0 .. Cells - 1 /\ Len(Spi!Octets(v, n)) = n
    BY <1>3, <1>4, OctetsAre
  <2>2. mem' = [c \in 0 .. Cells - 1 |->
                  IF c - place \in 0 .. n - 1 THEN Spi!Octets(v, n)[c - place + 1] ELSE mem[c]]
    BY <1>2, <2>1 DEF Spi!Written
  <2>3. ASSUME NEW c \in 0 .. Cells - 1, c - place \in 0 .. n - 1
        PROVE  Spi!Octets(v, n)[c - place + 1] = Spi!Octet(v, c - place)
    <3>1. c - place + 1 \in 1 .. n /\ (c - place + 1) - 1 = c - place
      BY <1>3, <2>3, SpiFacts
    <3>2. Spi!Octets(v, n)[c - place + 1] = Spi!Octet(v, (c - place + 1) - 1)
      BY <1>3, <3>1, OctetsAre
    <3> QED BY <3>1, <3>2
  <2> QED BY <2>2, <2>3
<1>6. word' = mem'
  BY <1>2, <1>4, <1>5 DEF Spi!Becomes
<1>7. mem' \in [0 .. Cells - 1 -> 0 .. 1]
  <2>1. ASSUME NEW c \in 0 .. Cells - 1, c - place \in 0 .. n - 1
        PROVE  Spi!Octet(v, c - place) \in 0 .. 1
    <3>1. c - place \in 0 .. 3
      BY <1>3, <2>1, SpiFacts
    <3> QED BY <1>3, <3>1, OctetIs
  <2> QED BY <1>4, <1>5, <2>1
<1>8. Held'
  BY <1>2, <1>6, <1>7 DEF SpiInv, Held
<1> QED BY <1>2, <1>8, NoAccessKeeps DEF SpiInv

(* A value is modified: every bit outside the mask keeps its value.        *)
LEMMA ModifyValueKeeps ==
  ASSUME SpiInv, Spi!ModifyValue
  PROVE  SpiInv'
<1>1. PICK n \in {1, 2, 4} : \E place \in Spi!Places(n), field \in SUBSET (0 .. n - 1), v \in 0 .. 2^n - 1 :
        LET or == Spi!Sum({i \in field : Spi!Octet(v, i) = 1}) IN
        /\ mem' = Spi!Modified(place, Spi!Masks(n, Spi!Sum((0 .. n - 1) \ field), or))
        /\ Spi!Becomes(place, n, Spi!Sum({i \in 0 .. n - 1 : IF i \in field THEN Spi!Octet(v, i) = 1
                                                         ELSE word[place + i] = 1}))
        /\ UNCHANGED got /\ Spi!NoAccess
  BY DEF Spi!ModifyValue
<1>2. PICK place \in Spi!Places(n), field \in SUBSET (0 .. n - 1), v \in 0 .. 2^n - 1 :
        /\ mem' = Spi!Modified(place, Spi!Masks(n, Spi!Sum((0 .. n - 1) \ field),
                                                Spi!Sum({i \in field : Spi!Octet(v, i) = 1})))
        /\ Spi!Becomes(place, n, Spi!Sum({i \in 0 .. n - 1 : IF i \in field THEN Spi!Octet(v, i) = 1
                                                         ELSE word[place + i] = 1}))
        /\ UNCHANGED got /\ Spi!NoAccess
  BY <1>1
<1>3. PICK kept, set, bits :
        /\ kept = (0 .. n - 1) \ field
        /\ set = {i \in field : Spi!Octet(v, i) = 1}
        /\ bits = {i \in 0 .. n - 1 : IF i \in field THEN Spi!Octet(v, i) = 1 ELSE word[place + i] = 1}
  OBVIOUS
<1>4. PICK and, or, whole \in Nat :
        and = Spi!Sum(kept) /\ or = Spi!Sum(set) /\ whole = Spi!Sum(bits)
  BY SumOctet
<1>5. PICK A, B : A = Spi!Octets(and, n) /\ B = Spi!Octets(or, n)
  OBVIOUS
<1>6. A \in Seq(Nat) /\ B \in Seq(Nat) /\ Len(A) = n /\ Len(B) = n
  BY <1>4, <1>5, OctetsAre
<1>7. mem' = Spi!Modified(place, A \o B) /\ Spi!Becomes(place, n, whole)
  BY <1>2, <1>3, <1>4, <1>5 DEF Spi!Masks
<1>8. mem \in [0 .. Cells - 1 -> 0 .. 1] /\ word = mem /\ place \in Nat
  BY <1>2, SpiFacts DEF SpiInv, Held, Spi!Places
<1>9. word' = [c \in 0 .. Cells - 1 |->
                 IF c - place \in 0 .. n - 1 THEN Spi!Octet(whole, c - place) ELSE mem[c]]
  BY <1>7, <1>8 DEF Spi!Becomes
<1>10. /\ DOMAIN mem' = 0 .. Cells - 1
       /\ \A c \in 0 .. Cells - 1 : ~(c - place \in 0 .. n - 1) => mem'[c] = mem[c]
       /\ \A c \in 0 .. Cells - 1 : c - place \in 0 .. n - 1 =>
            mem'[c] = IF mem[c] * A[c - place + 1] + B[c - place + 1] > 0 THEN 1 ELSE 0
  <2>1. PICK O : O = A \o B
    OBVIOUS
  <2>2. Len(O) = n + n /\ \A k \in 1 .. n : O[k] = A[k] /\ O[n + k] = B[k]
    <3>1. n \in Nat
      OBVIOUS
    <3>2. Len(O) = n + n
      BY <1>6, <2>1, <3>1
    <3>3. ASSUME NEW k \in 1 .. n
          PROVE  O[k] = A[k] /\ O[n + k] = B[k]
      <4>1. k \in 1 .. Len(A) /\ n + k \in Len(A) + 1 .. Len(A) + Len(B)
        BY <1>6, <3>1
      <4>2. O[k] = A[k]
        BY <1>6, <2>1, <4>1
      <4>3. O[n + k] = B[(n + k) - Len(A)]
        BY <1>6, <2>1, <4>1
      <4>4. (n + k) - Len(A) = k
        BY <1>6, <3>1
      <4> QED BY <4>2, <4>3, <4>4
    <3> QED BY <3>2, <3>3
  <2>3. Len(O) \div 2 = n
    BY <2>2
  <2>4. DOMAIN mem = 0 .. Cells - 1
    BY <1>8
  <2>5. mem' =
          [c \in 0 .. Cells - 1 |->
             IF c - place \in 0 .. n - 1
             THEN IF mem[c] * O[c - place + 1] + O[n + c - place + 1] > 0 THEN 1 ELSE 0
             ELSE mem[c]]
    BY <1>7, <2>1, <2>3, <2>4 DEF Spi!Modified
  <2>6. ASSUME NEW c \in 0 .. Cells - 1, c - place \in 0 .. n - 1
        PROVE  O[c - place + 1] = A[c - place + 1] /\ O[n + c - place + 1] = B[c - place + 1]
    <3>1. PICK k \in 1 .. n : k = c - place + 1
      BY <1>8, <2>6, SpiFacts
    <3>2. n + c - place + 1 = n + k
      BY <1>8, <3>1, SpiFacts
    <3> QED BY <2>2, <3>1, <3>2
  <2> QED BY <2>5, <2>6
<1>11. ASSUME NEW c \in 0 .. Cells - 1, c - place \in 0 .. n - 1
       PROVE  mem'[c] = Spi!Octet(whole, c - place) /\ mem'[c] \in {0, 1}
  <2>1. PICK i \in 0 .. 3 : i = c - place /\ i \in 0 .. n - 1 /\ c = place + i /\ c - place + 1 = i + 1
    BY <1>8, <1>11, SpiFacts
  <2>2. A[i + 1] = IF i \in kept THEN 1 ELSE 0
    <3>1. A[i + 1] = Spi!Octet(and, (i + 1) - 1)
        BY <1>4, <1>5, <2>1, OctetAt
    <3>2. (i + 1) - 1 = i
      OBVIOUS
    <3> QED BY <1>4, <3>1, <3>2, SumOctet
  <2>3. B[i + 1] = IF i \in set THEN 1 ELSE 0
    <3>1. B[i + 1] = Spi!Octet(or, (i + 1) - 1)
        BY <1>4, <1>5, <2>1, OctetAt
    <3>2. (i + 1) - 1 = i
      OBVIOUS
    <3> QED BY <1>4, <3>1, <3>2, SumOctet
  <2>4. mem[c] \in {0, 1}
    BY <1>8
  <2>5. i \in set => ~(i \in kept)
    BY <1>3
  <2>6. (IF mem[c] * (IF i \in kept THEN 1 ELSE 0) + (IF i \in set THEN 1 ELSE 0) > 0 THEN 1 ELSE 0)
          = IF i \in set \/ (i \in kept /\ mem[c] = 1) THEN 1 ELSE 0
    <3>1. PICK cell \in {0, 1} : cell = mem[c]
      BY <2>4
    <3>2. CASE cell = 0
      BY <2>5, <3>1, <3>2
    <3>3. CASE cell = 1
      BY <2>5, <3>1, <3>3
    <3> QED BY <3>2, <3>3
  <2>7. mem'[c] = IF i \in set \/ (i \in kept /\ mem[c] = 1) THEN 1 ELSE 0
    BY <1>10, <1>11, <2>1, <2>2, <2>3, <2>6
  <2>8. i \in bits <=> i \in set \/ (i \in kept /\ mem[c] = 1)
    BY <1>3, <1>8, <2>1
  <2>9. Spi!Octet(whole, i) = IF i \in bits THEN 1 ELSE 0
    BY <1>4, SumOctet
  <2> QED BY <2>1, <2>7, <2>8, <2>9
<1>12. mem' = [c \in 0 .. Cells - 1 |->
                 IF c - place \in 0 .. n - 1 THEN Spi!Octet(whole, c - place) ELSE mem[c]]
  <2>1. mem' = [c \in 0 .. Cells - 1 |-> mem'[c]]
    BY <1>7, <1>8 DEF Spi!Modified
  <2> QED BY <1>10, <1>11, <2>1
<1>13. mem' \in [0 .. Cells - 1 -> 0 .. 1]
  BY <1>8, <1>10, <1>11, <1>12
<1>14. Held'
  BY <1>2, <1>9, <1>12, <1>13 DEF SpiInv, Held
<1> QED BY <1>2, <1>14, NoAccessKeeps DEF SpiInv

(* Every access and every change of a value keeps the invariant, ...       *)
LEMMA SpiStep == SpiInv /\ [Spi!Next]_(Spi!vars) => SpiInv'
<1> SUFFICES ASSUME SpiInv, [Spi!Next]_(Spi!vars)
             PROVE  SpiInv'
  OBVIOUS
<1>1. CASE UNCHANGED Spi!vars
  <2>1. UNCHANGED <<mem, word, got, asked, seen, indirect, crc, bare, step>>
    BY <1>1 DEF Spi!vars
  <2> QED BY <2>1 DEF SpiInv, Held, Reached, Pointed, Attained, Spi!Reaches
<1>2. CASE Spi!NextAccess
  BY <1>2, SelectKeeps, AccessKeeps, CommandKeeps, WriteTxKeeps, ReadRxKeeps, CrcKeeps DEF Spi!NextAccess
<1>3. CASE Spi!NextValue
  BY <1>3, ReadValueKeeps, WriteValueKeeps, ModifyValueKeeps DEF Spi!NextValue
<1> QED BY <1>1, <1>2, <1>3 DEF Spi!Next

(* ... which says what is to hold of headers and of values.                *)
LEMMA SpiHolds == SpiInv => Spi!TypeOK /\ Spi!Reaches /\ Spi!RegisterValues
<1> SUFFICES ASSUME SpiInv
             PROVE  Spi!TypeOK /\ Spi!Reaches /\ Spi!RegisterValues
  OBVIOUS
<1>1. /\ mem \in [0 .. Cells - 1 -> 0 .. 1] /\ word \in [0 .. Cells - 1 -> 0 .. 1]
      /\ got.read \in 0 .. 15 /\ got.was \in 0 .. 15
      /\ mem = word /\ got.read = got.was
  BY DEF SpiInv, Held
<1>2. /\ indirect.file \in Spi!Files /\ indirect.off \in 0 .. Spi!TxBufferMax
      /\ bare \in BOOLEAN /\ crc \in BOOLEAN /\ step \in 1 .. Len(Spi!SpiSelect) + 1
  BY DEF SpiInv, Reached, Pointed, Spi!TxBufferMax
<1>3. seen.file \in Spi!Files /\ Spi!Reaches
  BY DEF SpiInv, Reached, Attained
<1> QED BY <1>1, <1>2, <1>3 DEF Spi!TypeOK, Spi!RegisterValues

(***************************************************************************)
(* The interrupt mask.                                                     *)
(***************************************************************************)

(* What has become of the call that the main loop is in, at each of its    *)
(* places: with interrupts off, the handler sees none of them.             *)
MaskInv ==
  /\ build = "returns" /\ lo \subseteq Lo /\ hi \subseteq Hi
  /\ point \in {"idle", "lo", "hi", "leave"} /\ call \in Section!Calls
  /\ pending \in BOOLEAN
  /\ DOMAIN meant = {"lo", "hi"} /\ meant = [lo |-> meant.lo, hi |-> meant.hi]
  /\ meant.lo \subseteq Lo /\ meant.hi \subseteq Hi
  /\ nested = IF point = "idle" THEN 0 ELSE 1
  /\ lo = IF point \in {"hi", "leave"} THEN Section!Written(call.option, meant.lo, call.lo) ELSE meant.lo
  /\ hi = IF point = "leave" THEN Section!Written(call.option, meant.hi, call.hi) ELSE meant.hi

(* A call, and what it makes of the words.                                 *)
LEMMA CallIs ==
  ASSUME NEW c \in Section!Calls
  PROVE  /\ c.option \in {"only", "enable", "disable"} /\ c.lo \subseteq Lo /\ c.hi \subseteq Hi
         /\ \A w \in SUBSET Lo : Section!Written(c.option, w, c.lo) \in SUBSET Lo
         /\ \A w \in SUBSET Hi : Section!Written(c.option, w, c.hi) \in SUBSET Hi
         /\ \A m : Section!Applied(c, m) =
              [lo |-> Section!Written(c.option, m.lo, c.lo), hi |-> Section!Written(c.option, m.hi, c.hi)]
<1>1. c.option \in {"only", "enable", "disable"} /\ c.lo \subseteq Lo /\ c.hi \subseteq Hi
  BY DEF Section!Calls, Section!Options
<1>2. \A w \in SUBSET Lo : Section!Written(c.option, w, c.lo) \in SUBSET Lo
  BY <1>1 DEF Section!Written
<1>3. \A w \in SUBSET Hi : Section!Written(c.option, w, c.hi) \in SUBSET Hi
  BY <1>1 DEF Section!Written
<1>4. \A m : Section!Applied(c, m) =
        [lo |-> Section!Written(c.option, m.lo, c.lo), hi |-> Section!Written(c.option, m.hi, c.hi)]
  BY <1>1 DEF Section!Applied, Section!Written
<1> QED BY <1>1, <1>2, <1>3, <1>4

(* At the start no interrupt is enabled.                                   *)
LEMMA MaskInit == Section!Init => MaskInv
<1> SUFFICES ASSUME Section!Init
             PROVE  MaskInv
  OBVIOUS
<1>1. /\ build = "returns" /\ lo = {} /\ hi = {} /\ meant = [lo |-> {}, hi |-> {}]
      /\ nested = 0 /\ point = "idle" /\ call \in Section!Calls /\ pending = FALSE
  BY DEF Section!Init
<1> QED BY <1>1 DEF MaskInv

(* Every step of a call, and the handler's calls between them, keep the    *)
(* invariant, ...                                                          *)
LEMMA MaskStep == MaskInv /\ [Section!Next]_(Section!vars) => MaskInv'
<1> SUFFICES ASSUME MaskInv, [Section!Next]_(Section!vars)
             PROVE  MaskInv'
  OBVIOUS
<1>1. CASE UNCHANGED Section!vars
  BY <1>1 DEF MaskInv, Section!vars
<1>2. CASE Section!Enter
  BY <1>2 DEF MaskInv, Section!Enter, Section!decamutexon
<1>3. CASE Section!WriteLo
  <2>1. /\ point = "lo" /\ point' = "hi" /\ lo' = Section!Written(call.option, lo, call.lo)
        /\ UNCHANGED <<build, hi, nested, call, pending, meant>>
    BY <1>3 DEF Section!WriteLo
  <2>2. lo' \subseteq Lo
    BY <2>1, CallIs DEF MaskInv
  <2> QED BY <2>1, <2>2 DEF MaskInv
<1>4. CASE Section!WriteHi
  <2>1. /\ point = "hi" /\ point' = "leave" /\ hi' = Section!Written(call.option, hi, call.hi)
        /\ UNCHANGED <<build, lo, nested, call, pending, meant>>
    BY <1>4 DEF Section!WriteHi
  <2>2. hi' \subseteq Hi
    BY <2>1, CallIs DEF MaskInv
  <2> QED BY <2>1, <2>2 DEF MaskInv
<1>5. CASE Section!Leave
  <2>1. /\ point = "leave" /\ point' = "idle" /\ nested' = 0
        /\ meant' = Section!Applied(call, meant)
        /\ UNCHANGED <<build, lo, hi, call, pending>>
    BY <1>5 DEF Section!Leave, Section!decamutexoff, MaskInv
  <2>2. meant' = [lo |-> lo, hi |-> hi]
    BY <2>1, CallIs DEF MaskInv
  <2> QED BY <2>1, <2>2 DEF MaskInv
<1>6. CASE Section!Event
  BY <1>6 DEF MaskInv, Section!Event
<1>7. CASE Section!Handler
  <2>1. /\ pending' = FALSE /\ point = "idle" /\ UNCHANGED <<build, nested, point, call>>
        /\ lo = meant.lo /\ hi = meant.hi
    BY <1>7 DEF Section!Handler, MaskInv
  <2>2. CASE UNCHANGED <<lo, hi, meant>>
    BY <2>1, <2>2 DEF MaskInv
  <2>3. CASE \E c \in Section!Calls :
               /\ lo' = Section!Written(c.option, lo, c.lo)
               /\ hi' = Section!Written(c.option, hi, c.hi)
               /\ meant' = Section!Applied(c, meant)
    <3>1. PICK c \in Section!Calls :
               /\ lo' = Section!Written(c.option, lo, c.lo)
               /\ hi' = Section!Written(c.option, hi, c.hi)
               /\ meant' = Section!Applied(c, meant)
      BY <2>3
    <3>2. meant' = [lo |-> lo', hi |-> hi'] /\ lo' \subseteq Lo /\ hi' \subseteq Hi
      BY <2>1, <3>1, CallIs DEF MaskInv
    <3> QED BY <2>1, <3>2 DEF MaskInv
  <2> QED BY <1>7, <2>2, <2>3 DEF Section!Handler
<1> QED BY <1>1, <1>2, <1>3, <1>4, <1>5, <1>6, <1>7 DEF Section!Next, Section!Main

(* ... by which the words are what the calls make of them.                 *)
LEMMA MaskHolds == MaskInv => Section!TypeOK /\ Section!MaskAsMeant
<1> SUFFICES ASSUME MaskInv
             PROVE  Section!TypeOK /\ Section!MaskAsMeant
  OBVIOUS
<1>1. meant \in [lo : SUBSET Lo, hi : SUBSET Hi]
  BY DEF MaskInv
<1>2. nested \in 0 .. 1
  BY DEF MaskInv
<1> QED BY <1>1, <1>2 DEF MaskInv, Section!TypeOK, Section!MaskAsMeant

(* By every header the chip carries out the access its caller means, each  *)
(* octet holds what was made of it, and between calls the interrupt mask   *)
(* is what the calls of the main loop and of the handler make of it.       *)
THEOREM RegistersAreAsMeant == Spi!Spec /\ Section!Spec => []RegistersAsMeant
<1>1. (Spi!Init => SpiInv) /\ (SpiInv /\ [Spi!Next]_(Spi!vars) => SpiInv')
  BY SpiInit, SpiStep
<1>2. (Section!Init => MaskInv) /\ (MaskInv /\ [Section!Next]_(Section!vars) => MaskInv')
  BY MaskInit, MaskStep
<1>3. SpiInv /\ MaskInv => RegistersAsMeant
  BY SpiHolds, MaskHolds DEF RegistersAsMeant
<1> QED BY <1>1, <1>2, <1>3, PTL DEF Spi!Spec, Section!Spec

(***************************************************************************)
(* Temperature and voltage.                                                *)
(***************************************************************************)

Chip == {"state", "ms2", "rden", "start", "done", "reading", "wake"}
SensorTypes ==
  /\ references \subseteq Die!Quantity /\ die \in Die!Die /\ mode \subseteq Die!Quantity
  /\ DOMAIN sensor = Chip
  /\ sensor.reading \in Die!Reading /\ sensor.wake \in Die!Reading
  /\ sensor.state \in {"reset", "idle_rc", "idle_pll"}
  /\ {sensor.ms2, sensor.rden, sensor.start, sensor.done} \subseteq BOOLEAN
  /\ refs = Die!None \/ refs \in [Die!Quantity -> {Reference, 116, 133}]
  /\ busy \in {"idle", "wait"} /\ during \subseteq Die!Die /\ others \in BOOLEAN

(* While the function waits, what a finished conversion has given is of    *)
(* the time since it began; between calls nothing is on; and the registers *)
(* hold what the die was at the last wake-up, until a call converts.       *)
Working ==
  /\ busy = "idle" => ~sensor.ms2 /\ ~sensor.rden /\ ~sensor.start /\ ~sensor.done
  /\ busy = "wait" => /\ sensor.ms2 /\ sensor.rden /\ sensor.start /\ die \in during
                      /\ sensor.done => sensor.reading \in during
  /\ busy = "wait" => others
  /\ since # Die!None /\ ~others => sensor.reading = since.die

(* Nothing is told before dwt_initialise, which sets the references.       *)
Referenced ==
  /\ refs = Die!None <=> sensor.state = "reset"
  /\ refs = Die!None => busy = "idle"
  /\ sensor.state = "reset" => ret = Die!None /\ since = Die!None

Told == Die!IsCurrent /\ Die!AtWakeup

SensorInv == SensorTypes /\ Working /\ Referenced /\ Told

(* What Told says depends on these alone.                                  *)
LEMMA ToldStays ==
  ASSUME Told, ret' = Die!None \/ UNCHANGED <<ret, since, others>>
  PROVE  Told'
<1>1. CASE ret' = Die!None
  BY <1>1 DEF Told, Die!IsCurrent, Die!AtWakeup, Die!None
<1>2. CASE UNCHANGED <<ret, since, others>>
  BY <1>2 DEF Told, Die!IsCurrent, Die!AtWakeup, Die!None
<1> QED BY <1>1, <1>2

(* What a conversion gives is a reading.                                   *)
LEMMA SensorFacts ==
  /\ Die!Die \subseteq Die!Reading
  /\ \A d \in Die!Die : [d EXCEPT !.temp = @] = d /\ DOMAIN d = {"temp", "volt"}
<1>1. Die!Die \subseteq Die!Reading
  BY DEF Die!Die, Die!Reading
<1>2. \A d \in Die!Die : [d EXCEPT !.temp = @] = d /\ DOMAIN d = {"temp", "volt"}
  BY DEF Die!Die, Die!Quantity
<1> QED BY <1>1, <1>2

(* At the start nothing has been measured.                                 *)
LEMMA SensorInit == Die!Init => SensorInv
<1> SUFFICES ASSUME Die!Init
             PROVE  SensorInv
  OBVIOUS
<1>1. /\ references \subseteq Die!Quantity /\ die \in Die!Die /\ refs = Die!None /\ mode = {}
      /\ busy = "idle" /\ during = {} /\ since = Die!None /\ others = FALSE /\ ret = Die!None
  BY DEF Die!Init
<1>2. sensor = [state |-> "reset", ms2 |-> FALSE, rden |-> FALSE, start |-> FALSE,
                done |-> FALSE, reading |-> Die!NoReading, wake |-> Die!NoReading]
  BY DEF Die!Init
<1>3. /\ sensor.state = "reset" /\ sensor.ms2 = FALSE /\ sensor.rden = FALSE
      /\ sensor.start = FALSE /\ sensor.done = FALSE
      /\ sensor.reading = Die!NoReading /\ sensor.wake = Die!NoReading /\ DOMAIN sensor = Chip
  BY <1>2 DEF Chip
<1>4. Die!NoReading \in Die!Reading
  BY DEF Die!NoReading, Die!Reading
<1>5. SensorTypes
  BY <1>1, <1>3, <1>4 DEF SensorTypes
<1>6. Working /\ Referenced
  BY <1>1, <1>3 DEF Working, Referenced
<1>7. Told
  BY <1>1 DEF Told, Die!IsCurrent, Die!AtWakeup
<1> QED BY <1>5, <1>6, <1>7 DEF SensorInv

(* The die.                                                                *)
LEMMA DriftKeeps ==
  ASSUME SensorInv, Die!Drift
  PROVE  SensorInv'
<1>1. /\ die' \in Die!Die /\ during' = IF busy = "idle" THEN {} ELSE during \cup {die'}
      /\ UNCHANGED <<references, sensor, refs, mode, busy, since, others, ret>>
  BY DEF Die!Drift
<1>2. SensorTypes'
  BY <1>1 DEF SensorInv, SensorTypes
<1>3. Working'
  BY <1>1 DEF SensorInv, SensorTypes, Working
<1>4. Referenced' /\ Told'
  BY <1>1, ToldStays DEF SensorInv, Referenced
<1> QED BY <1>2, <1>3, <1>4 DEF SensorInv

(* A conversion ends: the sensor is on, so it gives both.                  *)
LEMMA ConvertKeeps ==
  ASSUME SensorInv, Die!Convert
  PROVE  SensorInv'
<1>1. /\ sensor.start /\ ~sensor.done
      /\ UNCHANGED <<references, die, refs, mode, busy, during, since, others, ret>>
  BY DEF Die!Convert
<1>2. busy = "wait" /\ sensor.rden
  BY <1>1 DEF SensorInv, SensorTypes, Working
<1>3. PICK s, d, v : s = sensor /\ d = die /\ v = TRUE
  OBVIOUS
<1>4. sensor' = [s EXCEPT !.done = v, !.reading = d]
  <2>1. sensor' = [sensor EXCEPT !.done = TRUE,
                     !.reading = [die EXCEPT !.temp = IF sensor.rden THEN @ ELSE 0]]
    BY DEF Die!Convert
  <2>2. [die EXCEPT !.temp = IF sensor.rden THEN @ ELSE 0] = die
    BY <1>2, SensorFacts DEF SensorInv, SensorTypes
  <2> QED BY <1>3, <2>1, <2>2
<1>5. /\ DOMAIN sensor' = Chip /\ sensor'.done = v /\ sensor'.reading = d
      /\ \A x \in Chip \ {"done", "reading"} : sensor'[x] = sensor[x]
  BY <1>3, <1>4 DEF SensorInv, SensorTypes, Chip
<1>6. /\ sensor'.state = sensor.state /\ sensor'.ms2 = sensor.ms2 /\ sensor'.rden = sensor.rden
      /\ sensor'.start = sensor.start /\ sensor'.wake = sensor.wake
  BY <1>5 DEF Chip
<1>7. d \in Die!Reading /\ d \in during
  BY <1>2, <1>3, SensorFacts DEF SensorInv, SensorTypes, Working
<1>8. SensorTypes'
  BY <1>1, <1>3, <1>5, <1>6, <1>7 DEF SensorInv, SensorTypes
<1>9. others
  BY <1>2 DEF SensorInv, Working
<1>10. Working'
  BY <1>1, <1>2, <1>3, <1>5, <1>6, <1>7, <1>9 DEF SensorInv, Working
<1>11. Referenced' /\ Told'
  BY <1>1, <1>6, ToldStays DEF SensorInv, Referenced
<1> QED BY <1>8, <1>10, <1>11 DEF SensorInv

(* The PLL locks.                                                          *)
LEMMA PllKeeps ==
  ASSUME SensorInv, Die!PllLocks
  PROVE  SensorInv'
<1>1. /\ sensor.state = "idle_rc"
      /\ UNCHANGED <<references, die, refs, mode, busy, during, since, others, ret>>
  BY DEF Die!PllLocks
<1>2. PICK s : s = sensor
  OBVIOUS
<1>3. sensor' = [s EXCEPT !.state = "idle_pll"]
  BY <1>2 DEF Die!PllLocks
<1>4. /\ DOMAIN sensor' = Chip /\ sensor'.state = "idle_pll"
      /\ \A x \in Chip \ {"state"} : sensor'[x] = sensor[x]
  BY <1>2, <1>3 DEF SensorInv, SensorTypes, Chip
<1>5. /\ sensor'.ms2 = sensor.ms2 /\ sensor'.rden = sensor.rden /\ sensor'.start = sensor.start
      /\ sensor'.done = sensor.done /\ sensor'.reading = sensor.reading /\ sensor'.wake = sensor.wake
  BY <1>4 DEF Chip
<1>6. SensorTypes'
  BY <1>1, <1>4, <1>5 DEF SensorInv, SensorTypes
<1>7. Working' /\ Referenced' /\ Told'
  BY <1>1, <1>4, <1>5, ToldStays DEF SensorInv, Working, Referenced
<1> QED BY <1>6, <1>7 DEF SensorInv

(* The chip sleeps, and wakes with a conversion of its own.                *)
LEMMA WakeKeeps ==
  ASSUME SensorInv, Die!SleepAndWake
  PROVE  SensorInv'
<1>1. /\ busy = "idle" /\ refs # Die!None /\ since' = [die |-> die]
      /\ others' = FALSE /\ ret' = Die!None
      /\ UNCHANGED <<references, die, refs, mode, busy, during>>
  BY DEF Die!SleepAndWake
<1>2. PICK s, d, v : s = sensor /\ d = die /\ v = FALSE
  OBVIOUS
<1>3. sensor' = [s EXCEPT !.state = "idle_rc", !.ms2 = v, !.rden = v,
                   !.start = v, !.done = v, !.reading = d, !.wake = d]
  BY <1>2 DEF Die!SleepAndWake
<1>4. DOMAIN sensor' = Chip
  BY <1>2, <1>3 DEF SensorInv, SensorTypes
<1>5. /\ sensor'.state = "idle_rc" /\ sensor'.ms2 = v /\ sensor'.rden = v /\ sensor'.start = v
      /\ sensor'.done = v /\ sensor'.reading = d /\ sensor'.wake = d
  BY <1>2, <1>3 DEF SensorInv, SensorTypes, Chip
<1>6. d \in Die!Reading /\ d \in Die!Die
  BY <1>2, SensorFacts DEF SensorInv, SensorTypes
<1>7. SensorTypes'
  BY <1>1, <1>2, <1>4, <1>5, <1>6 DEF SensorInv, SensorTypes
<1>8. since'.die = d
  BY <1>1, <1>2
<1>9. Working'
  BY <1>1, <1>2, <1>5, <1>8 DEF Working
<1>10. Referenced'
  BY <1>1, <1>5 DEF SensorInv, Referenced
<1>11. Told'
  BY <1>1, ToldStays DEF SensorInv
<1> QED BY <1>7, <1>9, <1>10, <1>11 DEF SensorInv

(* What dwt_initialise reads.                                              *)
LEMMA InitialiseKeeps ==
  ASSUME SensorInv, NEW m \in SUBSET Die!Quantity, Die!Initialise(m)
  PROVE  SensorInv'
<1>1. /\ busy = "idle" /\ sensor.state = "reset" /\ mode' = m
      /\ UNCHANGED <<references, die, busy, during, since, others, ret>>
  BY DEF Die!Initialise
<1>2. refs' = [temp |-> Die!ReadReference("temp", m, 133), volt |-> Die!ReadReference("volt", m, 116)]
  BY DEF Die!Initialise
<1>3. /\ refs' \in [Die!Quantity -> {Reference, 116, 133}]
      /\ refs'.temp = Die!ReadReference("temp", m, 133)
      /\ refs'.volt = Die!ReadReference("volt", m, 116)
  BY <1>2 DEF Die!ReadReference, Die!Quantity
<1>4. refs' # Die!None
  <2>1. DOMAIN refs' = {"temp", "volt"} /\ DOMAIN Die!None = {"of"}
    BY <1>2 DEF Die!None
  <2>2. "temp" \in DOMAIN refs' /\ "temp" \notin DOMAIN Die!None
    BY <2>1
  <2> QED BY <2>2
<1>5. PICK s : s = sensor
  OBVIOUS
<1>6. sensor' = [s EXCEPT !.state = "idle_rc"]
  BY <1>5 DEF Die!Initialise
<1>7. /\ DOMAIN sensor' = Chip /\ sensor'.state = "idle_rc"
      /\ \A x \in Chip \ {"state"} : sensor'[x] = sensor[x]
  BY <1>5, <1>6 DEF SensorInv, SensorTypes, Chip
<1>8. /\ sensor'.ms2 = sensor.ms2 /\ sensor'.rden = sensor.rden /\ sensor'.start = sensor.start
      /\ sensor'.done = sensor.done /\ sensor'.reading = sensor.reading /\ sensor'.wake = sensor.wake
  BY <1>7 DEF Chip
<1>9. SensorTypes'
  BY <1>1, <1>3, <1>7, <1>8 DEF SensorInv, SensorTypes
<1>10. Working'
  BY <1>1, <1>8 DEF SensorInv, Working
<1>11. Referenced'
  BY <1>1, <1>4, <1>7 DEF Referenced
<1>12. Told'
  <2>1. ret = Die!None
    BY <1>1 DEF SensorInv, Referenced
  <2> QED BY <1>1, <2>1, ToldStays DEF SensorInv
<1> QED BY <1>9, <1>10, <1>11, <1>12 DEF SensorInv

(* dwt_readtempvbat, to its wait.                                          *)
LEMMA StartKeeps ==
  ASSUME SensorInv, Die!StartConversion
  PROVE  SensorInv'
<1>1. /\ busy = "idle" /\ refs # Die!None /\ busy' = "wait" /\ during' = {die}
      /\ others' = TRUE /\ ret' = Die!None
      /\ UNCHANGED <<references, die, refs, mode, since>>
  BY DEF Die!StartConversion
<1>2. PICK s, v : s = sensor /\ v = TRUE
  OBVIOUS
<1>3. sensor' = [s EXCEPT !.ms2 = v, !.rden = v, !.start = v]
  BY <1>2 DEF Die!StartConversion
<1>4. DOMAIN sensor' = Chip
  BY <1>2, <1>3 DEF SensorInv, SensorTypes
<1>5. /\ sensor'.ms2 = v /\ sensor'.rden = v /\ sensor'.start = v
      /\ sensor'.state = sensor.state /\ sensor'.done = sensor.done
      /\ sensor'.reading = sensor.reading /\ sensor'.wake = sensor.wake
  BY <1>2, <1>3 DEF SensorInv, SensorTypes, Chip
<1>6. ~sensor.done
  BY <1>1 DEF SensorInv, Working
<1>7. SensorTypes'
  BY <1>1, <1>2, <1>4, <1>5 DEF SensorInv, SensorTypes
<1>8. Working'
  BY <1>1, <1>2, <1>5, <1>6 DEF Working
<1>9. Referenced' /\ Told'
  BY <1>1, <1>5, ToldStays DEF SensorInv, Referenced
<1> QED BY <1>7, <1>8, <1>9 DEF SensorInv

(* dwt_readtempvbat, after it.                                             *)
LEMMA ReadKeeps ==
  ASSUME SensorInv, Die!ReadConversion
  PROVE  SensorInv'
<1>1. /\ busy = "wait" /\ sensor.done /\ busy' = "idle" /\ during' = {}
      /\ ret' = [of |-> "now", value |-> sensor.reading, in |-> during]
      /\ UNCHANGED <<references, die, refs, mode, since, others>>
  BY DEF Die!ReadConversion
<1>2. PICK s, v : s = sensor /\ v = FALSE
  OBVIOUS
<1>3. sensor' = [s EXCEPT !.ms2 = v, !.rden = v, !.start = v, !.done = v]
  BY <1>2 DEF Die!ReadConversion
<1>4. DOMAIN sensor' = Chip
  BY <1>2, <1>3 DEF SensorInv, SensorTypes
<1>5. /\ sensor'.ms2 = v /\ sensor'.rden = v /\ sensor'.start = v /\ sensor'.done = v
      /\ sensor'.state = sensor.state
      /\ sensor'.reading = sensor.reading /\ sensor'.wake = sensor.wake
  BY <1>2, <1>3 DEF SensorInv, SensorTypes, Chip
<1>6. SensorTypes'
  BY <1>1, <1>2, <1>4, <1>5 DEF SensorInv, SensorTypes
<1>7. others
  BY <1>1 DEF SensorInv, Working
<1>8. Working'
  BY <1>1, <1>2, <1>5, <1>7 DEF Working
<1>9. refs # Die!None /\ sensor.state # "reset"
  <2>1. refs # Die!None
    BY <1>1 DEF SensorInv, Referenced
  <2> QED BY <2>1 DEF SensorInv, Referenced
<1>10. Referenced'
  BY <1>1, <1>5, <1>9 DEF SensorInv, Referenced
<1>11. ret'.of = "now" /\ ret'.value = sensor.reading /\ ret'.in = during
  BY <1>1
<1>12. sensor.reading \in during
  BY <1>1 DEF SensorInv, Working
<1>13. Told'
  BY <1>11, <1>12 DEF Told, Die!IsCurrent, Die!AtWakeup
<1> QED BY <1>6, <1>8, <1>10, <1>13 DEF SensorInv

(* The readings of the last wake-up.                                       *)
LEMMA ReadWakeupKeeps ==
  ASSUME SensorInv, Die!ReadWakeup
  PROVE  SensorInv'
<1>1. /\ busy = "idle" /\ since # Die!None
      /\ UNCHANGED <<references, die, sensor, refs, mode, busy, during, since, others>>
  BY DEF Die!ReadWakeup
<1>2. ret' = [of |-> "wakeup", value |-> sensor.reading]
  BY DEF Die!ReadWakeup, Die!WakeupRegister
<1>3. ret'.of = "wakeup" /\ ret'.value = sensor.reading
  BY <1>2
<1>4. SensorTypes' /\ Working'
  BY <1>1 DEF SensorInv, SensorTypes, Working
<1>5. Referenced'
  BY <1>1 DEF SensorInv, Referenced
<1>6. Told'
  BY <1>1, <1>3 DEF SensorInv, Working, Told, Die!IsCurrent, Die!AtWakeup
<1> QED BY <1>4, <1>5, <1>6 DEF SensorInv

(* A code in degrees and in volts.                                         *)
LEMMA ConvertRawKeeps ==
  ASSUME SensorInv, NEW raw \in Codes, Die!ConvertRaw(raw)
  PROVE  SensorInv'
<1>1. /\ busy = "idle" /\ refs # Die!None
      /\ UNCHANGED <<references, die, sensor, refs, mode, busy, during, since, others>>
  BY DEF Die!ConvertRaw
<1>2. ret' = [of |-> "converted", raw |-> raw,
              temp |-> Die!ConvertRawTemperature(raw), volt |-> Die!ConvertRawVoltage(raw)]
  BY DEF Die!ConvertRaw
<1>3. ret'.of = "converted"
  BY <1>2
<1>4. SensorTypes' /\ Working'
  BY <1>1 DEF SensorInv, SensorTypes, Working
<1>5. Referenced'
  BY <1>1 DEF SensorInv, Referenced
<1>6. Told'
  BY <1>3 DEF Told, Die!IsCurrent, Die!AtWakeup
<1> QED BY <1>4, <1>5, <1>6 DEF SensorInv

(* Every step of the die and of the driver keeps the invariant.            *)
LEMMA SensorStep == SensorInv /\ [Die!Next]_(Die!vars) => SensorInv'
<1> SUFFICES ASSUME SensorInv, [Die!Next]_(Die!vars)
             PROVE  SensorInv'
  OBVIOUS
<1>1. CASE UNCHANGED Die!vars
  <2>1. UNCHANGED <<references, die, sensor, refs, mode, busy, during, since, others, ret>>
    BY <1>1 DEF Die!vars
  <2> QED BY <2>1, ToldStays DEF SensorInv, SensorTypes, Working, Referenced
<1>2. CASE Die!Call
  BY <1>2, InitialiseKeeps, StartKeeps, ReadKeeps, ReadWakeupKeeps, ConvertRawKeeps DEF Die!Call
<1>3. CASE Die!Drift \/ Die!Convert \/ Die!PllLocks \/ Die!SleepAndWake
  BY <1>3, DriftKeeps, ConvertKeeps, PllKeeps, WakeKeeps
<1> QED BY <1>1, <1>2, <1>3 DEF Die!Next

(* What dwt_readtempvbat returns is of the time of the call, it leaves     *)
(* nothing on, and until it is called the readings of the last wake-up are *)
(* the ones that are returned as such.                                     *)
THEOREM ReadingsAreTrue == Die!Spec => []ReadingsTrue
<1>1. Die!Init => SensorInv
  BY SensorInit
<1>2. SensorInv /\ [Die!Next]_(Die!vars) => SensorInv'
  BY SensorStep
<1>3. SensorInv => ReadingsTrue
  BY DEF SensorInv, SensorTypes, Working, Told, ReadingsTrue, Die!TypeOK, Die!NothingLeftOn
<1> QED BY <1>1, <1>2, <1>3, PTL DEF Die!Spec
=============================================================================
