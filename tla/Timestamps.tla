----------------------------- MODULE Timestamps -----------------------------
(***************************************************************************)
(* The integer arithmetic of a single-sided two-way ranging exchange, as   *)
(* DW3000Impl::initiate and DW3000Impl::listen do it.                      *)
(*                                                                         *)
(* The DW3000 counts 15.65 ps units in a free-running 40-bit counter.  The *)
(* ranging code keeps the low 32 bits of its readings, and programs a      *)
(* delayed transmission with the high 32 bits, the lowest of which the     *)
(* chip ignores.  The widths are parameters here.                          *)
(***************************************************************************)
EXTENDS Integers

CONSTANTS
  ClockMod,   \* the chip's counter wraps at ClockMod            (2^40)
  StampMod,   \* a uint32_t timestamp wraps at StampMod          (2^32)
  DxUnit      \* a delayed transmission is programmed in these   (2^8)

ASSUME WidthAssumption ==
  /\ ClockMod \in Nat \ {0}
  /\ StampMod \in Nat \ {0}
  /\ DxUnit \in Nat \ {0}
  /\ ClockMod % StampMod = 0   \* truncation keeps congruence
  /\ ClockMod % (2 * DxUnit) = 0
  /\ StampMod % 2 = 0

-----------------------------------------------------------------------------
(* A reading of the counter that keeps only its low 32 bits.               *)
Lo32(x) == x % StampMod

(* static_cast<int32_t>(a - b) on uint32_t operands.                       *)
SignedDiff(a, b) ==
  LET u == Lo32(a - b)
  IN  IF u < StampMod \div 2 THEN u ELSE u - StampMod

(* resp_tx_time: what is programmed for a start delay units after the      *)
(* reception stamp rx40.                                                   *)
RespTxTime(rx40, delay) == ((rx40 + delay) \div DxUnit) % (ClockMod \div DxUnit)

(* The counter value at which the chip starts what is programmed.          *)
ChipStart(time) == (time \div 2) * 2 * DxUnit

(* Mutant: resp_tx_ts without the mask of the bit that the chip ignores.   *)
RespTxStamp_Unmasked(time, antennaDelay) == time * DxUnit + antennaDelay

(* resp_tx_ts: when the response will leave the antenna.                   *)
RespTxStamp(time, antennaDelay) == (time - (time % 2)) * DxUnit + antennaDelay

(* rtd_init - rtd_resp: twice the time of flight, from the initiator's     *)
(* pair of stamps and the pair the response carries.                       *)
RoundTrip(pollTx, respRx, pollRx, respTx) ==
  SignedDiff(respRx, pollTx) - SignedDiff(respTx, pollRx)
=============================================================================
