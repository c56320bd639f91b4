------------------------------ MODULE OtpMemory ------------------------------
(***************************************************************************)
(* The one-time programmable memory of the DW3000: dwt_otpwriteandverify   *)
(* step by step, dwt_otpverify, dwt_otpread, and the restart of the chip   *)
(* and the host in the middle. A word is the set of the bits burnt; they   *)
(* burn one by one while the chip is in its programming mode, and stay. A  *)
(* word takes about 1.76 ms, and deca_sleep of the port returns at once:   *)
(* the mode may end after any of the bits.                                 *)
(***************************************************************************)
EXTENDS Integers, Sequences, FiniteSets

CONSTANTS
  Addresses,  \* the addresses that are programmed and read, of 11 bits
  Bits,       \* the bits of a word
  MaxCalls    \* bound: words programmed

(* A word is read with the one behind it.                                  *)
ASSUME OtpAssumption == MaxCalls \in Nat /\ Addresses \subseteq 0 .. 2046

(* The words a call can reach: of its address, the next one, and the one   *)
(* at the low octet of it.                                                 *)
Words == UNION {{a, a + 1, a % 256} : a \in Addresses}

VARIABLES
  otp,      \* the words
  latch,    \* the address and the word the programming logic has
  burning,  \* the chip is in programming mode, between start and stop
  cfg,      \* OTP_CFG: "idle", "program", "read"
  ldo,      \* LDO_TUNE_HI: "tuned" or "max"
  saved,    \* ldo_tune of the call
  pc,       \* where the call is
  arg,      \* its address and value
  before,   \* the memory when the call began, for the properties
  result,   \* of the last call
  array,    \* of the last dwt_otpread
  calls

vars == <<otp, latch, burning, cfg, ldo, saved, pc, arg, before, result, array, calls>>
chip == <<otp, latch, burning, cfg, ldo>>
call == <<arg, before, calls>>

Word == SUBSET Bits
Blank == [a \in Words |-> {}]

Init ==
  /\ otp = Blank /\ latch = [address |-> 0, data |-> {}] /\ burning = FALSE
  /\ cfg = "idle" /\ ldo = "tuned" /\ saved = "tuned"
  /\ pc = "idle" /\ arg = [address |-> 0, data |-> {}] /\ before = otp
  /\ result = "none" /\ array = <<>> /\ calls = 0

-----------------------------------------------------------------------------
(* _dwt_otpprogword32, between the writes the chip acts on.                *)

Begin(a, v) ==
  /\ pc = "idle" /\ calls < MaxCalls
  /\ calls' = calls + 1
  /\ arg' = [address |-> a, data |-> v] /\ before' = otp
  /\ saved' = ldo /\ ldo' = "max"
  /\ cfg' = "program" /\ pc' = "address"
  /\ result' = "none"
  /\ UNCHANGED <<otp, latch, burning, array>>

(* The low octet of the address, and zero for the upper one.               *)
SendAddress ==
  /\ pc = "address" /\ pc' = "data"
  /\ latch' = [latch EXCEPT !.address = arg.address % 256]
  /\ UNCHANGED <<otp, burning, cfg, ldo, saved, call, result, array>>

(* Mutant: the latch keeps the bits it has from the call before.           *)
SendData_Added ==
  /\ pc = "data" /\ pc' = "start"
  /\ latch' = [latch EXCEPT !.data = @ \cup arg.data]
  /\ UNCHANGED <<otp, burning, cfg, ldo, saved, call, result, array>>

SendData ==
  /\ pc = "data" /\ pc' = "start"
  /\ latch' = [latch EXCEPT !.data = arg.data]
  /\ UNCHANGED <<otp, burning, cfg, ldo, saved, call, result, array>>

Start ==
  /\ pc = "start" /\ pc' = "stop"
  /\ burning' = TRUE
  /\ UNCHANGED <<otp, latch, cfg, ldo, saved, call, result, array>>


(* After deca_sleep(2), which does not wait, the mode is left.             *)
Stop ==
  /\ pc = "stop" /\ pc' = "verify"
  /\ burning' = FALSE /\ cfg' = "idle" /\ ldo' = saved
  /\ UNCHANGED <<otp, latch, saved, call, result, array>>

-----------------------------------------------------------------------------
(* Reading: manual access, the address, the strobe, the word.              *)

_dwt_otpread(a) == otp[a]

Compare(a, v) == IF _dwt_otpread(a) = v THEN "DWT_SUCCESS" ELSE "DWT_ERROR"

Verify ==
  /\ pc = "verify" /\ pc' = "idle"
  /\ result' = Compare(arg.address, arg.data) /\ cfg' = "read"
  /\ UNCHANGED <<otp, latch, burning, ldo, saved, call, array>>

dwt_otpverify(a, v) ==
  /\ pc = "idle"
  /\ arg' = [address |-> a, data |-> v]
  /\ result' = Compare(a, v) /\ cfg' = "read"
  /\ UNCHANGED <<otp, latch, burning, ldo, saved, pc, before, calls, array>>

dwt_otpread(a, length) ==
  /\ pc = "idle"
  /\ array' = [i \in 1 .. length |-> _dwt_otpread(a + i - 1)] /\ cfg' = "read"
  /\ UNCHANGED <<otp, latch, burning, ldo, saved, pc, call, result>>

-----------------------------------------------------------------------------
(* The chip burns a bit, with the supply raised.                           *)
Burn ==
  /\ burning /\ cfg = "program" /\ ldo = "max"
  /\ \E b \in latch.data \ otp[latch.address] :
       otp' = [otp EXCEPT ![latch.address] = @ \cup {b}]
  /\ UNCHANGED <<latch, burning, cfg, ldo, saved, pc, call, result, array>>

(* Power is lost and returns; the initialisation tunes the supplies.       *)
Restart ==
  /\ pc # "idle"
  /\ latch' = [address |-> 0, data |-> {}] /\ burning' = FALSE
  /\ cfg' = "idle" /\ ldo' = "tuned"
  /\ pc' = "idle" /\ result' = "none"
  /\ UNCHANGED <<otp, saved, call, array>>

Next ==
  \/ \E a \in Addresses, v \in Word : Begin(a, v) \/ dwt_otpverify(a, v)
  \/ \E a \in Addresses : dwt_otpread(a, 2)
  \/ SendAddress \/ SendData \/ Start \/ Stop \/ Verify \/ Burn \/ Restart

Spec == Init /\ [][Next]_vars /\ WF_vars(SendAddress) /\ WF_vars(SendData)
             /\ WF_vars(Start) /\ WF_vars(Stop) /\ WF_vars(Verify)

-----------------------------------------------------------------------------
(* Properties.                                                             *)

(* Every variable keeps its type.                                          *)
TypeOK ==
  /\ otp \in [Words -> Word] /\ before \in [Words -> Word]
  /\ latch \in [address : 0 .. 255, data : Word] /\ burning \in BOOLEAN
  /\ cfg \in {"idle", "program", "read"} /\ {ldo, saved} \subseteq {"tuned", "max"}
  /\ pc \in {"idle", "address", "data", "start", "stop", "verify"}
  /\ arg \in [address : Addresses \cup {0}, data : Word]
  /\ pc # "idle" => arg.address \in Addresses
  /\ result \in {"none", "DWT_SUCCESS", "DWT_ERROR"}

(* Between calls the transmitter's supply is as it was tuned, and the      *)
(* memory is not being programmed, also after a restart within one.        *)
AtRest == pc = "idle" => ldo = "tuned" /\ ~burning

(* Success is returned for a word that holds the value, and no more bits.  *)
SuccessIsTrue == result = "DWT_SUCCESS" => otp[arg.address] = arg.data

(* No word changes but the one at the low octet of the call's address, and *)
(* it gains only bits of the call's value: nothing that an earlier call, or *)
(* one that a restart has ended, left in the latches is burnt.             *)
OnlyAsked ==
  [][\A a \in DOMAIN otp : otp'[a] # otp[a] =>
       a = arg.address % 256 /\ otp'[a] \subseteq otp[a] \cup arg.data]_otp

(* A failed call may be repeated: unless the word had other bits before,   *)
(* what a call and any number of unfinished ones before it have left in it *)
(* is part of the value.                                                   *)
Repeatable ==
  [][Verify /\ result' = "DWT_ERROR" /\ before[arg.address] \subseteq arg.data
       => otp[arg.address] \subseteq arg.data]_vars

(* All together, although the programming mode ends too early: what a call *)
(* reports of its word is true, nothing but what it was asked for is       *)
(* burnt, and a word that is left unfinished can be finished, whatever     *)
(* restarts come in the middle.                                            *)
WordsKept == [](TypeOK /\ AtRest /\ SuccessIsTrue) /\ OnlyAsked /\ Repeatable

(* As if the mode lasted for the time of the comment: a call fails only    *)
(* for a word that had other bits before. It does not last.                *)
Completes ==
  [][Verify /\ result' = "DWT_ERROR" =>
       ~(before[arg.address] \subseteq arg.data)]_vars

(* As if all 11 bits of an address were sent: no word changes but the one  *)
(* of the call. The low octet is sent.                                     *)
OthersKept ==
  [][\A a \in DOMAIN otp : otp'[a] # otp[a] => a = arg.address]_otp

=============================================================================
