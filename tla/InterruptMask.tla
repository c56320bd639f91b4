--------------------------- MODULE InterruptMask ----------------------------
(***************************************************************************)
(* dwt_setinterrupt, which writes the two words of SYS_ENABLE one after    *)
(* the other within a critical section, and the section itself:            *)
(* decamutexon and decamutexoff of the ESP32 port.  A program calls it     *)
(* from its main loop and from a callback of the interrupt handler, which  *)
(* preempts the main loop wherever interrupts are enabled.                 *)
(*                                                                         *)
(* decamutexon is declared to return the state of the interrupt and ends   *)
(* without a return statement, which is undefined: a build may have it     *)
(* return some value, which decamutexoff does not look at, or leave out    *)
(* its end, so that it runs on into the next function, decamutexoff.       *)
(***************************************************************************)
EXTENDS Naturals

CONSTANTS Lo, Hi,    \* the bits of SYS_ENABLE_LO and SYS_ENABLE_HI that are used
          Builds     \* what a build makes of the end of decamutexon

MaskAssumption == Builds \subseteq {"returns", "runs on"} /\ Builds # {}

VARIABLES build,     \* one of Builds
          lo, hi,    \* SYS_ENABLE of the chip
          nested,    \* depth of the critical section; interrupts are off above 0
          at, call,  \* where the main loop is in dwt_setinterrupt, and its arguments
          pending,   \* the interrupt line is up
          meant      \* SYS_ENABLE after the calls that have returned, one after the other

vars == <<build, lo, hi, nested, at, call, pending, meant>>

Options == {"only", "enable", "disable"}
Calls == [option : Options, lo : SUBSET Lo, hi : SUBSET Hi]

Init ==
    /\ build \in Builds
    /\ lo = {} /\ hi = {} /\ meant = [lo |-> {}, hi |-> {}]
    /\ nested = 0
    /\ at = "idle" /\ call \in {c \in Calls : c.option = "only" /\ c.lo = {} /\ c.hi = {}}
    /\ pending = FALSE

(* A word of the mask after it is written: the chip itself sets or clears  *)
(* bits of it.                                                             *)
Written(option, word, bits) ==
    CASE option = "only" -> bits
      [] option = "enable" -> word \cup bits
      [] option = "disable" -> word \ bits

Applied(c, mask) == [lo |-> CASE c.option = "only" -> c.lo [] c.option = "enable" -> mask.lo \cup c.lo
                              [] c.option = "disable" -> mask.lo \ c.lo,
                     hi |-> CASE c.option = "only" -> c.hi [] c.option = "enable" -> mask.hi \cup c.hi
                              [] c.option = "disable" -> mask.hi \ c.hi]

(* Mutant: the function is left empty, as for a host that polls.           *)
decamutexon_Empty == UNCHANGED nested

(* The critical section: entered, and left at once if the function runs    *)
(* on into decamutexoff.                                                   *)
decamutexon == nested' = IF build = "returns" THEN nested + 1 ELSE nested

(* Leaving a section that is not entered has no effect.                    *)
decamutexoff == nested' = IF nested > 0 THEN nested - 1 ELSE 0

----------------------------------------------------------------------------
(* The main loop.                                                          *)

Enter ==
    /\ at = "idle"
    /\ call' \in Calls
    /\ decamutexon
    /\ at' = "lo"
    /\ UNCHANGED <<build, lo, hi, pending, meant>>

WriteLo ==
    /\ at = "lo"
    /\ lo' = Written(call.option, lo, call.lo)
    /\ at' = "hi"
    /\ UNCHANGED <<build, hi, nested, call, pending, meant>>

WriteHi ==
    /\ at = "hi"
    /\ hi' = Written(call.option, hi, call.hi)
    /\ at' = "leave"
    /\ UNCHANGED <<build, lo, nested, call, pending, meant>>

Leave ==
    /\ at = "leave"
    /\ decamutexoff
    /\ at' = "idle"
    /\ meant' = Applied(call, meant)
    /\ UNCHANGED <<build, lo, hi, call, pending>>

Main == Enter \/ WriteLo \/ WriteHi \/ Leave

----------------------------------------------------------------------------
(* The handler.                                                            *)

(* An event (external) that the mask lets through.                         *)
Event ==
    /\ ~pending
    /\ lo # {} \/ hi # {}
    /\ pending' = TRUE
    /\ UNCHANGED <<build, lo, hi, nested, at, call, meant>>

(* The handler runs where interrupts are on, with the main loop waiting    *)
(* for it, and its callback may set the mask.                              *)
Handler ==
    /\ pending /\ nested = 0
    /\ pending' = FALSE
    /\ \/ UNCHANGED <<lo, hi, meant>>
       \/ \E c \in Calls :
             /\ lo' = Written(c.option, lo, c.lo)
             /\ hi' = Written(c.option, hi, c.hi)
             /\ meant' = Applied(c, meant)
    /\ UNCHANGED <<build, nested, at, call>>

Next == Main \/ Event \/ Handler

(* The main loop's calls return, and the handler runs when nothing keeps   *)
(* it from running.                                                        *)
Spec == Init /\ [][Next]_vars /\ WF_vars(Leave \/ WriteLo \/ WriteHi) /\ SF_vars(Handler)

----------------------------------------------------------------------------
(* Properties.                                                             *)

TypeOK ==
    /\ build \in Builds
    /\ lo \subseteq Lo /\ hi \subseteq Hi
    /\ nested \in 0 .. 1
    /\ at \in {"idle", "lo", "hi", "leave"} /\ call \in Calls
    /\ pending \in BOOLEAN
    /\ meant \in [lo : SUBSET Lo, hi : SUBSET Hi]

(* Between calls the mask is what the calls of the main loop and of the    *)
(* handler make of it one after the other: none of them is half there.     *)
MaskAsMeant == at = "idle" => meant = [lo |-> lo, hi |-> hi]

(* An interrupt is handled, however often the main loop sets the mask.     *)
Handled == pending ~> ~pending
=============================================================================
