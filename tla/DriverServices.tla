---------------------------- MODULE DriverServices ----------------------------
(***************************************************************************)
(* Services of the DW3000 driver on small instances: the one-time          *)
(* programmable memory (OtpMemory), and the diagnostics of a frame, with   *)
(* one receive buffer and with two (Diagnostics).                          *)
(*                                                                         *)
(* The parts share no state.  The first state chooses the one that runs;   *)
(* the others stay in a first state of theirs.                             *)
(***************************************************************************)
EXTENDS OtpMemory

CONSTANTS
  SingleMasks, DoubleMasks,  \* of Diagnostics, with one buffer and with two
  MaxFrames

VARIABLES part,
  file, set, full, held, fills, received, enabled, pointed, dblbuffon,
  cia_diagnostic, diag, got, of

diagVars == <<file, set, full, held, fills, received, enabled, pointed, dblbuffon,
              cia_diagnostic, diag, got, of>>
allVars == <<part, vars, diagVars>>

One == INSTANCE Diagnostics WITH
  Double <- FALSE, Masks <- SingleMasks
Two == INSTANCE Diagnostics WITH
  Double <- TRUE, Masks <- DoubleMasks

ASSUME PartAssumptions ==
  One!MasksAreFlags /\ Two!MasksAreFlags

(* A set is logged by one of three flags; with none dwt_readdiagnostics    *)
(* fills in what it has not read.                                          *)
ASSUME SetsAreLogged == \A mask \in DoubleMasks : mask \cap {"MIN", "MID", "MAX"} # {}

MCInit ==
  /\ part \in {"otp", "one buffer", "two buffers"}
  /\ Init
  /\ IF part = "one buffer" THEN One!Init ELSE Two!Init
  /\ part = "otp" => cia_diagnostic = CHOOSE mask \in DoubleMasks : TRUE

MCNext ==
  /\ UNCHANGED part
  /\ \/ part = "otp" /\ Next /\ UNCHANGED diagVars
     \/ part = "one buffer" /\ One!Next /\ UNCHANGED vars
     \/ part = "two buffers" /\ Two!Next /\ UNCHANGED vars

(* The fairness of each part's own specification.                          *)
MCSpec ==
  /\ MCInit /\ [][MCNext]_allVars
  /\ WF_vars(part = "otp" /\ SendAddress) /\ WF_vars(part = "otp" /\ SendData)
  /\ WF_vars(part = "otp" /\ Start) /\ WF_vars(part = "otp" /\ Stop)
  /\ WF_vars(part = "otp" /\ Verify)

-----------------------------------------------------------------------------
(* Properties of the parts; those of OtpMemory are taken as they are.      *)

(* The invariants of Diagnostics, in the part it is taken with: a field    *)
(* dwt_readdiagnostics fills in is of the frame the host is at, and made   *)
(* of the octets of its register; so is every single reading, from         *)
(* whichever buffer it is taken; and with two buffers the frames are read  *)
(* in the order they came in.                                              *)
DiagnosticsTrue ==
  /\ part = "one buffer" => One!TypeOK /\ One!FieldsTrue /\ One!ReadingsTrue
  /\ part = "two buffers" =>
       Two!TypeOK /\ Two!FieldsTrue /\ Two!ReadingsTrue /\ Two!OldestFirst
=============================================================================
