----------------------------- MODULE Diagnostics -----------------------------
(***************************************************************************)
(* What the DW3000 driver reads about a frame it has received: the fields  *)
(* of dwt_readdiagnostics and the single readings, out of the registers    *)
(* or, with two receive buffers, out of the set of the buffer the host is  *)
(* at. An octet is known by the frame that left it there, its word and its *)
(* place in the word; a field is the octets it is put together from, the   *)
(* most significant first. The masks that drop bits of it are left out.    *)
(***************************************************************************)
EXTENDS Integers, Sequences

CONSTANTS
  Double,    \* the double receive buffer is in use
  Masks,     \* what dwt_configciadiag is called with, as sets of flags
  MaxFrames  \* bound: frames received

Flags == {"ALL", "MIN", "MID", "MAX"}
MasksAreFlags == Masks \subseteq SUBSET Flags /\ MaxFrames \in Nat

VARIABLES
  file,     \* the frame that each word of the registers is about, 0 for none
  set,      \* the same of the words of the two swinging sets
  full,     \* the buffers with a frame the host has not freed
  held,     \* the frame in each buffer, in the registers without two
  fills,    \* the buffer of the next frame
  received, \* the number of frames so far
  enabled,  \* the receiver has been set up since the last sleep
  pointed,  \* the indirect pointer B is at the second set
  dblbuffon, cia_diagnostic, \* of the driver
  diag,     \* the structure of the program
  got,      \* the last single reading
  of        \* what was read just now, and for which frame

vars == <<file, set, full, held, fills, received, enabled, pointed, dblbuffon,
          cia_diagnostic, diag, got, of>>
chip == <<file, set, held>>
configured == <<pointed, enabled, cia_diagnostic>>
host == <<diag, got, of>>

-----------------------------------------------------------------------------
(* The words of the registers at 0xc0000 and 0xd0000, and of a set. Words  *)
(* of one name follow each other; a word is found by its distance from the *)
(* first one of the registers or of the set.                               *)

Words(name, first, last) == {<<name, i>> : i \in first .. last}
Signals == {"IP", "STS", "STS1"}
TOA(s) == CASE s = "IP" -> "IP_TOA" [] s = "STS" -> "STS_TOA" [] s = "STS1" -> "STS1_TOA"
DIAG(s) == CASE s = "IP" -> "IP_DIAG" [] s = "STS" -> "STS_DIAG" [] s = "STS1" -> "STS1_DIAG"

TimeWords == UNION {Words(TOA(s), 0, 1) : s \in Signals}
Reduced == TimeWords \cup Words("TDOA", 0, 1) \cup Words("CIA_DIAG", 0, 1)
RegistersC == Reduced \cup Words("IP_DIAG", 0, 12) \cup Words("STS_DIAG", 0, 3)
RegistersD == Words("STS_DIAG", 4, 17) \cup Words("STS1_DIAG", 0, 12)
Registers == RegistersC \cup RegistersD

MinSet == Words("RX_FINFO", 0, 0) \cup Words("RX_TIME", 0, 1) \cup Words("CIA_DIAG", 0, 0)
            \cup Words("TDOA", 0, 1) \cup Words("RES", 1, 1) \cup Words("IP_DIAG", 12, 12)
MidSet == MinSet \cup TimeWords
SwingingSet == MidSet \cup Words("CIA_DIAG", 1, 1) \cup Words("IP_DIAG", 0, 11)
                 \cup Words("STS_DIAG", 0, 17) \cup Words("STS1_DIAG", 0, 12)

Unwritten(words) == [w \in words |-> 0]

NoReading == <<"none", 0>>
Nothing == <<0, <<"unset", 0>>, 0>>
(* Octet k from the given word on, of what was read.                       *)
WordOf(at) == <<at[1][1], at[1][2] + (at[2] \div 4)>>
Octet(read, from, at) ==
  IF WordOf(at) \in read THEN <<from[WordOf(at)], WordOf(at), at[2] % 4>> ELSE Nothing

-----------------------------------------------------------------------------
(* The fields, as the octets they are read from.                           *)

At(word, octets) == [i \in DOMAIN octets |-> <<word, octets[i]>>]
Long == <<3, 2, 1, 0>>
Short == <<1, 0>>

Details == {"Peak", "Power", "F1", "F2", "F3", "FpIndex"}
Timed == {"RxTime", "RxStatus", "POA"}
Common == {"tdoa", "pdoa", "xtalOffset", "ciaDiag1"}
Fields == (Signals \X (Details \cup Timed \cup {"AccumCount"})) \cup ({"both"} \X Common)

(* What a field is the name of, by the definitions of the registers.       *)
Detail(s, name) ==
  CASE name = "Peak" -> At(<<DIAG(s), 0>>, Long)
    [] name = "Power" -> At(<<DIAG(s), 1>>, IF s = "IP" THEN Long ELSE Short)
    [] name = "F1" -> At(<<DIAG(s), 2>>, Long)
    [] name = "F2" -> At(<<DIAG(s), 3>>, Long)
    [] name = "F3" -> At(<<DIAG(s), 4>>, Long)
    [] name = "FpIndex" -> At(<<DIAG(s), 8>>, Short)
    [] name = "AccumCount" -> At(<<DIAG(s), 12>>, Short)

CommonField(name) ==
  CASE name = "tdoa" -> At(<<"TDOA", 0>>, <<0, 1, 2, 3, 4, 5>>)
    [] name = "pdoa" -> At(<<"TDOA", 1>>, <<3, 2>>)
    [] name = "xtalOffset" -> At(<<"CIA_DIAG", 0>>, Short)
    [] name = "ciaDiag1" -> At(<<"CIA_DIAG", 1>>, Long)

RxTime(s) == At(<<TOA(s), 0>>, <<0, 1, 2, 3, 4>>)

Defined(f) ==
  CASE f[1] = "both" -> CommonField(f[2])
    [] f[2] = "RxTime" -> RxTime(f[1])
    [] f[2] = "POA" -> At(<<TOA(f[1]), 1>>, <<2, 1>>)
    [] f[2] = "RxStatus" -> At(<<TOA(f[1]), 1>>, IF f[1] = "IP" THEN <<3>> ELSE <<3, 2>>)
    [] OTHER -> Detail(f[1], f[2])

(* Mutant: the phases are read out of the timestamps here as well.         *)
SingleField_Early(f) ==
  CASE f[2] = "POA" -> At(<<TOA(f[1]), 0>>, <<2, 1>>)
    [] OTHER -> Defined(f)

(* What the code reads without double buffering. The status of the second  *)
(* STS has its low octet from the first one; that of the first has its own *)
(* octets, but combined without a shift, which places do not show.         *)
SingleField(f) ==
  CASE f = <<"STS1", "RxStatus">> -> << <<<<"STS1_TOA", 1>>, 3>>, <<<<"STS_TOA", 1>>, 2>> >>
    [] OTHER -> Defined(f)

(* What it reads of a set: phases and states out of the timestamps.        *)
SetField(f) ==
  CASE f[2] = "POA" -> At(<<TOA(f[1]), 0>>, <<2, 1>>)
    [] f[2] = "RxStatus" -> At(<<TOA(f[1]), 0>>, <<2>>)
    [] OTHER -> Defined(f)

SetFilled ==
  LET least == ({"both"} \X (Common \ {"ciaDiag1"})) \cup {<<"IP", "AccumCount">>}
      middle == least \cup (Signals \X Timed)
  IN IF "MIN" \in cia_diagnostic THEN least
     ELSE IF "MID" \in cia_diagnostic THEN middle ELSE Fields
SingleFilled ==
  IF "ALL" \in cia_diagnostic THEN Fields
                              ELSE ({"both"} \X Common) \cup (Signals \X Timed)

-----------------------------------------------------------------------------
(* The readings.                                                           *)

(* What is read of the set the host is at.                                 *)
SetRead ==
  IF "MAX" \in cia_diagnostic THEN SwingingSet
  ELSE IF "MID" \in cia_diagnostic THEN MidSet ELSE MinSet

At1 == dblbuffon = 3
(* The second set is read through the indirect pointer.                    *)
SetFrom == IF At1 THEN (IF pointed THEN set[1] ELSE Unwritten(SwingingSet))
                  ELSE set[0]

Valid == IF Double THEN full # {} ELSE held[0] # 0
Now == held[IF At1 THEN 1 ELSE 0]

dwt_readdiagnostics ==
  /\ Valid
  /\ diag' = IF dblbuffon # 0
     THEN [f \in Fields |-> IF f \notin SetFilled THEN diag[f] ELSE
             [i \in DOMAIN SetField(f) |-> Octet(SetRead, SetFrom, SetField(f)[i])]]
     ELSE LET read == IF "ALL" \in cia_diagnostic THEN Registers ELSE Reduced
          IN [f \in Fields |-> IF f \notin SingleFilled THEN diag[f] ELSE
                [i \in DOMAIN SingleField(f) |-> Octet(read, file, SingleField(f)[i])]]
  /\ of' = <<"diag", Now>>
  /\ UNCHANGED <<chip, received, full, fills, configured, dblbuffon, got>>

Status(s) == At(<<TOA(s), 1>>, <<3, 2>>)
Reading ==
  [clockoffset |-> At(<<"CIA_DIAG", 0>>, Short), pdoa |-> At(<<"TDOA", 1>>, <<3, 2>>),
   stsstatus |-> Status("STS"), sts1status |-> Status("STS1"),
   rxtimestamp_ipatov |-> RxTime("IP"), rxtimestamp_sts |-> RxTime("STS")]

(* The bits of a set that a reading needs are there from some flag on.     *)
Logged(r) == r \in {"clockoffset", "pdoa"} \/ cia_diagnostic \cap {"MID", "MAX"} # {}

ReadOne(r) ==
  [i \in DOMAIN Reading[r] |->
     IF dblbuffon # 0 THEN Octet(SwingingSet, SetFrom, Reading[r][i])
                      ELSE Octet(Registers, file, Reading[r][i])]

Read(r) ==
  /\ Valid /\ (Double => Logged(r))
  /\ got' = ReadOne(r)
  /\ of' = <<r, Now>>
  /\ UNCHANGED <<chip, received, full, fills, configured, dblbuffon, diag>>

-----------------------------------------------------------------------------
(* The rest of the driver.                                                 *)

dwt_configciadiag(mask) ==
  /\ full = {} /\ (~Double => held[0] = 0)   \* before frames are awaited
  /\ cia_diagnostic' = mask
  /\ of' = NoReading
  /\ UNCHANGED <<chip, received, full, fills, pointed, enabled, dblbuffon, diag, got>>

dwt_signal_rx_buff_free ==
  /\ Double /\ full # {}
  /\ full' = full \ {IF At1 THEN 1 ELSE 0}
  /\ dblbuffon' = IF At1 THEN 1 ELSE 3
  /\ of' = NoReading
  /\ UNCHANGED <<chip, received, fills, configured, diag, got>>

dwt_setdblrxbuffmode ==
  /\ ~enabled
  /\ enabled' = TRUE
  /\ dblbuffon' = (IF Double THEN 1 ELSE 0)
  /\ pointed' = (pointed \/ Double)
  /\ UNCHANGED <<chip, received, full, fills, cia_diagnostic, host>>

-----------------------------------------------------------------------------
(* The chip.                                                               *)

Copied == IF "MAX" \in cia_diagnostic THEN SwingingSet
          ELSE IF "MID" \in cia_diagnostic THEN MidSet ELSE MinSet
Update(words, n, f) == [w \in DOMAIN f |-> IF w \in words THEN n ELSE f[w]]

Receive ==
  LET n == received + 1 IN
  /\ enabled /\ received < MaxFrames /\ (Double => fills \notin full)
  /\ received' = n
  /\ file' = Update(IF "ALL" \in cia_diagnostic THEN Registers ELSE Reduced, n, file)
  /\ held' = [held EXCEPT ![fills] = n]
  /\ IF Double THEN /\ set' = [set EXCEPT ![fills] = Update(Copied, n, @)]
                    /\ full' = full \cup {fills} /\ fills' = 1 - fills
               ELSE UNCHANGED <<set, full, fills>>
  /\ of' = NoReading
  /\ UNCHANGED <<pointed, enabled, dblbuffon, cia_diagnostic, diag, got>>

None == [b \in {0, 1} |-> 0]

(* Of the registers here AON keeps none over sleep; the program enables    *)
(* the buffers again afterwards.                                           *)
Sleep ==
  /\ enabled
  /\ file' = Unwritten(Registers)
  /\ set' = [b \in {0, 1} |-> Unwritten(SwingingSet)]
  /\ held' = None /\ full' = {} /\ fills' = 0
  /\ pointed' = FALSE /\ enabled' = FALSE
  /\ of' = NoReading
  /\ UNCHANGED <<received, dblbuffon, cia_diagnostic, diag, got>>

Init ==
  /\ file = Unwritten(Registers)
  /\ set = [b \in {0, 1} |-> Unwritten(SwingingSet)]
  /\ held = None /\ full = {} /\ fills = 0
  /\ pointed = FALSE /\ enabled = FALSE
  /\ received = 0 /\ dblbuffon = 0 /\ cia_diagnostic \in Masks
  /\ diag = [f \in Fields |-> <<>>] /\ got = <<>> /\ of = NoReading

Next ==
  \/ Receive \/ Sleep \/ dwt_setdblrxbuffmode
  \/ dwt_signal_rx_buff_free \/ dwt_readdiagnostics
  \/ \E mask \in Masks : dwt_configciadiag(mask)
  \/ \E r \in DOMAIN Reading : Read(r)

Spec == Init /\ [][Next]_vars

-----------------------------------------------------------------------------
(* Properties.                                                             *)

OctetsOf(n, places) ==
  [i \in DOMAIN places |-> <<n, WordOf(places[i]), places[i][2] % 4>>]

(* Type correctness: the buffer that dblbuffon names exists, and every     *)
(* field keeps its width.                                                  *)
TypeOK ==
  /\ received \in 0 .. MaxFrames /\ of[2] \in 0 .. received
  /\ dblbuffon \in (IF Double THEN {0, 1, 3} ELSE {0})
  /\ full \subseteq {0, 1} /\ fills \in {0, 1}
  /\ held \in [{0, 1} -> 0 .. received]
  /\ \A f \in Fields : diag[f] = <<>> \/ DOMAIN diag[f] = DOMAIN Defined(f)
                            \/ (Double /\ f[2] = "RxStatus")

(* The fields in which dwt_readdiagnostics reads the wrong octets.         *)
Misread == IF Double THEN Signals \X {"RxStatus", "POA"} ELSE {"STS", "STS1"} \X {"RxStatus"}
Filled == IF dblbuffon # 0 THEN SetFilled ELSE SingleFilled

(* A field that dwt_readdiagnostics fills in is of the frame the host is   *)
(* at, and made of the octets of its register, but for those misread.      *)
FieldsTrue ==
  of[1] = "diag" =>
    \A f \in Filled \ Misread : diag[f] = OctetsOf(of[2], Defined(f))

Meant == [clockoffset |-> <<"both", "xtalOffset">>, pdoa |-> <<"both", "pdoa">>,
          stsstatus |-> <<"STS", "RxStatus">>, sts1status |-> <<"STS1", "RxStatus">>,
          rxtimestamp_ipatov |-> <<"IP", "RxTime">>, rxtimestamp_sts |-> <<"STS", "RxTime">>]
(* So is every single reading, from whichever buffer it is taken.          *)
ReadingsTrue ==
  of[1] \in DOMAIN Reading => got = OctetsOf(of[2], Defined(Meant[of[1]]))

(* The buffer the host goes on to when it frees one is the chip's oldest,  *)
(* so that the frames are read in the order they came in.                  *)
OldestFirst ==
  Double /\ full # {} => held[IF At1 THEN 1 ELSE 0] =
    CHOOSE n \in {held[b] : b \in full} : \A b \in full : n <= held[b]

(* "RX status info for STS": the status is that of its own signal.         *)
StatusTrue ==
  of[1] = "diag" => \A s \in Signals :
    diag[<<s, "RxStatus">>] = OctetsOf(of[2], Defined(<<s, "RxStatus">>))

(* "Phase of arrival as computed from the Ipatov CIR".                     *)
PhaseTrue ==
  of[1] = "diag" /\ <<"IP", "POA">> \in Filled =>
    diag[<<"IP", "POA">>] = OctetsOf(of[2], Defined(<<"IP", "POA">>))

(* "this will contain the diagnostic data read from the DW3000": nothing   *)
(* that was not read gets into the structure.                              *)
ReadOnly ==
  \A f \in Fields : \A i \in DOMAIN diag[f] : diag[f][i] # Nothing
=============================================================================
