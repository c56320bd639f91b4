--------------------------- MODULE ErrorCounters ----------------------------
(***************************************************************************)
(* The counters of errors that the ranging examples with a scrambled       *)
(* timestamp sequence (STS) keep, from the bits of SYS_STATUS to           *)
(* errors[]: the initiator and the responder with an STS in every frame    *)
(* and those whose packets hold an STS and nothing else.                   *)
(*                                                                         *)
(* A reception ends in an outcome of the chip (external), which raises     *)
(* some bits at once and those of the analysis of the channel impulse      *)
(* response (CIA) later, before or after the program has read the          *)
(* register.  What the program does with a good frame is left to           *)
(* ExampleRanging; the counters are followed through one loop at a time.   *)
(***************************************************************************)
EXTENDS Integers

CONSTANTS Programs,     \* the programs that are followed
          Warnings,     \* the bits of the STS status that are told apart
          EnableClears  \* the bits of SYS_STATUS that enabling the receiver clears

StsCounters == {"PEAK_GROWTH_RATE", "ADC_COUNT", "SFD_COUNT", "LATE_FIRST_PATH", "LATE_COARSE_EST",
                "COARSE_EST_EMPTY", "HIGH_NOISE_THREASH", "NON_TRIANGLE", "LOG_REG_FAILED"}
Bits == {"RXFR", "RXFCG", "RXFCE", "RXPHE", "RXFSL", "RXSTO", "RXPTO", "RXFTO", "ARFE", "CIAERR", "CPERR"}

CounterAssumption ==
    /\ Programs \subseteq {"init_sts", "resp_sts", "init_nodata", "resp_nodata"} /\ Programs # {}
    /\ Warnings \subseteq StsCounters
    /\ EnableClears \subseteq Bits

Counters == StsCounters \cup
    {"CRC", "RSE", "PHE", "SFDTO", "PTO", "RTO", "ARFE", "BAD_FRAME", "PREAMBLE_COUNT", "CP_QUAL", "STS_PREAMBLE"}

AllRxTo == {"RXFTO", "RXPTO"}
AllRxErr == {"RXPHE", "RXFCE", "RXFSL", "RXSTO", "ARFE", "CIAERR"}
AllRxGood == {"RXFR", "RXFCG"}

(* Mutant: the time out of the start of a frame is not awaited.            *)
AllNdRxErr_Cia == {"CIAERR"}

AllNdRxErr == {"CIAERR", "RXSTO"}

VARIABLES program,   \* which of the programs runs
          at,        \* where its loop is
          status,    \* SYS_STATUS of the chip
          cia,       \* bits the CIA has yet to raise for this reception
          sts,       \* what the chip holds of the STS received last
          seen,      \* status_reg
          what,      \* the reception of this loop
          grown      \* by how much each of errors[] has grown in this loop

vars == <<program, at, status, cia, sts, seen, what, grown>>

(* Quality of an STS: above the threshold, below it, or not above zero.    *)
Quality == {"good", "poor", "none"}
NoSts == [quality |-> "none", warn |-> {}]
None == [kind |-> "none", raised |-> {}, sts |-> NoSts]

----------------------------------------------------------------------------
(* Receptions (external).                                                  *)

(* Packets without data are received as such, and frames with data else.   *)
NoData == program \in {"init_nodata", "resp_nodata"} /\ at # "report"
Initiator == program \in {"init_sts", "init_nodata"}

(* What ends a reception and the bits it raises at once.  Only an          *)
(* initiator sets the time outs of its receiver.  Without an STS the       *)
(* chip's quality of it is what it was or nothing.                         *)
Kinds ==
    (IF NoData THEN {"packet"} ELSE {"mine", "other", "long", "crc", "header", "solomon"})
    \cup {"sfd"} \cup (IF Initiator THEN {"preamble", "wait"} ELSE {})
Raised(kind) ==
    CASE kind \in {"mine", "other", "long"} -> {"RXFR", "RXFCG"}
      [] kind = "packet" -> {"RXFR"}
      [] kind = "crc" -> {"RXFR", "RXFCE"}
      [] kind = "header" -> {"RXPHE"}
      [] kind = "solomon" -> {"RXFSL"}
      [] kind = "sfd" -> {"RXSTO"}
      [] kind = "preamble" -> {"RXPTO"}
      [] kind = "wait" -> {"RXFTO"}
Whole == {"mine", "other", "long", "packet", "crc"}

Receive ==
    /\ at \in {"wait", "report"} /\ what = None
    /\ \E kind \in Kinds, q \in Quality, w \in SUBSET Warnings, failed \in BOOLEAN :
          LET late == (IF w # {} THEN {"CPERR"} ELSE {}) \cup (IF failed THEN {"CIAERR"} ELSE {})
          IN  /\ kind \notin Whole => q \in {"none", sts.quality} /\ ~failed
              /\ kind \notin Whole \/ at = "report" => w = {}
              /\ at = "report" => q = sts.quality
              /\ status' = status \cup Raised(kind)
              /\ cia' = late
              /\ sts' = [quality |-> q, warn |-> w]
              /\ what' = [kind |-> kind, raised |-> Raised(kind) \cup late, sts |-> sts']
    /\ UNCHANGED <<program, at, seen, grown>>

CiaDone ==
    /\ cia # {}
    /\ status' = status \cup cia
    /\ cia' = {}
    /\ UNCHANGED <<program, at, sts, seen, what, grown>>

----------------------------------------------------------------------------
(* The programs.                                                           *)

Init ==
    /\ program \in Programs
    /\ at = "top"
    /\ status = {} /\ cia = {} /\ sts = NoSts
    /\ seen = {} /\ what = None
    /\ grown = [c \in Counters |-> 0]

(* The receiver is enabled for the frame that the loop waits for.          *)
Enable ==
    /\ at = "top"
    /\ at' = "wait"
    /\ status' = status \ EnableClears
    /\ cia' = {}
    /\ what' = None
    /\ grown' = [c \in Counters |-> 0]
    /\ UNCHANGED <<program, sts, seen>>

(* The bits that a loop polls SYS_STATUS for.                              *)
Awaited == IF NoData THEN {"RXFR"} \cup AllRxTo \cup AllNdRxErr ELSE {"RXFCG"} \cup AllRxTo \cup AllRxErr

Poll ==
    /\ at \in {"wait", "report"}
    /\ seen' = status
    /\ at' = IF status \cap Awaited = {} THEN at ELSE IF at = "wait" THEN "account" ELSE "account report"
    /\ UNCHANGED <<program, status, cia, sts, what, grown>>

(* check_for_status_errors: the counters it increments, each by one.  The  *)
(* status of the STS is read when it runs.                                 *)
StatusErrors ==
    LET If(c, bits) == IF bits \cap seen # {} THEN {c} ELSE {}
    IN  (IF "RXFCG" \notin seen THEN {"BAD_FRAME"} ELSE {})
        \cup If("RSE", {"RXFSL"}) \cup If("PHE", {"RXPHE"}) \cup If("PTO", {"RXPTO"}) \cup If("ARFE", {"ARFE"})
        \cup (IF "RXFR" \in seen /\ "RXFCG" \notin seen THEN {"CRC"} ELSE {})
        \cup If("RTO", AllRxTo) \cup If("SFDTO", {"RXSTO"})
        \cup (IF "CPERR" \in seen THEN {"STS_PREAMBLE"} \cup sts.warn ELSE {})

(* What the programs add to them.                                          *)
QualityErrors ==
    (IF sts.quality # "good" THEN {"PREAMBLE_COUNT"} ELSE {})
    \cup (IF sts.quality = "none" THEN {"CP_QUAL"} ELSE {})
BadFrame == IF "RXFCG" \notin seen THEN {"BAD_FRAME"} ELSE {}

Grow(first, second) ==
    grown' = [c \in Counters |-> grown[c] + (IF c \in first THEN 1 ELSE 0) + (IF c \in second THEN 1 ELSE 0)]

(* Mutant: the time outs are left for the next loop.                       *)
Cleared_NoTimeouts == status \ AllRxErr

(* The end of a loop that has accounted for an error: an initiator clears  *)
(* the time outs too, a responder has none.                                *)
Cleared == status \ (IF Initiator THEN AllRxGood \cup AllRxTo \cup AllRxErr ELSE AllRxErr)

(* With an STS in every frame: a frame is used if it and its STS are good. *)
(* The initiator counts a frame that is not the expected answer, both      *)
(* count one that is too long.                                             *)
AccountSts ==
    /\ at = "account" /\ program \in {"init_sts", "resp_sts"}
    /\ at' = "top"
    /\ IF "RXFCG" \in seen /\ sts.quality = "good"
       THEN /\ Grow(IF what.kind = "long" THEN {"RTO"}
                    ELSE IF what.kind = "other" /\ Initiator THEN {"BAD_FRAME"} ELSE {}, {})
            /\ status' = IF Initiator THEN Cleared ELSE status \ AllRxGood
       ELSE /\ Grow(StatusErrors, BadFrame \cup QualityErrors)
            /\ status' = Cleared
    /\ UNCHANGED <<program, cia, sts, seen, what>>

(* Packets without data: RXFR stands for RXFCG.  A good one has the        *)
(* initiator wait for the report, a frame with data.                       *)
AccountNoData ==
    /\ at = "account" /\ program \in {"init_nodata", "resp_nodata"}
    /\ IF "RXFR" \in seen /\ sts.quality = "good"
       THEN IF Initiator
            THEN /\ at' = "report"
                 /\ status' = (status \ AllRxGood) \ EnableClears
                 /\ what' = None /\ cia' = {}
                 /\ UNCHANGED grown
            ELSE /\ at' = "top"
                 /\ UNCHANGED <<status, what, cia, grown>>
       ELSE /\ at' = "top"
            /\ IF "RXFR" \in seen THEN Grow({"PREAMBLE_COUNT"}, {}) ELSE Grow(StatusErrors, QualityErrors)
            /\ status' = Cleared
            /\ UNCHANGED <<what, cia>>
    /\ UNCHANGED <<program, sts, seen>>

(* The report of the responder, without an STS.                            *)
AccountReport ==
    /\ at = "account report"
    /\ at' = "top"
    /\ IF "RXFCG" \in seen
       THEN Grow(IF what.kind = "long" THEN {"RTO"} ELSE IF what.kind = "other" THEN {"BAD_FRAME"} ELSE {}, {})
       ELSE Grow(StatusErrors, {})
    /\ status' = Cleared
    /\ UNCHANGED <<program, cia, sts, seen, what>>

Account == AccountSts \/ AccountNoData \/ AccountReport

Next == Receive \/ CiaDone \/ Enable \/ Poll \/ Account

(* The loop goes on by itself; that anything arrives is not assumed.       *)
Spec == Init /\ [][Next]_vars /\ WF_vars(Enable) /\ WF_vars(Poll) /\ WF_vars(Account)

----------------------------------------------------------------------------
(* Properties.                                                             *)

TypeOK ==
    /\ program \in Programs
    /\ at \in {"top", "wait", "account", "report", "account report"}
    /\ status \subseteq Bits /\ cia \subseteq {"CPERR", "CIAERR"} /\ seen \subseteq Bits
    /\ sts \in [quality : Quality, warn : SUBSET Warnings]
    /\ what.kind \in {"none", "mine", "other", "long", "packet", "crc", "header", "solomon", "sfd", "preamble", "wait"}
    /\ grown \in [Counters -> 0 .. 2]

(* The condition of the reception that a counter stands for.  A time out   *)
(* of either kind is a time out of the receiver, and so is what a program  *)
(* makes of a frame that does not fit its buffer.                          *)
Cause(c) ==
    CASE c = "CRC" -> what.kind \in {"crc", "packet"}
      [] c = "RSE" -> what.kind = "solomon"
      [] c = "PHE" -> what.kind = "header"
      [] c = "SFDTO" -> what.kind = "sfd"
      [] c = "PTO" -> what.kind = "preamble"
      [] c = "RTO" -> what.kind \in {"preamble", "wait", "long"}
      [] c = "ARFE" -> FALSE
      [] c = "BAD_FRAME" -> what.kind \notin {"mine", "long"}
      [] c = "PREAMBLE_COUNT" -> what.sts.quality # "good"
      [] c = "CP_QUAL" -> what.sts.quality = "none"
      [] OTHER -> "CPERR" \in what.raised /\ (c = "STS_PREAMBLE" \/ c \in what.sts.warn)

(* A counter grows only for a reception of this loop that has its          *)
(* condition, not for what an earlier one has left in the chip.            *)
TrueCause == at = "top" => \A c \in Counters : grown[c] > 0 => Cause(c)

(* The reception of a loop gives what the program is there for: its frame, *)
(* with a good STS unless it is the report.  The responder passes over a   *)
(* frame that is not for it.                                               *)
Usable ==
    \/ program = "init_nodata" /\ what.kind = "mine"
    \/ program = "resp_nodata" /\ what.kind = "packet" /\ what.sts.quality = "good"
    \/ program = "init_sts" /\ what.kind = "mine" /\ what.sts.quality = "good"
    \/ program = "resp_sts" /\ what.kind \in {"mine", "other"} /\ what.sts.quality = "good"

(* Every loop whose reception was of no use has moved a counter, and one   *)
(* whose reception was as expected has moved none.                         *)
FailureCounted ==
    at = "top" /\ what # None => (Usable <=> \A c \in Counters : grown[c] = 0)

(* An error is counted once: no counter grows by two within a loop.        *)
CountedOnce == \A c \in Counters : grown[c] <= 1

(* Whatever a reception ends in, the loop notices and begins again.        *)
LoopGoesOn == what # None ~> what = None
=============================================================================
