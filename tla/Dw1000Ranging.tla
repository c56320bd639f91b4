--------------------------- MODULE Dw1000Ranging ---------------------------
(***************************************************************************)
(* The ranging protocol of the DW1000 library: a tag that blinks, polls    *)
(* all anchors it knows of in one broadcast, collects their answers, and   *)
(* broadcasts the times it saw, from which each anchor computes its range. *)
(*                                                                         *)
(* A timestamp is TRUE when it was taken in the exchange that the tag's    *)
(* last POLL began and FALSE when it is older, so that no clock is needed: *)
(* a new POLL makes every timestamp FALSE.  Frames leave in the order of   *)
(* their reply times, and the loops are fast: no frame leaves while a loop *)
(* has one to handle, and an exchange ends before the timer's next tick.   *)
(***************************************************************************)
EXTENDS NetworkDevices, FiniteSets

CONSTANTS
  Anchors,
  Tag,
  BlinkPeriod,  \* ticks of the timer from BLINK to BLINK, 21 in the code
  Inactivity,   \* ticks without a sign of a device until it is inactive
  Restarting,   \* the modules that may lose power
  NoFrame

Dw1000RangingAssumption ==
  /\ Tag \notin Anchors /\ IsFiniteSet(Anchors)
  /\ BlinkPeriod \in Nat \ {0}
  /\ Inactivity \in Nat
  /\ Restarting \subseteq Anchors \union {Tag}

VARIABLES
  devices,      \* _networkDevices of the tag
  expected,     \* _expectedMsgId of every module
  counter,      \* counterForBlink of the tag
  known,        \* _networkDevices of an anchor: the tag, or nothing
  failed,       \* _protocolFailed of an anchor
  slot,         \* _replyDelayTimeUS of an anchor, in reply times
  range,        \* the last range of an anchor, if of this exchange
  tx,           \* the frame in the transmitter of every module
  sent,         \* _sentAck, with the type of what was sent
  got,          \* _receivedAck, with the frame received
  calm          \* from here on all goes well

tagVars == <<devices, counter>>
anchorVars == <<known, failed, slot, range>>
vars == <<tagVars, anchorVars, expected, tx, sent, got, calm>>

Module == Anchors \union {Tag}
MsgId == {"POLL", "POLL_ACK", "RANGE", "RANGE_REPORT", "RANGE_FAILED", "BLINK", "RANGING_INIT"}

(* The age at which a device is inactive, and no older.                    *)
Inactive == Inactivity + 1
Older(age) == IF age < Inactive THEN age + 1 ELSE age

(* An entry of a tag's table, and of an anchor's.                          *)
NewAnchor(a, age) == [addr |-> a, index |-> 0, silent |-> age = Inactive, age |-> age,
                      pollSent |-> FALSE, pollAckReceived |-> FALSE, range |-> "none"]
NewTag(age) == [age |-> age, pollReceived |-> FALSE, pollAckSent |-> FALSE]
NoTag == [age |-> 0]

Frame(type, from, when, list) ==
  [type |-> type, from |-> from, slot |-> when, list |-> list]

Init ==
  /\ devices = <<>> /\ counter = 0
  /\ known = [a \in Anchors |-> NoTag]
  /\ failed = [a \in Anchors |-> FALSE]
  /\ slot = [a \in Anchors |-> 1]
  /\ range = [a \in Anchors |-> "none"]
  /\ expected = [n \in Module |-> "POLL"]
  /\ tx = [n \in Module |-> NoFrame]
  /\ sent = [n \in Module |-> "none"]
  /\ got = [n \in Module |-> NoFrame]
  /\ calm = FALSE

-----------------------------------------------------------------------------
(* The radios.                                                             *)

(* A new transmission takes the place of one that has not left yet.        *)
Transmit(n, frame) == tx' = [tx EXCEPT ![n] = frame]

Handled == \A n \in Module : sent[n] = "none" /\ got[n] = NoFrame
Quiet == Handled /\ \A n \in Module : tx[n] = NoFrame

(* The next frame leaves, and each module that is not about to transmit    *)
(* hears it or not.                                                        *)
Air(n) ==
  /\ tx[n] # NoFrame /\ Handled
  /\ \A o \in Module : tx[o] # NoFrame => tx[n].slot <= tx[o].slot
  /\ LET able == {o \in Module \ {n} : tx[o] = NoFrame}
     IN  \E hear \in IF calm THEN {able} ELSE SUBSET able :
           got' = [o \in Module |-> IF o \in hear THEN tx[n] ELSE NoFrame]
  /\ sent' = [sent EXCEPT ![n] = tx[n].type]
  /\ tx' = [tx EXCEPT ![n] = NoFrame]
  /\ UNCHANGED <<tagVars, anchorVars, expected, calm>>

-----------------------------------------------------------------------------
(* The tag.                                                                *)

(* The timestamps and ranges of the last exchange are now old.             *)
NewExchange ==
  /\ devices' = [i \in DOMAIN devices |->
       LET d == devices[i] IN
         [d EXCEPT !.age = Older(d.age), !.silent = Older(d.age) = Inactive,
                   !.pollSent = FALSE, !.pollAckReceived = FALSE, !.range = "none"]]
  /\ known' = [a \in Anchors |->
       IF known[a] = NoTag THEN NoTag ELSE NewTag(Older(known[a].age))]
  /\ range' = [a \in Anchors |-> "none"]

(* All grow older, with no new exchange.                                   *)
Age(ds) == [i \in DOMAIN ds |->
  [ds[i] EXCEPT !.age = Older(@), !.silent = Older(ds[i].age) = Inactive]]
AgeTag == [a \in Anchors |->
  IF known[a] = NoTag THEN NoTag ELSE [known[a] EXCEPT !.age = Older(@)]]

Addresses(ds) == [i \in DOMAIN ds |-> [addr |-> ds[i].addr]]

(* timerTick with devices in the table: transmitPoll.                      *)
TickPoll ==
  /\ Quiet
  /\ devices # <<>> /\ counter # 0
  /\ NewExchange
  /\ expected' = [expected EXCEPT ![Tag] = "POLL_ACK"]
  /\ Transmit(Tag, Frame("POLL", Tag, 0, Addresses(devices)))
  /\ counter' = (counter + 1) % BlinkPeriod
  /\ UNCHANGED <<failed, slot, sent, got, calm>>

(* timerTick of the time to blink: transmitBlink and                       *)
(* checkForInactiveDevices.                                                *)
TickBlink ==
  /\ Quiet
  /\ counter = 0
  /\ Transmit(Tag, Frame("BLINK", Tag, 0, <<>>))
  /\ devices' = CheckInactive(Age(devices))
  /\ known' = AgeTag
  /\ counter' = (counter + 1) % BlinkPeriod
  /\ UNCHANGED <<failed, slot, range, expected, sent, got, calm>>

(* timerTick with nobody to poll.                                          *)
TickIdle ==
  /\ Quiet
  /\ devices = <<>> /\ counter # 0
  /\ known' = AgeTag
  /\ counter' = (counter + 1) % BlinkPeriod
  /\ UNCHANGED <<devices, failed, slot, range, expected, tx, sent, got, calm>>

Tick == TickPoll \/ TickBlink \/ TickIdle

(* Mutant: no time is taken of a broadcast.                                *)
TagSent_NoTime ==
  /\ sent[Tag] # "none"
  /\ sent' = [sent EXCEPT ![Tag] = "none"]
  /\ UNCHANGED <<tagVars, anchorVars, expected, tx, got, calm>>

(* loop with _sentAck, on a tag: after a broadcast POLL.                   *)
TagSent ==
  /\ sent[Tag] # "none"
  /\ sent' = [sent EXCEPT ![Tag] = "none"]
  /\ devices' = IF sent[Tag] = "POLL"
                THEN [i \in DOMAIN devices |-> [devices[i] EXCEPT !.pollSent = TRUE]]
                ELSE devices
  /\ UNCHANGED <<counter, anchorVars, expected, tx, got, calm>>

(* The head of loop with _receivedAck.                                     *)
Receive(n) ==
  /\ got[n] # NoFrame
  /\ got' = [got EXCEPT ![n] = NoFrame]
  /\ UNCHANGED <<sent, calm>>

(* RANGING_INIT: its activity is not initialised.                          *)
TagRangingInit ==
  /\ Receive(Tag)
  /\ got[Tag].type = "RANGING_INIT"
  /\ \E age \in IF calm THEN {0} ELSE 0 .. Inactive :
       devices' = AddDevice(devices, NewAnchor(got[Tag].from, age))
  /\ UNCHANGED <<counter, anchorVars, expected, tx>>

(* What a tag drops: frames of strangers, and those it does not expect.    *)
TagExpects(type) ==
  /\ got[Tag].type = type
  /\ Position(devices, got[Tag].from) # 0
  /\ expected[Tag] = type

TagIgnores ==
  /\ Receive(Tag)
  /\ got[Tag].type # "RANGING_INIT"
  /\ ~\E type \in {"POLL_ACK", "RANGE_REPORT"} : TagExpects(type)
  /\ UNCHANGED <<tagVars, anchorVars, expected, tx>>

(* The list of a RANGE: the times of the POLL and of each POLL_ACK.        *)
Times(ds) == [i \in DOMAIN ds |->
  [addr |-> ds[i].addr, pollSent |-> ds[i].pollSent, pollAckReceived |-> ds[i].pollAckReceived]]

(* Mutant: any POLL_ACK is taken for the last.                             *)
TagPollAck_Any ==
  /\ Receive(Tag)
  /\ TagExpects("POLL_ACK")
  /\ LET i   == Position(devices, got[Tag].from)
         now == [devices EXCEPT ![i].pollAckReceived = TRUE, ![i].age = 0, ![i].silent = FALSE]
     IN  /\ devices' = now
         /\ expected' = [expected EXCEPT ![Tag] = "RANGE_REPORT"]
         /\ Transmit(Tag, Frame("RANGE", Tag, 1, Times(now)))
  /\ UNCHANGED <<counter, anchorVars>>

(* POLL_ACK: after that of the last device of the table, transmitRange.    *)
TagPollAck ==
  /\ Receive(Tag)
  /\ TagExpects("POLL_ACK")
  /\ LET i   == Position(devices, got[Tag].from)
         now == [devices EXCEPT ![i].pollAckReceived = TRUE, ![i].age = 0, ![i].silent = FALSE]
     IN  /\ devices' = now
         /\ IF devices[i].index = Len(devices) - 1
            THEN /\ expected' = [expected EXCEPT ![Tag] = "RANGE_REPORT"]
                 /\ Transmit(Tag, Frame("RANGE", Tag, 1, Times(now)))
            ELSE UNCHANGED <<expected, tx>>
  /\ UNCHANGED <<counter, anchorVars>>

TagRangeReport ==
  /\ Receive(Tag)
  /\ TagExpects("RANGE_REPORT")
  /\ devices' = [devices EXCEPT ![Position(devices, got[Tag].from)].range = got[Tag].list]
  /\ UNCHANGED <<counter, anchorVars, expected, tx>>

-----------------------------------------------------------------------------
(* An anchor.                                                              *)

(* loop with _sentAck, on an anchor.                                       *)
AnchorSent(a) ==
  /\ sent[a] # "none"
  /\ sent' = [sent EXCEPT ![a] = "none"]
  /\ known' = IF sent[a] = "POLL_ACK" /\ known[a] # NoTag
              THEN [known EXCEPT ![a].pollAckSent = TRUE] ELSE known
  /\ UNCHANGED <<tagVars, failed, slot, range, expected, tx, got, calm>>

(* BLINK: a tag that is not known yet, its activity not initialised, is    *)
(* answered with a RANGING_INIT.                                           *)
AnchorBlink(a) ==
  /\ Receive(a)
  /\ got[a].type = "BLINK"
  /\ IF known[a] = NoTag
     THEN /\ \E age \in IF calm THEN {0} ELSE 0 .. Inactive :
               known' = [known EXCEPT ![a] = NewTag(age)]
          /\ Transmit(a, Frame("RANGING_INIT", a, 0, <<>>))
     ELSE UNCHANGED <<known, tx>>
  /\ expected' = [expected EXCEPT ![a] = "POLL"]
  /\ UNCHANGED <<tagVars, failed, slot, range>>

(* The frames of the tag alone are looked at, once it is known.            *)
FromKnown(a) == got[a].from = Tag /\ known[a] # NoTag /\ got[a].type # "BLINK"

AnchorIgnores(a) ==
  /\ Receive(a)
  /\ got[a].type # "BLINK" /\ ~FromKnown(a)
  /\ UNCHANGED <<tagVars, anchorVars, expected, tx>>

(* A message out of turn.                                                  *)
Unexpected(a) == failed[a] \/ got[a].type # expected[a]

(* A message that does not list the anchor.                                *)
AnchorNotListed(a) ==
  /\ Receive(a)
  /\ FromKnown(a)
  /\ Position(got[a].list, a) = 0
  /\ failed' = [failed EXCEPT ![a] = Unexpected(a)]
  /\ UNCHANGED <<tagVars, known, slot, range, expected, tx>>

(* POLL: transmitPollAck, in the slot of the anchor's place in the list.   *)
AnchorPoll(a) ==
  /\ Receive(a)
  /\ FromKnown(a)
  /\ got[a].type = "POLL"
  /\ LET i == Position(got[a].list, a) IN
       /\ i # 0
       /\ slot' = [slot EXCEPT ![a] = 2 * i - 1]
       /\ Transmit(a, Frame("POLL_ACK", a, 2 * i - 1, <<>>))
  /\ failed' = [failed EXCEPT ![a] = FALSE]
  /\ known' = [known EXCEPT ![a].pollReceived = TRUE, ![a].age = 0]
  /\ expected' = [expected EXCEPT ![a] = "RANGE"]
  /\ UNCHANGED <<tagVars, range>>

(* RANGE: computeRangeAsymmetric of six times, which must all be of one    *)
(* exchange, and transmitRangeReport; or transmitRangeFailed.              *)
AnchorRange(a) ==
  /\ Receive(a)
  /\ FromKnown(a)
  /\ got[a].type = "RANGE"
  /\ LET i == Position(got[a].list, a) IN
       /\ i # 0
       /\ IF Unexpected(a)
          THEN /\ Transmit(a, Frame("RANGE_FAILED", a, 0, <<>>))
               /\ UNCHANGED range
          ELSE LET t == got[a].list[i]
                   r == IF t.pollSent /\ t.pollAckReceived /\ known[a].pollReceived
                           /\ known[a].pollAckSent
                        THEN "right" ELSE "wrong"
               IN /\ range' = [range EXCEPT ![a] = r]
                  /\ Transmit(a, Frame("RANGE_REPORT", a, slot[a], r))
  /\ failed' = [failed EXCEPT ![a] = Unexpected(a)]
  /\ expected' = [expected EXCEPT ![a] = "POLL"]
  /\ UNCHANGED <<tagVars, known, slot>>

(* checkForInactiveDevices, at the anchor's own time to blink.             *)
AnchorCheck(a) ==
  /\ known[a] # NoTag
  /\ known[a].age = Inactive
  /\ known' = [known EXCEPT ![a] = NoTag]
  /\ UNCHANGED <<tagVars, failed, slot, range, expected, tx, sent, got, calm>>

(* checkForReset and resetInactive: nothing was sent or received for a     *)
(* while.                                                                  *)
AnchorReset(a) ==
  /\ Quiet
  /\ expected' = [expected EXCEPT ![a] = "POLL"]
  /\ UNCHANGED <<tagVars, anchorVars, tx, sent, got, calm>>

-----------------------------------------------------------------------------
(* Modules lose power.                                                     *)

TurnOff(n) ==
  /\ ~calm /\ n \in Restarting
  /\ expected' = [expected EXCEPT ![n] = "POLL"]
  /\ tx' = [tx EXCEPT ![n] = NoFrame]
  /\ sent' = [sent EXCEPT ![n] = "none"]
  /\ got' = [got EXCEPT ![n] = NoFrame]
  /\ UNCHANGED calm

AnchorRestarts(a) ==
  /\ TurnOff(a)
  /\ known' = [known EXCEPT ![a] = NoTag]
  /\ failed' = [failed EXCEPT ![a] = FALSE]
  /\ slot' = [slot EXCEPT ![a] = 1]
  /\ range' = [range EXCEPT ![a] = "none"]
  /\ UNCHANGED tagVars

TagRestarts ==
  /\ TurnOff(Tag)
  /\ devices' = <<>> /\ counter' = 0
  /\ UNCHANGED anchorVars

CalmDown == calm' = TRUE /\ UNCHANGED <<tagVars, anchorVars, expected, tx, sent, got>>

TagReceived == TagRangingInit \/ TagPollAck \/ TagRangeReport \/ TagIgnores
AnchorReceived(a) ==
  AnchorBlink(a) \/ AnchorPoll(a) \/ AnchorRange(a) \/ AnchorNotListed(a) \/ AnchorIgnores(a)

Next ==
  \/ Tick \/ TagSent \/ TagReceived \/ TagRestarts \/ CalmDown
  \/ \E n \in Module : Air(n)
  \/ \E a \in Anchors : \/ AnchorSent(a) \/ AnchorReceived(a)
                        \/ AnchorCheck(a) \/ AnchorReset(a) \/ AnchorRestarts(a)

Spec == Init /\ [][Next]_vars

(* The loops go on, their timers tick, and frames leave.                   *)
Fairness ==
  /\ WF_vars(Tick) /\ WF_vars(TagSent) /\ WF_vars(TagReceived)
  /\ \A n \in Module : WF_vars(Air(n))
  /\ \A a \in Anchors : WF_vars(AnchorSent(a)) /\ WF_vars(AnchorReceived(a)) /\ WF_vars(AnchorCheck(a))

LiveSpec == Spec /\ Fairness

-----------------------------------------------------------------------------
(* Properties.                                                             *)

(* Every variable keeps its type.                                          *)
TypeOK ==
  /\ counter \in 0 .. BlinkPeriod - 1
  /\ \A i \in DOMAIN devices : devices[i].addr \in Anchors /\ devices[i].index = i - 1
  /\ \A a \in Anchors : known[a] = NoTag \/ known[a] \in [age : 0 .. Inactive, pollReceived : BOOLEAN, pollAckSent : BOOLEAN]
  /\ failed \in [Anchors -> BOOLEAN]
  /\ slot \in [Anchors -> 1 .. 2 * Cardinality(Anchors) - 1]
  /\ range \in [Anchors -> {"none", "right", "wrong"}]
  /\ expected \in [Module -> MsgId]

(* A range is computed from the times of one exchange.                     *)
OneExchange == \A a \in Anchors : range[a] # "wrong"

(* That of the last device of the table is, whatever is lost.              *)
LastIsRight ==
  [][\A a \in Anchors : range'[a] = "wrong" /\ range[a] # "wrong" =>
       devices = <<>> \/ devices[Len(devices)].addr # a]_vars

(* The answers to a POLL are never due at the same moment.                 *)
AnswersApart ==
  \A m, n \in Anchors : m # n /\ tx[m] # NoFrame /\ tx[n] # NoFrame
    /\ tx[m].type = "POLL_ACK" /\ tx[n].type = "POLL_ACK" => tx[m].slot # tx[n].slot

(* Two modules never have a frame for the same moment, but the answers to  *)
(* a BLINK and the reports that a ranging has failed.                      *)
SlotsApart ==
  \A m, n \in Module : m # n /\ tx[m] # NoFrame /\ tx[n] # NoFrame =>
    tx[m].slot # tx[n].slot \/ tx[m].slot = 0

(* Once all goes well, the tag learns the range of every anchor time and   *)
(* again.                                                                  *)
Knows(a) == \E i \in DOMAIN devices : devices[i].addr = a /\ devices[i].range = "right"
RangesAgain == \A a \in Anchors : (<>[]calm) => []<>Knows(a)

(* What holds whatever is lost: the answers are apart, and the last of     *)
(* them gives a right range; and the tag ranges again.                     *)
AnswersServe == [](TypeOK /\ AnswersApart) /\ LastIsRight /\ RangesAgain
=============================================================================
