---------------------------- MODULE PairCommands ----------------------------
(***************************************************************************)
(* From the two commands of the server to the frames of the two devices:   *)
(* what a command's JSON arguments are read as, how the service's calls    *)
(* order them, and the frame header, byte by byte, that one device writes  *)
(* and the other compares. A JSON number may be of any size; short, long   *)
(* and byte have the bounds below, in the proportions of the ESP32's.      *)
(***************************************************************************)
EXTENDS Integers

CONSTANTS
  Numerals,  \* what the server may put in a field, with -1
  Timeouts,  \* in that of a timeout
  Byte,      \* values of a byte: 256
  LongMax    \* the largest long: 2^31 - 1

ShortMax == Byte * Byte - 1
Numbers == Numerals \cup {-1}

NumbersAreInts == Numerals \cup Timeouts \subseteq Nat /\ {Byte, LongMax} \subseteq Nat \ {0}

VARIABLES
  listening,  \* the arguments of the listener's call, or None
  initiated,  \* those of the initiator's
  asked,      \* those of the two commands, as the server wrote them
  poll,       \* the header in the air, or None
  resp,
  report      \* what the initiator reports, or None

vars == <<listening, initiated, asked, poll, resp, report>>

None == [pan |-> -1]
Args == [pan : Numbers, dst : Numbers, src : Numbers, timeout : Timeouts \cup {-1}]

Init ==
  /\ listening = None /\ initiated = None
  /\ asked = [listen |-> None, initiate |-> None]
  /\ poll = <<>> /\ resp = <<>> /\ report = None

-----------------------------------------------------------------------------
(* The arguments. A number that a long does not hold is none.              *)

IsLong(n) == n \in -LongMax - 1 .. LongMax

ReadUint16(n) == IF IsLong(n) /\ n \in 0 .. ShortMax THEN <<n>> ELSE <<>>
ReadUint32(n) == IF IsLong(n) /\ n >= 0 THEN <<n>> ELSE <<>>

ReadRangingArgs(a) ==
  [pan |-> ReadUint16(a.pan), dst |-> ReadUint16(a.dst), src |-> ReadUint16(a.src),
   timeout |-> ReadUint32(a.timeout)]

Accepted(a) == \A f \in DOMAIN a : ReadRangingArgs(a)[f] # <<>>
AsRead(a) == [f \in DOMAIN a |-> ReadRangingArgs(a)[f][1]]

-----------------------------------------------------------------------------
(* The header: two bytes each of the network, the receiver and the sender. *)

Low(v) == v % Byte
High(v) == (v \div Byte) % Byte
GetUint16(frame, low) == frame[low] + Byte * frame[low + 1]

FillFrameHeader(pan, dst, src, fn) ==
  <<Low(pan), High(pan), Low(dst), High(dst), Low(src), High(src), fn>>

HasExpectedHeader(frame, pan, dst, src, fn) ==
  /\ GetUint16(frame, 1) = pan /\ GetUint16(frame, 3) = dst /\ GetUint16(frame, 5) = src
  /\ frame[7] = fn

-----------------------------------------------------------------------------
(* The two devices handle their commands; an adapter refuses a timeout of  *)
(* zero. listen hears polls for the destination, from the source, and      *)
(* initiate hears responses for the source, from the destination.          *)

Listen(a) ==
  /\ asked.listen = None /\ asked' = [asked EXCEPT !.listen = a]
  /\ listening' = IF Accepted(a) /\ AsRead(a).timeout > 0 THEN AsRead(a) ELSE None
  /\ UNCHANGED <<initiated, poll, resp, report>>

(* Mutant: the addresses in the order that listen takes them.              *)
Initiate_Swapped(a) ==
  /\ asked.initiate = None /\ asked' = [asked EXCEPT !.initiate = a]
  /\ IF Accepted(a) /\ AsRead(a).timeout > 0
     THEN LET c == AsRead(a) IN
          /\ initiated' = [c EXCEPT !.src = c.dst, !.dst = c.src]
          /\ poll' = FillFrameHeader(c.pan, c.src, c.dst, "poll")
     ELSE UNCHANGED <<initiated, poll>>
  /\ UNCHANGED <<listening, resp, report>>

Initiate(a) ==
  /\ asked.initiate = None /\ asked' = [asked EXCEPT !.initiate = a]
  /\ IF Accepted(a) /\ AsRead(a).timeout > 0
     THEN LET c == AsRead(a) IN
          /\ initiated' = c
          /\ poll' = FillFrameHeader(c.pan, c.dst, c.src, "poll")
     ELSE UNCHANGED <<initiated, poll>>
  /\ UNCHANGED <<listening, resp, report>>

HearPoll ==
  /\ listening # None /\ poll # <<>> /\ resp = <<>>
  /\ HasExpectedHeader(poll, listening.pan, listening.dst, listening.src, "poll")
  /\ resp' = FillFrameHeader(listening.pan, listening.src, listening.dst, "resp")
  /\ UNCHANGED <<listening, initiated, asked, poll, report>>

HearResponse ==
  /\ resp # <<>> /\ report = None
  /\ HasExpectedHeader(resp, initiated.pan, initiated.src, initiated.dst, "resp")
  /\ report' = [pan |-> initiated.pan, src |-> initiated.src, dst |-> initiated.dst]
  /\ UNCHANGED <<listening, initiated, asked, poll, resp>>

Done == asked.listen # None /\ asked.initiate # None /\ UNCHANGED vars

Next == (\E a \in Args : Listen(a) \/ Initiate(a)) \/ HearPoll \/ HearResponse \/ Done

Spec == Init /\ [][Next]_vars /\ WF_vars(HearPoll) /\ WF_vars(HearResponse)

-----------------------------------------------------------------------------
(* Properties.                                                             *)

SameDevices(a, b) == a.pan = b.pan /\ a.src = b.src /\ a.dst = b.dst

(* A distance is reported only when the server gave both devices the same  *)
(* network and addresses, and with these, unshortened and not swapped.     *)
PairServed ==
  report # None => /\ SameDevices(asked.listen, asked.initiate)
                   /\ SameDevices(report, asked.initiate)

(* Two commands for one pair, as build_command writes them, with addresses *)
(* of 16 bits and timeouts that a long holds, lead to a report.            *)
Fits(a) == /\ \A f \in {"pan", "dst", "src"} : a[f] \in 0 .. ShortMax
           /\ a.timeout \in 1 .. LongMax
PairIsRanged ==
  /\ asked.listen # None /\ asked.initiate # None
  /\ SameDevices(asked.listen, asked.initiate) /\ Fits(asked.listen) /\ Fits(asked.initiate)
  ~> report # None
=============================================================================
