--------------------------- MODULE NetworkDevices ---------------------------
(***************************************************************************)
(* The table of the other devices of a DW1000 network, an array and a      *)
(* count: addNetworkDevices, removeNetworkDevices, searchDistantDevice and *)
(* checkForInactiveDevices of DW1000Ranging.cpp, with DW1000Device.cpp.    *)
(* The array is a sequence, which counts from 1; the index that a device   *)
(* carries counts from 0.                                                  *)
(***************************************************************************)
EXTENDS Integers, SequencesExt

(* searchDistantDevice, by short address: 0 for nullptr.                   *)
Position(ds, a) ==
  IF \E i \in DOMAIN ds : ds[i].addr = a THEN CHOOSE i \in DOMAIN ds : ds[i].addr = a ELSE 0

(* addNetworkDevices on a tag.                                             *)
AddDevice(ds, dev) ==
  IF Position(ds, dev.addr) # 0 THEN ds
  ELSE Append(ds, [dev EXCEPT !.index = Len(ds)])

(* Mutant: the one before it goes.                                         *)
RemoveDevice_Before(ds, i) ==
  IF Len(ds) = 1 THEN <<>>
  ELSE IF i = Len(ds) THEN Front(ds)
  ELSE [j \in 1 .. Len(ds) - 1 |->
          IF j < i - 1 THEN ds[j] ELSE [ds[j + 1] EXCEPT !.index = j - 1]]

(* removeNetworkDevices: of one element whichever it is, else the last, or *)
(* the others move up.                                                     *)
RemoveDevice(ds, i) ==
  IF Len(ds) = 1 THEN <<>>
  ELSE IF i = Len(ds) THEN Front(ds)
  ELSE [j \in 1 .. Len(ds) - 1 |->
          IF j < i THEN ds[j] ELSE [ds[j + 1] EXCEPT !.index = j - 1]]

(* Mutant: the loop ends before the last one.                              *)
CheckInactive_ButLast(ds) ==
  LET after[i \in 0 .. Len(ds)] ==
        IF i = 0 THEN ds
        ELSE IF i < Len(after[i - 1]) /\ after[i - 1][i].silent
        THEN RemoveDevice(after[i - 1], i)
        ELSE after[i - 1]
  IN  after[Len(ds)]

(* checkForInactiveDevices: the loop goes on to the next index after it    *)
(* has removed a device, and so passes over the one that took its place.   *)
CheckInactive(ds) ==
  LET after[i \in 0 .. Len(ds)] ==  \* the table after the turns up to the i-th
        IF i = 0 THEN ds
        ELSE IF i <= Len(after[i - 1]) /\ after[i - 1][i].silent
        THEN RemoveDevice(after[i - 1], i)
        ELSE after[i - 1]
  IN  after[Len(ds)]

(* What transmitPoll gives the i-th device for its answer, a uint16_t.     *)
ReplyTime(i) == (2 * i - 1) * 7000 % 65536

(* What transmitRange writes: header, type and count, and 17 bytes for     *)
(* each device.                                                            *)
RangeBytes(n) == 9 + 2 + 17 * n
=============================================================================
