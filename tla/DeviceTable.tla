---------------------------- MODULE DeviceTable ----------------------------
(***************************************************************************)
(* The table of a tag by itself: devices appear, make themselves heard,    *)
(* fall silent, and are checked for inactivity.                            *)
(***************************************************************************)
EXTENDS NetworkDevices, FiniteSets

CONSTANTS
  Addr,         \* short addresses of the devices around
  MaxDevices,   \* MAX_DEVICES
  LenData       \* LEN_DATA

NetworkDevicesAssumption ==
  IsFiniteSet(Addr) /\ MaxDevices \in Nat \ {0} /\ LenData \in Nat

VARIABLE devices

(* An entry; elapsed, which is not in the code, is whether INACTIVITY_TIME *)
(* has gone by since the device was added or last heard.                   *)
Entry == [addr : Addr, index : 0 .. Cardinality(Addr) - 1, silent : BOOLEAN, elapsed : BOOLEAN]

Init == devices = <<>>

(* A device is added: its activity is not initialised.                     *)
Appears(a) ==
  \E silent \in BOOLEAN :
    devices' = AddDevice(devices,
                 [addr |-> a, index |-> 0, silent |-> silent, elapsed |-> FALSE])

NoteActivity(i) == devices' = [devices EXCEPT ![i].silent = FALSE, ![i].elapsed = FALSE]

(* INACTIVITY_TIME goes by without a sign of it.                           *)
FallsSilent(i) == devices' = [devices EXCEPT ![i].silent = TRUE, ![i].elapsed = TRUE]

Check == devices' = CheckInactive(devices)

Next ==
  \/ \E a \in Addr : Appears(a)
  \/ \E i \in DOMAIN devices : NoteActivity(i) \/ FallsSilent(i)
  \/ Check

Spec == Init /\ [][Next]_devices /\ WF_devices(Check)

-----------------------------------------------------------------------------
(* Properties.                                                             *)

(* Every variable keeps its type.                                          *)
TypeOK == devices \in Seq(Entry)

(* Through every removal each device carries the index of its place, which *)
(* tells a tag whose POLL_ACK is the last, and no device is there twice.   *)
TableSound ==
  \A i \in DOMAIN devices :
    /\ devices[i].index = i - 1
    /\ \A j \in DOMAIN devices : devices[j].addr = devices[i].addr => j = i

(* A check keeps every device that is not silent, in its order, and        *)
(* changes nothing of a device but its index.                              *)
KeptAt(ds, new, place) ==
  /\ \A j, k \in DOMAIN new : j < k => place[j] < place[k]
  /\ \A k \in DOMAIN new : new[k] = [ds[place[k]] EXCEPT !.index = new[k].index]
  /\ \A i \in DOMAIN ds : ds[i].silent \/ \E k \in DOMAIN new : place[k] = i
Keeps(ds, new) == \E place \in [DOMAIN new -> DOMAIN ds] : KeptAt(ds, new, place)
KeepsActive == [][Check => Keeps(devices, devices')]_devices

(* A device that stays silent goes in the end, though a check may pass     *)
(* over it, and whatever others come and go.                               *)
Silent(a) == \E i \in DOMAIN devices : devices[i].addr = a /\ devices[i].silent
SilentGo == \A a \in Addr : Silent(a) ~> ~Silent(a)

(* Only a device that was not heard for INACTIVITY_TIME is removed.        *)
Listed(ds) == {ds[i].addr : i \in DOMAIN ds}
OnlyTheInactiveGo ==
  [][\A i \in DOMAIN devices :
       devices[i].addr \notin Listed(devices') => devices[i].elapsed]_devices

(* The array has room for MAX_DEVICES, and holds no more.                  *)
DevicesFit == Len(devices) <= MaxDevices

(* What a RANGE says of all devices has room in the buffer for frames.     *)
RangeFits == Len(devices) <= MaxDevices => RangeBytes(Len(devices)) <= LenData

(* Devices answer a POLL in the order of the table, so that the last one   *)
(* of the table, which the tag waits for, is the last to answer.           *)
AnswersInOrder ==
  Len(devices) <= MaxDevices =>
    \A i, j \in DOMAIN devices : i < j => ReplyTime(i) < ReplyTime(j)
=============================================================================
