------------------------------ MODULE WifiTask ------------------------------
(***************************************************************************)
(* The task that keeps WiFi up: the loop of                                *)
(* controllers/task/wifi_connection.cpp, through                           *)
(* services/task/wifi_connection/base_impl.cpp, on                         *)
(* adapters/wifi/connection/esp32_impl.cpp, and the station below it.      *)
(* Time passes in ticks, and only while the task sleeps.                   *)
(***************************************************************************)
EXTENDS Integers

CONSTANTS
  CheckInterval,   \* ticks of the delay between two checks
  AssocTime,       \* ticks within which an association succeeds or fails
  MaxLosses        \* times the access point vanishes in a behaviour

WifiTaskAssumption ==
  /\ CheckInterval \in Nat \ {0}
  /\ AssocTime \in Nat \ {0}
  /\ MaxLosses \in Nat

VARIABLES
  running,   \* WiFiConnection::running
  pc,        \* where the task is
  left,      \* ticks left of its delay
  station,   \* "off", "lost", "associating" or "connected"
  age,       \* ticks since the association began
  ap,        \* whether the access point is there
  losses,    \* times it vanished
  waits      \* begins since the access point appeared and the task ran

vars == <<running, pc, left, station, age, ap, losses, waits>>

Init ==
  /\ running = TRUE
  /\ pc = "check"
  /\ left = 0
  /\ station = "off"
  /\ age = 0
  /\ ap \in BOOLEAN
  /\ losses = 0
  /\ waits = 0

-----------------------------------------------------------------------------
(* The task.                                                               *)

(* Mutant: the loop ends without disconnecting.                            *)
CheckRunning_NoDisconnect ==
  /\ pc = "check" /\ ~running
  /\ pc' = "ended"
  /\ UNCHANGED <<running, left, station, age, ap, losses, waits>>

(* The loop is over: WiFi.disconnect(true), which turns the radio off.     *)
CheckRunning ==
  /\ pc = "check" /\ ~running
  /\ station' = "off"
  /\ age' = 0
  /\ pc' = "ended"
  /\ UNCHANGED <<running, left, ap, losses, waits>>

(* isConnected(): WiFi.status() == WL_CONNECTED.                           *)
Check ==
  /\ pc = "check" /\ running
  /\ \/ /\ station = "connected"
        /\ pc' = "delay" /\ left' = CheckInterval
     \/ /\ station # "connected"
        /\ pc' = "begin" /\ UNCHANGED left
  /\ UNCHANGED <<running, station, age, ap, losses, waits>>

(* connect(): WiFi.mode and WiFi.begin.  Whether begin starts over what is *)
(* under way, or leaves it, is the station's choice.                       *)
Begin ==
  /\ pc = "begin"
  /\ pc' = "delay"
  /\ left' = CheckInterval
  /\ \/ station' = "associating" /\ age' = 0
     \/ station \in {"associating", "connected"} /\ UNCHANGED <<station, age>>
  /\ waits' = IF ap /\ waits < 2 THEN waits + 1 ELSE waits
  /\ UNCHANGED <<running, ap, losses>>

Delayed ==
  /\ pc = "delay" /\ left = 0
  /\ pc' = "check"
  /\ left' = 0
  /\ UNCHANGED <<running, station, age, ap, losses, waits>>

-----------------------------------------------------------------------------
(* The station, the access point, and the task that calls stop().          *)

(* An association succeeds where there is an access point, fails where     *)
(* there is none, and does so in AssocTime.                                *)
Settle ==
  /\ station = "associating" /\ age > 0
  /\ station' = IF ap THEN "connected" ELSE "lost"
  /\ age' = 0
  /\ UNCHANGED <<running, pc, left, ap, losses, waits>>

(* The station may also try again by itself.                               *)
Retry ==
  /\ station = "lost"
  /\ station' = "associating"
  /\ age' = 0
  /\ UNCHANGED <<running, pc, left, ap, losses, waits>>

Appear ==
  /\ ~ap
  /\ ap' = TRUE
  /\ waits' = 0
  /\ UNCHANGED <<running, pc, left, station, age, losses>>

Vanish ==
  /\ ap
  /\ losses < MaxLosses
  /\ losses' = losses + 1
  /\ ap' = FALSE
  /\ station' = IF station = "connected" THEN "lost" ELSE station
  /\ waits' = 0
  /\ UNCHANGED <<running, pc, left, age>>

Stop ==
  /\ running
  /\ running' = FALSE
  /\ UNCHANGED <<pc, left, station, age, ap, losses, waits>>

Tick ==
  /\ pc = "delay" /\ left > 0
  /\ station = "associating" => age < AssocTime
  /\ left' = left - 1
  /\ age' = IF station = "associating" THEN age + 1 ELSE age
  /\ UNCHANGED <<running, pc, station, ap, losses, waits>>

-----------------------------------------------------------------------------
Task == CheckRunning \/ Check \/ Begin \/ Delayed

Done == pc = "ended" /\ UNCHANGED vars

Next == Task \/ Settle \/ Retry \/ Appear \/ Vanish \/ Stop \/ Tick \/ Done

(* The task is scheduled, time passes, an association comes to an end.     *)
Spec == Init /\ [][Next]_vars /\ WF_vars(Task) /\ WF_vars(Tick) /\ WF_vars(Settle)

-----------------------------------------------------------------------------
(* Properties.                                                             *)

(* Every variable keeps its type, and time stands still but in the delay.  *)
TypeOK ==
  /\ running \in BOOLEAN
  /\ pc \in {"check", "begin", "delay", "ended"}
  /\ left \in 0 .. CheckInterval
  /\ pc # "delay" => left = 0
  /\ station \in {"off", "lost", "associating", "connected"}
  /\ age \in 0 .. AssocTime
  /\ station # "associating" => age = 0
  /\ ap \in BOOLEAN
  /\ losses \in 0 .. MaxLosses
  /\ waits \in 0 .. 2

(* As long as an association takes less than the delay between two checks, *)
(* one call of WiFi.begin with the access point there is enough: the next  *)
(* check finds the connection, and does not start over again.              *)
OneBeginIsEnough == waits <= 1

(* A task that has ended has left WiFi off, and nothing that was under way *)
(* brings it back.                                                         *)
StaysOff == pc = "ended" => station = "off"

(* Both: the station does what the task asks of it.                        *)
WifiObeys == TypeOK /\ OneBeginIsEnough /\ StaysOff

(* With the access point there for good, and the task not stopped, WiFi    *)
(* comes up and stays up, whatever was lost before.                        *)
ComesUp == <>[](ap /\ running) => <>[](station = "connected")

(* Once stopped the task ends, and leaves WiFi off: nothing that was under *)
(* way when it was stopped brings it back.                                 *)
StopTurnsOff == ~running ~> [](pc = "ended" /\ station = "off")
=============================================================================
