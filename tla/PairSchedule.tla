---------------------------- MODULE PairSchedule ----------------------------
(***************************************************************************)
(* The test server and its devices together, in time: run_sequence sends   *)
(* a listen, waits, sends an initiate, waits again                         *)
(* (scripts/uwb_server_test.py); each device's task takes one command for  *)
(* every turn of its loop (controllers/task/uwb_stateless.cpp), and the    *)
(* two meet on the air only if the windows that they open for each other   *)
(* overlap.  TestServer says which connections are used, UwbTask what      *)
(* becomes of one that fails, Ranging what is measured; here connections   *)
(* stay, and an exchange, 2 ms at most, takes no time.                     *)
(*                                                                         *)
(* Time passes in ticks.  Within a tick things happen in any order.        *)
(***************************************************************************)
EXTENDS Integers, Sequences

CONSTANTS
  Devices,        \* how many devices; they are numbered
  Lead,           \* LISTEN_LEAD_TIME_S
  PairDelay,      \* PAIR_DELAY_S
  SequenceDelay,  \* SEQUENCE_DELAY_S
  ListenTime,     \* LISTEN_TIMEOUT_UUS, rounded down
  RangingTime,    \* RANGING_TIMEOUT_UUS, rounded up
  CheckInterval,  \* the task's pause, check_interval_ms
  Jitter,         \* the longest a command is on its way
  Late,           \* how long one may be when the network is at fault
  MaxFaults,      \* commands that are late and frames that are lost
  Grace,          \* pairs after a fault that may suffer from it
  SerialMod       \* pairs are numbered, which only properties read

ScheduleAssumption ==
  /\ {Devices, Lead, PairDelay, SequenceDelay, ListenTime, RangingTime, CheckInterval,
      Jitter, Late, MaxFaults, Grace} \subseteq Nat
  /\ Devices >= 2 /\ Jitter < Late /\ SerialMod \in Nat \ {0}

(* What the delays must be for two devices to meet: a target has begun to  *)
(* listen before its source is commanded, listens until that has polled,   *)
(* and both are done before the next pair begins.                          *)
DelaysFit ==
  /\ Jitter + CheckInterval < Lead
  /\ Lead + Jitter + CheckInterval < ListenTime
  /\ Jitter + CheckInterval < PairDelay

Member == 1 .. Devices

VARIABLES
  step,    \* what sequence_loop does next: "listen" or "initiate"
  wait,    \* ticks that it still sleeps
  todo,    \* the pairs left of the sequence, the one at hand first
  serial,  \* the number of that pair
  inbox,   \* inbox[d]: the commands on d's connection
  rest,    \* rest[d]: ticks before its task's next turn
  heard,   \* heard[d]: the command whose poll d listens for, or None
  left,    \* left[d]: ticks that it still listens
  faults,  \* faults so far
  since    \* pairs begun since the last, up to Grace + 1

server == <<step, wait, todo, serial>>
devices == <<inbox, rest, heard, left>>
vars == <<step, wait, todo, serial, inbox, rest, heard, left, faults, since>>

Pairs == {p \in Member \X Member : p[1] # p[2]}
None == [code |-> "none"]

(* run_sequence: for every source, every target but the source.            *)
Others == Devices - 1
RunSequence == [i \in 1 .. Devices * Others |->
  LET source == ((i - 1) \div Others) + 1
      place  == ((i - 1) % Others) + 1
  IN  <<source, IF place < source THEN place ELSE place + 1>>]

Init ==
  /\ step = "listen" /\ wait = 0 /\ todo = RunSequence /\ serial = 0
  /\ inbox = [d \in Member |-> <<>>]
  /\ rest \in [Member -> 0 .. CheckInterval]
  /\ heard = [d \in Member |-> None]
  /\ left = [d \in Member |-> 0]
  /\ faults = 0 /\ since = Grace + 1

-----------------------------------------------------------------------------
(* A fault is counted, or there is none and n pairs have begun since.      *)
Fault(is, n) ==
  IF is
  THEN faults < MaxFaults /\ faults' = faults + 1 /\ since' = 0
  ELSE faults' = faults /\ since' = n

NextPair == IF since > Grace THEN since ELSE since + 1

(* A command of the pair at hand is on its way to d: due is 0 once it is   *)
(* there, and 1 in the tick in which it comes.                             *)
SendJson(d, code, n) ==
  \E delay \in 0 .. Jitter \cup {Late} :
    /\ Fault(delay = Late, n)
    /\ inbox' = [inbox EXCEPT ![d] = Append(@,
         [code |-> code, pair |-> Head(todo), serial |-> serial, due |-> delay + 1])]

(* Mutant: the source is commanded at once.                                *)
SendListen_NoLead ==
  /\ step = "listen" /\ wait = 0
  /\ SendJson(Head(todo)[2], "listen", NextPair)
  /\ step' = "initiate" /\ wait' = 0
  /\ UNCHANGED <<todo, serial, rest, heard, left>>

(* run_pair commands the target to listen...                               *)
SendListen ==
  /\ step = "listen" /\ wait = 0
  /\ SendJson(Head(todo)[2], "listen", NextPair)
  /\ step' = "initiate" /\ wait' = Lead
  /\ UNCHANGED <<todo, serial, rest, heard, left>>

(* ... and, after the lead, the source to initiate. After a pause comes    *)
(* the next pair, and after another the sequence once more.                *)
SendInitiate ==
  /\ step = "initiate" /\ wait = 0
  /\ SendJson(Head(todo)[1], "initiate", since)
  /\ step' = "listen"
  /\ IF Len(todo) > 1
     THEN todo' = Tail(todo) /\ wait' = PairDelay
     ELSE todo' = RunSequence /\ wait' = PairDelay + SequenceDelay
  /\ serial' = (serial + 1) % SerialMod
  /\ UNCHANGED <<rest, heard, left>>

-----------------------------------------------------------------------------
(* A turn of a task's loop takes the first command that has come. One that *)
(* comes in this tick may come too late for it.                            *)
Turn(d) == heard[d] = None /\ rest[d] = 0
Takes(d, code) ==
  Turn(d) /\ inbox[d] # <<>> /\ Head(inbox[d]).due < 2 /\ Head(inbox[d]).code = code

Idle(d) ==
  /\ Turn(d)
  /\ inbox[d] # <<>> => Head(inbox[d]).due > 0
  /\ rest' = [rest EXCEPT ![d] = CheckInterval]
  /\ UNCHANGED <<server, inbox, heard, left, faults, since>>

Listen(d) ==
  /\ Takes(d, "listen")
  /\ heard' = [heard EXCEPT ![d] = Head(inbox[d])]
  /\ left' = [left EXCEPT ![d] = ListenTime]
  /\ inbox' = [inbox EXCEPT ![d] = Tail(@)]
  /\ UNCHANGED <<server, rest, faults, since>>

ListenTimesOut(d) ==
  /\ heard[d] # None /\ left[d] = 0
  /\ heard' = [heard EXCEPT ![d] = None]
  /\ rest' = [rest EXCEPT ![d] = CheckInterval]
  /\ UNCHANGED <<server, inbox, left, faults, since>>

Listening == {d \in Member : heard[d] # None}

(* Of those who hear a poll, who was told to expect it, and answers.       *)
Answering(poll, ears) == {e \in ears : heard[e].pair = poll.pair}

(* The poll goes to all who listen, and ends the listening of all whom it  *)
(* reaches, as the poll that they expect or as a frame that they do not.   *)
(* Frames may be lost.                                                     *)
Exchange(d, ears, ok) ==
  /\ Takes(d, "initiate")
  /\ inbox' = [inbox EXCEPT ![d] = Tail(@)]
  /\ heard' = [e \in Member |-> IF e \in ears THEN None ELSE heard[e]]
  /\ left' = [e \in Member |-> IF e \in ears THEN 0 ELSE left[e]]
  /\ rest' = [e \in Member |->
       IF e = d THEN CheckInterval + (IF ok THEN 0 ELSE RangingTime)
       ELSE IF e \in ears THEN CheckInterval ELSE rest[e]]
  /\ UNCHANGED server

InitiateReports(d) ==
  \E ears \in SUBSET Listening :
    /\ Exchange(d, ears, TRUE)
    /\ Answering(Head(inbox[d]), ears) # {}
    /\ Fault(ears # Listening, since)

InitiateFails(d) ==
  \E ears \in SUBSET Listening :
    /\ Exchange(d, ears, FALSE)
    /\ Fault(ears # Listening \/ Answering(Head(inbox[d]), ears) # {}, since)

(* Time passes once all that is due has happened.                          *)
Tick ==
  /\ wait > 0
  /\ \A d \in Member : IF heard[d] = None THEN rest[d] > 0 ELSE left[d] > 0
  /\ wait' = wait - 1
  /\ rest' = [d \in Member |-> IF rest[d] > 0 THEN rest[d] - 1 ELSE 0]
  /\ left' = [d \in Member |-> IF left[d] > 0 THEN left[d] - 1 ELSE 0]
  /\ inbox' = [d \in Member |-> [i \in 1 .. Len(inbox[d]) |->
       [inbox[d][i] EXCEPT !.due = IF @ > 0 THEN @ - 1 ELSE 0]]]
  /\ UNCHANGED <<step, todo, serial, heard, faults, since>>

Next ==
  \/ SendListen \/ SendInitiate \/ Tick
  \/ \E d \in Member :
       Idle(d) \/ Listen(d) \/ ListenTimesOut(d) \/ InitiateReports(d) \/ InitiateFails(d)

Spec == Init /\ [][Next]_vars

(* Server and devices run, and time passes.                                *)
FairSpec == Spec /\ WF_vars(Next)

-----------------------------------------------------------------------------
(* Properties.                                                             *)

Command == [code : {"listen", "initiate"}, pair : Pairs, serial : 0 .. SerialMod - 1,
            due : 0 .. Late + 1]

(* Every variable keeps its type.                                          *)
TypeOK ==
  /\ step \in {"listen", "initiate"} /\ wait \in Nat
  /\ todo \in Seq(Pairs) /\ todo # <<>> /\ serial \in 0 .. SerialMod - 1
  /\ inbox \in [Member -> Seq(Command)]
  /\ rest \in [Member -> 0 .. CheckInterval + RangingTime]
  /\ heard \in [Member -> Command \cup {None}]
  /\ left \in [Member -> 0 .. ListenTime]
  /\ faults \in 0 .. MaxFaults /\ since \in 0 .. Grace + 1

(* An initiate fails only in the wake of a fault: where the network and    *)
(* the air are at their best every pair is ranged, and when they are not   *)
(* the commands that pile up are worked off, and do not go on missing each *)
(* other.                                                                  *)
FailsInTheWake == [][(\E d \in Member : InitiateFails(d)) => since' <= Grace]_vars

(* Nor does a device listen in vain, or for a poll of others.              *)
HeardInTime ==
  [][\A d \in Member : heard[d] # None /\ heard'[d] = None /\ since' > Grace =>
       \E s \in Member : InitiateReports(s) /\ Answering(Head(inbox[s]), {d}) # {}]_vars

(* What is reported for a command was measured with the device that it     *)
(* names, in the exchange that the server meant it for: the two commands   *)
(* of a pair never meet those of the same pair in another sequence.        *)
SamePair ==
  [][\A d \in Member : InitiateReports(d) =>
       LET c == Head(inbox[d]) IN
       heard[c.pair[2]] # None /\ heard[c.pair[2]].serial = c.serial]_vars

(* Out of a fault's wake a device has one thing to do at a time.           *)
NoBacklog ==
  since > Grace =>
    \A d \in Member : Len(inbox[d]) + (IF heard[d] = None THEN 0 ELSE 1) <= 1

(* Every pair is ranged, time and again.                                   *)
EveryPair ==
  \A p \in Pairs : []<><<InitiateReports(p[1]) /\ Head(inbox[p[1]]).pair = p>>_vars
=============================================================================
