------------------------------ MODULE UwbTask -------------------------------
(***************************************************************************)
(* The task that takes commands from the server, over a WebSocket, and     *)
(* answers them: controllers/task/uwb_stateless.cpp (the loop, and the     *)
(* handler of its events), services/task/uwb_stateless/base_impl.cpp (the  *)
(* checks of WiFi around every use of radio and network), and              *)
(* adapters/client/uwb_server/wsclient_impl.cpp (the client).              *)
(*                                                                         *)
(* WiFi comes and goes, and connections die, between any two steps of the  *)
(* task.  What the radio does is Ranging's business: here an operation     *)
(* succeeds or fails.                                                      *)
(***************************************************************************)
EXTENDS Integers, Sequences

CONSTANTS
  MaxCommands,   \* commands the server sends in a behaviour
  MaxFailures,   \* times WiFi is lost or a connection dies in a behaviour
  Reentrant      \* whether loop(), called from a handler, calls handlers

ASSUME UwbTaskAssumption ==
  /\ MaxCommands \in Nat
  /\ MaxFailures \in Nat
  /\ Reentrant \in BOOLEAN

VARIABLES
  wifi,       \* whether WiFi is up
  failures,   \* failures so far
  tcp,        \* the connection: "none", "alive", or "dead" and not yet noticed
  link,       \* client->isConnected()
  asked,      \* commands the server has sent
  inbox,      \* commands on the connection that the task has not read
  running,    \* UWBStateless::running
  pc,         \* where the task is in its loop
  calls,      \* the active calls of handleCommand, the latest last
  radioOps,   \* radio operations since the task last slept
  answers     \* replies that reached the server

netVars == <<wifi, failures, tcp, link, asked, inbox>>
vars == <<wifi, failures, tcp, link, asked, inbox, running, pc, calls, radioOps, answers>>

Kind == {"initiate", "listen", "other"}   \* "other": not a well-formed command

-----------------------------------------------------------------------------
Init ==
  /\ wifi = FALSE
  /\ failures = 0
  /\ tcp = "none"
  /\ link = FALSE
  /\ asked = 0
  /\ inbox = <<>>
  /\ running = TRUE
  /\ pc = "wifi"
  /\ calls = <<>>
  /\ radioOps = 0
  /\ answers = <<>>

-----------------------------------------------------------------------------
(* The surroundings.                                                       *)

(* A call that has seen no failure since its command was taken is healthy. *)
Spoiled == [i \in 1 .. Len(calls) |-> [calls[i] EXCEPT !.healthy = FALSE]]

WifiUp ==
  /\ ~wifi
  /\ wifi' = TRUE
  /\ UNCHANGED <<failures, tcp, link, asked, inbox, running, pc, calls, radioOps, answers>>

WifiDown ==
  /\ wifi
  /\ failures < MaxFailures
  /\ failures' = failures + 1
  /\ wifi' = FALSE
  /\ calls' = Spoiled
  /\ UNCHANGED <<tcp, link, asked, inbox, running, pc, radioOps, answers>>

(* The server goes away, or the way to it; bytes already here stay here.   *)
ConnectionDies ==
  /\ tcp = "alive"
  /\ failures < MaxFailures
  /\ failures' = failures + 1
  /\ tcp' = "dead"
  /\ calls' = Spoiled
  /\ UNCHANGED <<wifi, link, asked, inbox, running, pc, radioOps, answers>>

ServerSends ==
  /\ tcp = "alive"
  /\ asked < MaxCommands
  /\ asked' = asked + 1
  /\ \E kind \in Kind : inbox' = Append(inbox, [id |-> asked + 1, kind |-> kind])
  /\ UNCHANGED <<wifi, failures, tcp, link, running, pc, calls, radioOps, answers>>

(* Another task begins stop().                                             *)
Stop ==
  /\ running
  /\ running' = FALSE
  /\ UNCHANGED <<netVars, pc, calls, radioOps, answers>>

-----------------------------------------------------------------------------
(* The loop of the task.                                                   *)

CloseConnection == tcp' = "none" /\ link' = FALSE /\ inbox' = <<>>

CheckRunning ==
  /\ pc = "wifi" /\ ~running
  /\ CloseConnection
  /\ pc' = "ended"
  /\ UNCHANGED <<wifi, failures, asked, running, calls, radioOps, answers>>

(* Mutant: the loop ends, instead of going on, without WiFi.               *)
CheckWifi_Break ==
  /\ pc = "wifi" /\ running
  /\ pc' = IF wifi THEN "link" ELSE "ended"
  /\ UNCHANGED <<netVars, running, calls, radioOps, answers>>

CheckWifi ==
  /\ pc = "wifi" /\ running
  /\ pc' = IF wifi THEN "link" ELSE "sleep"
  /\ UNCHANGED <<netVars, running, calls, radioOps, answers>>

CheckLink ==
  /\ pc = "link"
  /\ pc' = IF link THEN "loop" ELSE "request"
  /\ UNCHANGED <<netVars, running, calls, radioOps, answers>>

(* sendConnectRequest: without WiFi nothing; else drop any connection and  *)
(* begin a new one.                                                        *)
Request ==
  /\ pc = "request"
  /\ \/ /\ ~wifi
        /\ pc' = "sleep"
        /\ UNCHANGED <<tcp, link, inbox>>
     \/ /\ wifi
        /\ CloseConnection
        /\ pc' = "connecting"
  /\ UNCHANGED <<wifi, failures, asked, running, calls, radioOps, answers>>

Connected ==
  /\ pc = "connecting" /\ wifi
  /\ tcp' = "alive"
  /\ link' = TRUE
  /\ pc' = "sleep"
  /\ UNCHANGED <<wifi, failures, asked, inbox, running, calls, radioOps, answers>>

ConnectTimesOut ==
  /\ pc = "connecting"
  /\ pc' = "sleep"
  /\ UNCHANGED <<netVars, running, calls, radioOps, answers>>

Sleep ==
  /\ pc = "sleep"
  /\ pc' = "wifi"
  /\ radioOps' = 0
  /\ UNCHANGED <<netVars, running, calls, answers>>

-----------------------------------------------------------------------------
(* client->loop(), after which the calls are those of base, and one more   *)
(* if handleEvent was given a well-formed command and the task still runs. *)
Accepted(c) ==
  IF running /\ c.kind # "other"
  THEN <<[cmd |-> c, at |-> "check", out |-> "none", healthy |-> wifi /\ tcp = "alive"]>>
  ELSE <<>>

ClientLoop(base, dispatches) ==
  \/ /\ link /\ tcp = "dead"          \* it notices
     /\ CloseConnection
     /\ calls' = base
  \/ /\ dispatches /\ link /\ inbox # <<>>
     /\ calls' = base \o Accepted(Head(inbox))
     /\ inbox' = Tail(inbox)
     /\ UNCHANGED <<tcp, link>>
  \/ /\ ~dispatches \/ ~link \/ inbox = <<>>
     /\ calls' = base
     /\ UNCHANGED <<tcp, link, inbox>>

Loop ==
  /\ pc = "loop"
  /\ ClientLoop(calls, TRUE)
  /\ pc' = IF calls' = <<>> THEN "sleep" ELSE "handle"
  /\ UNCHANGED <<wifi, failures, asked, running, radioOps, answers>>

-----------------------------------------------------------------------------
(* handleCommand, in the latest call.                                      *)
Top == calls[Len(calls)]
Handling(stage) == pc = "handle" /\ Top.at = stage

Moved(stage, out) == [calls EXCEPT ![Len(calls)].at = stage, ![Len(calls)].out = out]

(* Mutant: the task goes on to the next command without its delay.         *)
Finish_NoSleep ==
  /\ calls' = SubSeq(calls, 1, Len(calls) - 1)
  /\ pc' = IF Len(calls) = 1 THEN "loop" ELSE "handle"

Finish ==
  /\ calls' = SubSeq(calls, 1, Len(calls) - 1)
  /\ pc' = IF Len(calls) = 1 THEN "sleep" ELSE "handle"

(* service->listen and service->initiate require WiFi.                     *)
Require ==
  /\ Handling("check")
  /\ calls' = IF wifi THEN Moved("radio", "none") ELSE Moved("report", "error")
  /\ UNCHANGED <<netVars, running, pc, radioOps, answers>>

Operate ==
  /\ Handling("radio")
  /\ \E out \in {"Ok", "error"} : calls' = Moved("report", out)
  /\ radioOps' = radioOps + 1
  /\ UNCHANGED <<netVars, running, pc, answers>>

(* Mutant: errors are logged, not reported.                                *)
Reported_OnlyOk(call) == call.out = "Ok"

(* A listen that succeeds is not reported.                                 *)
Reported(call) == ~(call.cmd.kind = "listen" /\ call.out = "Ok")

(* sendRangingResult and sendError require WiFi; nobody looks at what they *)
(* return.                                                                 *)
Report ==
  /\ Handling("report")
  /\ \/ /\ Reported(Top) /\ wifi
        /\ calls' = Moved("flush", Top.out)
        /\ pc' = pc
     \/ /\ ~(Reported(Top) /\ wifi)
        /\ Finish
  /\ UNCHANGED <<netVars, running, radioOps, answers>>

(* sendJson runs the client's loop once, inside the handler...             *)
Flush ==
  /\ Handling("flush")
  /\ ClientLoop(Moved("write", Top.out), Reentrant)
  /\ UNCHANGED <<wifi, failures, asked, running, pc, radioOps, answers>>

(* Mutant: what could not be sent for certain is sent again.               *)
Write_Again ==
  /\ Handling("write")
  /\ answers' = IF link /\ tcp = "alive"
                THEN Append(answers, [id |-> Top.cmd.id, out |-> Top.out])
                ELSE answers
  /\ IF wifi THEN Finish ELSE calls' = Moved("flush", Top.out) /\ pc' = pc
  /\ UNCHANGED <<netVars, running, radioOps>>

(* ... and writes, which a dead connection swallows.                       *)
Write ==
  /\ Handling("write")
  /\ answers' = IF link /\ tcp = "alive"
                THEN Append(answers, [id |-> Top.cmd.id, out |-> Top.out])
                ELSE answers
  /\ Finish
  /\ UNCHANGED <<netVars, running, radioOps>>

-----------------------------------------------------------------------------
Surroundings == WifiUp \/ WifiDown \/ ConnectionDies \/ ServerSends \/ Stop

Task ==
  \/ CheckRunning \/ CheckWifi \/ CheckLink \/ Request \/ Connected
  \/ ConnectTimesOut \/ Sleep \/ Loop
  \/ Require \/ Operate \/ Report \/ Flush \/ Write

Done == pc = "ended" /\ UNCHANGED vars

Next == Surroundings \/ Task \/ Done

(* The task is scheduled; now and then an attempt to connect succeeds; now *)
(* and then the client finds a dead connection dead.                       *)
Fairness ==
  /\ WF_vars(Task)
  /\ SF_vars(Connected)
  /\ SF_vars(Loop /\ link /\ ~link')

Spec == Init /\ [][Next]_vars

FairSpec == Spec /\ Fairness

-----------------------------------------------------------------------------
(* Properties.                                                             *)

Call == [cmd : [id : 1 .. MaxCommands, kind : {"initiate", "listen"}],
         at : {"check", "radio", "report", "flush", "write"},
         out : {"none", "Ok", "error"}, healthy : BOOLEAN]

(* Every variable keeps its type, and the task is in handleCommand exactly *)
(* while a call of it is active.                                           *)
TypeOK ==
  /\ wifi \in BOOLEAN
  /\ failures \in 0 .. MaxFailures
  /\ tcp \in {"none", "alive", "dead"}
  /\ link \in BOOLEAN
  /\ asked \in 0 .. MaxCommands
  /\ inbox \in Seq([id : 1 .. MaxCommands, kind : Kind])
  /\ running \in BOOLEAN
  /\ pc \in {"wifi", "link", "request", "connecting", "loop", "handle", "sleep", "ended"}
  /\ calls \in Seq(Call)
  /\ (pc = "handle") <=> (calls # <<>>)
  /\ radioOps \in Nat
  /\ answers \in Seq([id : 1 .. MaxCommands, out : {"Ok", "error"}])

(* To the server the device is a CommandService: a command is answered at  *)
(* most once, and answers come in the order of the commands.  The server   *)
(* has nothing else to match them by.                                      *)
Service == INSTANCE CommandService WITH asked <- asked, answers <- answers
IsService == Service!Spec

(* Between two operations of the radio the task has slept.  Ranging relies *)
(* on it: it is what keeps a late response out of the next exchange.       *)
SleepsBetweenOperations == radioOps <= 1

(* Unless WiFi or the connection failed in the meantime, or it was a       *)
(* listen that succeeded, every command handled is answered.               *)
HealthyAnswered ==
  [][Len(calls') < Len(calls) /\ Top.healthy
       /\ ~(Top.cmd.kind = "listen" /\ Top.out = "Ok")
       => /\ Len(answers') = Len(answers) + 1
          /\ answers'[Len(answers')].id = Top.cmd.id]_vars

(* With WiFi up for good and the task not stopped, it ends up with a live  *)
(* connection, whatever connections died before.                           *)
Reconnects == <>[](wifi /\ running) => <>[](link /\ tcp = "alive")

(* With WiFi up for good every command is read, or its connection dropped. *)
CommandsRead == <>[]wifi => []<>(inbox = <<>> /\ calls = <<>>)

(* Both: a link that was lost comes back, and carries commands.            *)
LinkRecovers == Reconnects /\ CommandsRead
=============================================================================
