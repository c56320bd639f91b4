--------------------------- MODULE UwbTaskProofs ----------------------------
(***************************************************************************)
(* The task of UwbTask, when its client's loop calls no handler from       *)
(* within one: to the server it is a CommandService, healthy calls are     *)
(* answered, and it sleeps between operations of the radio, for any number *)
(* of commands and failures.                                               *)
(***************************************************************************)
EXTENDS UwbTask, SequenceTheorems, TLAPS

Command == [id : 1 .. MaxCommands, kind : Kind]
Answer == [id : 1 .. MaxCommands, out : {"Ok", "error"}]

Types ==
  /\ wifi \in BOOLEAN /\ link \in BOOLEAN /\ running \in BOOLEAN
  /\ failures \in 0 .. MaxFailures
  /\ tcp \in {"none", "alive", "dead"}
  /\ asked \in 0 .. MaxCommands
  /\ inbox \in Seq(Command)
  /\ pc \in {"wifi", "link", "request", "connecting", "loop", "handle", "sleep", "ended"}
  /\ answers \in Seq(Answer)

(* Commands wait in the order of sending, none that is answered.           *)
Waiting ==
  /\ Service!LastAnswered <= asked
  /\ \A i \in 1 .. Len(inbox) :
       /\ Service!LastAnswered < inbox[i].id /\ inbox[i].id <= asked
       /\ \A j \in 1 .. i - 1 : inbox[j].id < inbox[i].id

(* What holds of the call of handleCommand that is active.                 *)
Active(c) ==
  /\ Service!LastAnswered < c.cmd.id /\ c.cmd.id <= asked
  /\ \A i \in 1 .. Len(inbox) : c.cmd.id < inbox[i].id
  /\ c.healthy => wifi /\ tcp = "alive" /\ link
  /\ c.at \in {"report", "flush", "write"} => c.out \in {"Ok", "error"}
  /\ c.at \in {"check", "radio"} => radioOps = 0

(* One call at most, and one radio operation at most in it.                *)
OneCall ==
  /\ pc # "handle" => calls = <<>>
  /\ pc = "handle" => \E c \in Call : calls = <<c>> /\ Active(c)
  /\ radioOps \in 0 .. 1
  /\ pc \notin {"handle", "sleep"} => radioOps = 0

TaskInv == Types /\ Waiting /\ OneCall

----------------------------------------------------------------------------
(* Sequences of commands, answers and calls.                               *)

(* The id of the latest answer is a number of a command, or none.          *)
LEMMA LastType ==
  ASSUME answers \in Seq(Answer)
  PROVE  Service!LastAnswered \in 0 .. MaxCommands
<1>1. CASE answers = <<>>
  BY <1>1, UwbTaskAssumption DEF UwbTaskAssumption, Service!LastAnswered
<1>2. CASE answers # <<>>
  <2>1. answers[Len(answers)] \in Answer
    BY <1>2, EmptySeq, ElementOfSeq
  <2> QED BY <1>2, <2>1 DEF Answer, Service!LastAnswered
<1> QED BY <1>1, <1>2

(* After an answer, it is the latest.                                      *)
LEMMA LastOfAppend ==
  ASSUME answers \in Seq(Answer), NEW a \in Answer, answers' = Append(answers, a)
  PROVE  /\ answers' \in Seq(Answer) /\ Len(answers') = Len(answers) + 1
         /\ answers'[Len(answers')] = a /\ (Service!LastAnswered)' = a.id
<1>1. /\ Append(answers, a) \in Seq(Answer) /\ Append(answers, a) # <<>>
      /\ Len(Append(answers, a)) = Len(answers) + 1
      /\ Append(answers, a)[Len(answers) + 1] = a
  BY AppendProperties
<1> QED BY <1>1 DEF Service!LastAnswered

(* With one call active, the latest is it.                                 *)
LEMMA Single ==
  ASSUME NEW c \in Call, calls = <<c>>
  PROVE  /\ Len(calls) = 1 /\ Top = c
         /\ SubSeq(calls, 1, Len(calls) - 1) = <<>>
         /\ \A stage, out : Moved(stage, out) = <<[c EXCEPT !.at = stage, !.out = out]>>
         /\ Spoiled = <<[c EXCEPT !.healthy = FALSE]>>
<1>1. Len(calls) = 1 /\ calls[1] = c
  OBVIOUS
<1>2. SubSeq(calls, 1, Len(calls) - 1) = <<>>
  BY <1>1, SubSeqEmpty
<1>3. \A stage, out : Moved(stage, out) = <<[c EXCEPT !.at = stage, !.out = out]>>
  BY <1>1 DEF Moved
<1>4. Spoiled = <<[c EXCEPT !.healthy = FALSE]>>
  <2> DEFINE d == [c EXCEPT !.healthy = FALSE]
  <2>1. Spoiled = [i \in 1 .. Len(calls) |-> [calls[i] EXCEPT !.healthy = FALSE]]
    BY DEF Spoiled
  <2>2. \A i \in 1 .. 1 : [calls[i] EXCEPT !.healthy = FALSE] = d
    <3>1. \A i \in 1 .. 1 : calls[i] = c
      BY <1>1
    <3> QED BY <3>1, Zenon
  <2>3. Spoiled = [i \in 1 .. 1 |-> d]
    BY <1>1, <2>1, <2>2, Zenon
  <2> HIDE DEF d
  <2>4. [i \in 1 .. 1 |-> d] = <<d>>
    OBVIOUS
  <2> QED BY <2>3, <2>4 DEF d
<1> QED BY <1>1, <1>2, <1>3, <1>4 DEF Top

(* The first command is read: those that wait are after it.                *)
LEMMA HeadRead ==
  ASSUME inbox \in Seq(Command), inbox # <<>>, Waiting, inbox' = Tail(inbox),
         asked' = asked, answers' = answers
  PROVE  /\ inbox' \in Seq(Command) /\ Waiting'
         /\ Head(inbox) \in Command
         /\ Service!LastAnswered < Head(inbox).id /\ Head(inbox).id <= asked
         /\ \A i \in 1 .. Len(inbox') : Head(inbox).id < inbox'[i].id
<1>1. /\ Head(inbox) \in Command /\ inbox' \in Seq(Command)
      /\ Len(inbox') = Len(inbox) - 1 /\ Len(inbox) \in Nat \ {0}
      /\ \A i \in 1 .. Len(inbox') : inbox'[i] = inbox[i + 1]
  BY HeadTailProperties, EmptySeq
<1>2. Head(inbox) = inbox[1]
  OBVIOUS
<1>3. (Service!LastAnswered)' = Service!LastAnswered
  BY DEF Service!LastAnswered
<1>4. Waiting'
  <2> SUFFICES ASSUME NEW i \in 1 .. Len(inbox')
               PROVE  /\ Service!LastAnswered < inbox'[i].id /\ inbox'[i].id <= asked
                      /\ \A j \in 1 .. i - 1 : inbox'[j].id < inbox'[i].id
    BY <1>3 DEF Waiting
  <2>1. i + 1 \in 1 .. Len(inbox) /\ inbox'[i] = inbox[i + 1]
    BY <1>1
  <2>2. \A j \in 1 .. i - 1 : j + 1 \in 1 .. (i + 1) - 1 /\ inbox'[j] = inbox[j + 1]
    BY <1>1
  <2> QED BY <2>1, <2>2 DEF Waiting
<1>5. 1 \in 1 .. Len(inbox)
  BY <1>1
<1>6. \A i \in 1 .. Len(inbox') :
        i + 1 \in 1 .. Len(inbox) /\ 1 \in 1 .. (i + 1) - 1 /\ inbox'[i] = inbox[i + 1]
  BY <1>1
<1> QED BY <1>1, <1>2, <1>4, <1>5, <1>6 DEF Waiting

(* No commands: in order, too.                                             *)
LEMMA NoneWaiting ==
  ASSUME Waiting, inbox' = <<>>, UNCHANGED <<asked, answers>>
  PROVE  /\ inbox' \in Seq(Command) /\ Len(inbox') = 0
         /\ Waiting' /\ (Service!LastAnswered)' = Service!LastAnswered
  BY EmptySeq DEF Waiting, Service!LastAnswered

(* Neither commands nor answers change.                                    *)
LEMMA SameWaiting ==
  ASSUME Waiting, UNCHANGED <<inbox, asked, answers>>
  PROVE  Waiting' /\ (Service!LastAnswered)' = Service!LastAnswered
  BY DEF Waiting, Service!LastAnswered

----------------------------------------------------------------------------
LEMMA TaskInit == Init => TaskInv
<1> SUFFICES ASSUME Init PROVE TaskInv
  OBVIOUS
<1>1. Types
  <2>1. inbox \in Seq(Command) /\ answers \in Seq(Answer)
    BY EmptySeq DEF Init
  <2>2. failures \in 0 .. MaxFailures /\ asked \in 0 .. MaxCommands
    BY UwbTaskAssumption DEF Init, UwbTaskAssumption
  <2> QED BY <2>1, <2>2, Zenon DEF Init, Types
<1>2. Waiting
  BY EmptySeq DEF Init, Waiting, Service!LastAnswered
<1>3. OneCall
  BY DEF Init, OneCall
<1> QED BY <1>1, <1>2, <1>3 DEF TaskInv

(* The surroundings.                                                       *)
LEMMA SurroundingsKeep ==
  ASSUME TaskInv, Surroundings
  PROVE  TaskInv'
<1> USE DEF TaskInv
<1>1. CASE WifiUp
  <2>1. Types'
    BY <1>1 DEF WifiUp, Types
  <2>2. Waiting' /\ (Service!LastAnswered)' = Service!LastAnswered
    BY <1>1, SameWaiting DEF WifiUp
  <2>3. \A c \in Call : Active(c) => Active(c)'
    BY <1>1, <2>2 DEF WifiUp, Active
  <2>4. OneCall'
    BY <1>1, <2>3 DEF WifiUp, OneCall
  <2> QED BY <2>1, <2>2, <2>4
<1>2. CASE WifiDown \/ ConnectionDies
  <2>1. Types'
    <3>1. failures' \in 0 .. MaxFailures
      BY <1>2, UwbTaskAssumption DEF WifiDown, ConnectionDies, Types, UwbTaskAssumption
    <3> QED BY <1>2, <3>1, Zenon DEF WifiDown, ConnectionDies, Types
  <2>2. Waiting' /\ (Service!LastAnswered)' = Service!LastAnswered
    BY <1>2, SameWaiting DEF WifiDown, ConnectionDies
  <2>3. pc' = pc /\ radioOps' = radioOps /\ calls' = Spoiled
    BY <1>2 DEF WifiDown, ConnectionDies
  <2>4. calls = <<>> => calls' = <<>>
    BY <2>3 DEF Spoiled
  <2>5. ASSUME NEW c \in Call, calls = <<c>>, Active(c)
        PROVE  \E d \in Call : calls' = <<d>> /\ Active(d)'
    <3> DEFINE d == [c EXCEPT !.healthy = FALSE]
    <3>1. d \in Call /\ d.cmd = c.cmd /\ d.at = c.at /\ d.out = c.out /\ d.healthy = FALSE
      BY DEF Call
    <3>2. calls' = <<d>>
      BY <2>3, <2>5, Single
    <3> HIDE DEF d
    <3>3. Active(d)'
      BY <1>2, <2>2, <2>5, <3>1 DEF Active, WifiDown, ConnectionDies
    <3> QED BY <3>1, <3>2, <3>3
  <2>6. OneCall'
    BY <2>3, <2>4, <2>5 DEF OneCall
  <2> QED BY <2>1, <2>2, <2>6
<1>3. CASE ServerSends
  <2> PICK kind \in Kind : inbox' = Append(inbox, [id |-> asked + 1, kind |-> kind])
    BY <1>3 DEF ServerSends
  <2> DEFINE cmd == [id |-> asked + 1, kind |-> kind]
  <2>1. cmd \in Command /\ cmd.id = asked + 1 /\ asked' = asked + 1 /\ asked \in Nat
    BY <1>3, UwbTaskAssumption DEF ServerSends, Types, Command, UwbTaskAssumption
  <2> HIDE DEF cmd
  <2>2. /\ inbox' \in Seq(Command) /\ Len(inbox') = Len(inbox) + 1 /\ Len(inbox) \in Nat
        /\ \A i \in 1 .. Len(inbox) : inbox'[i] = inbox[i]
        /\ inbox'[Len(inbox) + 1] = cmd
    BY <2>1, AppendProperties, LenProperties DEF Types, cmd
  <2>3. Types'
    BY <1>3, <2>1, <2>2, UwbTaskAssumption DEF ServerSends, Types, UwbTaskAssumption
  <2>4. (Service!LastAnswered)' = Service!LastAnswered
    BY <1>3 DEF ServerSends, Service!LastAnswered
  <2>5. Service!LastAnswered \in Nat /\ \A i \in 1 .. Len(inbox) : inbox[i].id \in Nat
    <3>1. Service!LastAnswered \in Nat
      BY LastType, UwbTaskAssumption DEF Types, UwbTaskAssumption
    <3>2. \A i \in 1 .. Len(inbox) : inbox[i] \in Command
      BY ElementOfSeq DEF Types
    <3> QED BY <3>1, <3>2 DEF Command
  <2>6. Waiting'
    <3> SUFFICES ASSUME NEW i \in 1 .. Len(inbox')
                 PROVE  /\ Service!LastAnswered < inbox'[i].id /\ inbox'[i].id <= asked'
                        /\ \A j \in 1 .. i - 1 : inbox'[j].id < inbox'[i].id
      BY <2>1, <2>4, <2>5 DEF Waiting
    <3>1. CASE i \in 1 .. Len(inbox)
      <4>1. \A j \in 1 .. i - 1 : j \in 1 .. Len(inbox)
        BY <3>1, <2>2
      <4> QED BY <3>1, <4>1, <2>1, <2>2, <2>5 DEF Waiting
    <3>2. CASE i = Len(inbox) + 1
      <4>1. \A j \in 1 .. i - 1 : j \in 1 .. Len(inbox)
        BY <3>2, <2>2
      <4> QED BY <3>2, <4>1, <2>1, <2>2, <2>5 DEF Waiting
    <3> QED BY <3>1, <3>2, <2>2
  <2>7. ASSUME NEW c \in Call, Active(c)
        PROVE  Active(c)'
    <3>1. c.cmd.id \in Nat
      BY DEF Call
    <3>2. \A i \in 1 .. Len(inbox') : c.cmd.id < inbox'[i].id
      BY <2>1, <2>2, <2>7, <3>1 DEF Active
    <3> QED BY <1>3, <2>1, <2>4, <2>7, <3>1, <3>2 DEF ServerSends, Active
  <2>8. OneCall'
    BY <1>3, <2>7 DEF ServerSends, OneCall
  <2> QED BY <2>3, <2>6, <2>8
<1>4. CASE Stop
  <2>1. Types'
    BY <1>4 DEF Stop, netVars, Types
  <2>2. Waiting' /\ (Service!LastAnswered)' = Service!LastAnswered
    BY <1>4, SameWaiting DEF Stop, netVars
  <2>3. \A c \in Call : Active(c) => Active(c)'
    BY <1>4, <2>2 DEF Stop, netVars, Active
  <2>4. OneCall'
    BY <1>4, <2>3 DEF Stop, netVars, OneCall
  <2> QED BY <2>1, <2>2, <2>4
<1> QED BY <1>1, <1>2, <1>3, <1>4 DEF Surroundings

(* The loop outside of handleCommand.                                      *)
LEMMA LoopKeeps ==
  ASSUME TaskInv, CheckRunning \/ CheckWifi \/ CheckLink \/ Request \/ Connected
                    \/ ConnectTimesOut \/ Sleep
  PROVE  TaskInv'
<1> USE DEF TaskInv, netVars, CloseConnection
<1>1. CASE CheckRunning
  <2>1. Waiting' /\ inbox' \in Seq(Command)
    BY <1>1, NoneWaiting DEF CheckRunning
  <2>2. Types' /\ OneCall'
    BY <1>1, <2>1 DEF CheckRunning, Types, OneCall
  <2> QED BY <2>1, <2>2
<1>2. CASE CheckWifi \/ CheckLink \/ ConnectTimesOut
  <2>1. Waiting'
    BY <1>2, SameWaiting DEF CheckWifi, CheckLink, ConnectTimesOut
  <2>2. Types' /\ OneCall'
    BY <1>2 DEF CheckWifi, CheckLink, ConnectTimesOut, Types, OneCall
  <2> QED BY <2>1, <2>2
<1>3. CASE Request
  <2>1. Waiting' /\ inbox' \in Seq(Command)
    BY <1>3, NoneWaiting, SameWaiting DEF Request, Types
  <2>2. Types' /\ OneCall'
    BY <1>3, <2>1 DEF Request, Types, OneCall
  <2> QED BY <2>1, <2>2
<1>4. CASE Connected
  <2>1. Waiting'
    BY <1>4, SameWaiting DEF Connected
  <2>2. Types' /\ OneCall'
    BY <1>4 DEF Connected, Types, OneCall
  <2> QED BY <2>1, <2>2
<1>5. CASE Sleep
  <2>1. Waiting'
    BY <1>5, SameWaiting DEF Sleep
  <2>2. Types' /\ OneCall'
    BY <1>5 DEF Sleep, Types, OneCall
  <2> QED BY <2>1, <2>2
<1> QED BY <1>1, <1>2, <1>3, <1>4, <1>5

(* The client's loop gives the task a command, or none.                    *)
LEMMA LoopDispatches ==
  ASSUME TaskInv, Loop
  PROVE  TaskInv'
<1> USE DEF TaskInv, CloseConnection
<1>1. calls = <<>> /\ radioOps = 0 /\ radioOps' = 0
  BY DEF Loop, OneCall
<1>2. CASE link /\ tcp = "dead" /\ CloseConnection /\ calls' = calls
  <2>1. pc' = "sleep"
    BY <1>1, <1>2 DEF Loop
  <2>2. Waiting' /\ inbox' \in Seq(Command)
    BY <1>2, NoneWaiting DEF Loop
  <2>3. Types' /\ OneCall'
    BY <1>1, <1>2, <2>1, <2>2 DEF Loop, Types, OneCall
  <2> QED BY <2>2, <2>3
<1>3. CASE /\ link /\ inbox # <<>> /\ calls' = calls \o Accepted(Head(inbox))
           /\ inbox' = Tail(inbox) /\ UNCHANGED <<tcp, link>>
  <2>1. /\ inbox' \in Seq(Command) /\ Waiting' /\ Head(inbox) \in Command
        /\ Service!LastAnswered < Head(inbox).id /\ Head(inbox).id <= asked
        /\ \A i \in 1 .. Len(inbox') : Head(inbox).id < inbox'[i].id
    BY <1>3, HeadRead DEF Loop, Types
  <2>2. CASE Accepted(Head(inbox)) = <<>>
    <3>1. calls' = <<>> /\ pc' = "sleep"
      BY <1>1, <1>3, <2>2 DEF Loop
    <3> QED BY <1>1, <1>3, <2>1, <3>1 DEF Loop, Types, OneCall
  <2>3. CASE Accepted(Head(inbox)) # <<>>
    <3> DEFINE new == [cmd |-> Head(inbox), at |-> "check", out |-> "none",
                       healthy |-> wifi /\ tcp = "alive"]
    <3>1. Head(inbox).kind # "other" /\ Accepted(Head(inbox)) = <<new>>
      BY <2>3 DEF Accepted
    <3>2. new \in Call
      BY <2>1, <3>1 DEF Call, Command, Kind, Types
    <3>3. /\ new.cmd = Head(inbox) /\ new.at = "check"
          /\ (new.healthy => wifi /\ tcp = "alive")
      OBVIOUS
    <3> HIDE DEF new
    <3>4. PICK c \in Call : c = new
      BY <3>2
    <3>5. calls' = <<c>> /\ pc' = "handle"
      BY <1>1, <1>3, <3>1, <3>4 DEF Loop
    <3>6. (Service!LastAnswered)' = Service!LastAnswered
      BY DEF Loop, Service!LastAnswered
    <3>7. Active(c)'
      BY <1>1, <1>3, <2>1, <3>3, <3>4, <3>6 DEF Loop, Active
    <3>8. OneCall'
      BY <1>1, <3>5, <3>7 DEF OneCall
    <3>9. Types'
      BY <1>3, <2>1, <3>5 DEF Loop, Types
    <3> QED BY <2>1, <3>8, <3>9
  <2> QED BY <2>2, <2>3
<1>4. CASE calls' = calls /\ UNCHANGED <<tcp, link, inbox>>
  <2>1. pc' = "sleep"
    BY <1>1, <1>4 DEF Loop
  <2>2. Waiting'
    BY <1>4, SameWaiting DEF Loop
  <2>3. Types' /\ OneCall'
    BY <1>1, <1>4, <2>1 DEF Loop, Types, OneCall
  <2> QED BY <2>2, <2>3
<1> QED BY <1>2, <1>3, <1>4 DEF Loop, ClientLoop

(* A step of the call that neither reads nor answers.                      *)
LEMMA CallKeeps ==
  ASSUME TaskInv, Require \/ Operate
  PROVE  TaskInv'
<1> USE DEF TaskInv, netVars, Handling
<1>1. PICK c \in Call : calls = <<c>> /\ Active(c)
  BY DEF Require, Operate, OneCall
<1>2. Waiting' /\ (Service!LastAnswered)' = Service!LastAnswered
  BY SameWaiting DEF Require, Operate
<1>3. Types'
  BY DEF Require, Operate, Types
<1>4. \A stage, out : Moved(stage, out) = <<[c EXCEPT !.at = stage, !.out = out]>>
  BY <1>1, Single
<1>5. CASE Require
  <2>1. PICK stage \in {"radio", "report"}, out \in {"none", "error"} :
          /\ calls' = Moved(stage, out)
          /\ stage = "report" => out = "error"
    BY <1>5 DEF Require
  <2>2. PICK d \in Call : d = [c EXCEPT !.at = stage, !.out = out]
    BY DEF Call
  <2>3. d.cmd = c.cmd /\ d.healthy = c.healthy /\ d.at = stage /\ d.out = out
    BY <2>2 DEF Call
  <2>4. calls' = <<d>>
    BY <1>4, <2>1, <2>2
  <2>5. c.at = "check"
    BY <1>1, <1>5, Single DEF Require
  <2>6. Active(d)'
    BY <1>1, <1>2, <1>5, <2>1, <2>3, <2>5 DEF Require, Active
  <2>7. OneCall'
    BY <1>5, <2>4, <2>6 DEF Require, OneCall
  <2> QED BY <1>2, <1>3, <2>7
<1>6. CASE Operate
  <2>1. PICK out \in {"Ok", "error"} : calls' = Moved("report", out)
    BY <1>6 DEF Operate
  <2>2. PICK d \in Call : d = [c EXCEPT !.at = "report", !.out = out]
    BY DEF Call
  <2>3. d.cmd = c.cmd /\ d.healthy = c.healthy /\ d.at = "report" /\ d.out = out
    BY <2>2 DEF Call
  <2>4. calls' = <<d>>
    BY <1>4, <2>1, <2>2
  <2>5. c.at = "radio"
    BY <1>1, <1>6, Single DEF Operate
  <2>6. Active(d)'
    BY <1>1, <1>2, <1>6, <2>3, <2>5 DEF Operate, Active
  <2>7. radioOps' = 1
    BY <1>1, <1>6, <2>5 DEF Operate, Active
  <2>8. OneCall'
    BY <1>6, <2>4, <2>6, <2>7 DEF Operate, OneCall
  <2> QED BY <1>2, <1>3, <2>8
<1> QED BY <1>5, <1>6

(* The call ends, or goes on to answer.                                    *)
LEMMA ReportKeeps ==
  ASSUME TaskInv, Report
  PROVE  TaskInv'
<1> USE DEF TaskInv, netVars, Handling
<1>1. PICK c \in Call : calls = <<c>> /\ Active(c)
  BY DEF Report, OneCall
<1>2. Waiting' /\ (Service!LastAnswered)' = Service!LastAnswered
  BY SameWaiting DEF Report
<1>3. c.at = "report" /\ Top = c /\ Len(calls) = 1
  BY <1>1, Single DEF Report
<1>4. CASE calls' = Moved("flush", Top.out) /\ pc' = pc
  <2>1. PICK d \in Call : d = [c EXCEPT !.at = "flush", !.out = c.out]
    BY DEF Call
  <2>2. d.cmd = c.cmd /\ d.healthy = c.healthy /\ d.at = "flush" /\ d.out = c.out
    BY <2>1 DEF Call
  <2>3. calls' = <<d>>
    <3>1. \A stage, out : Moved(stage, out) = <<[c EXCEPT !.at = stage, !.out = out]>>
      BY <1>1, Single
    <3> QED BY <1>3, <1>4, <2>1, <3>1, Zenon
  <2>4. Active(d)'
    BY <1>1, <1>2, <1>3, <2>2 DEF Report, Active
  <2>5. Types' /\ OneCall'
    BY <1>4, <2>3, <2>4 DEF Report, Types, OneCall
  <2> QED BY <1>2, <2>5
<1>5. CASE Finish
  <2>1. calls' = <<>> /\ pc' = "sleep"
    BY <1>1, <1>3, <1>5, Single DEF Finish
  <2>2. Types' /\ OneCall'
    BY <2>1 DEF Report, Types, OneCall
  <2> QED BY <1>2, <2>2
<1> QED BY <1>4, <1>5 DEF Report

(* The loop inside sendJson reads no command.                              *)
LEMMA FlushKeeps ==
  ASSUME ~Reentrant, TaskInv, Flush
  PROVE  TaskInv'
<1> USE DEF TaskInv, Handling, CloseConnection
<1>1. PICK c \in Call : calls = <<c>> /\ Active(c)
  BY DEF Flush, OneCall
<1>2. c.at = "flush" /\ Top = c
  BY <1>1, Single DEF Flush
<1>3. PICK d \in Call : d = [c EXCEPT !.at = "write", !.out = c.out]
  BY DEF Call
<1>4. d.cmd = c.cmd /\ d.healthy = c.healthy /\ d.at = "write" /\ d.out = c.out
  BY <1>3 DEF Call
<1>5. calls' = <<d>>
  <2>1. \A stage, out : Moved(stage, out) = <<[c EXCEPT !.at = stage, !.out = out]>>
    BY <1>1, Single
  <2>2. calls' = Moved("write", Top.out)
    BY DEF Flush, ClientLoop
  <2> QED BY <1>2, <1>3, <2>1, <2>2, Zenon
<1>6. CASE link /\ tcp = "dead" /\ CloseConnection
  <2>1. /\ Waiting' /\ inbox' \in Seq(Command) /\ Len(inbox') = 0
        /\ (Service!LastAnswered)' = Service!LastAnswered
    BY <1>6, NoneWaiting DEF Flush
  <2>2. Active(d)'
    BY <1>1, <1>2, <1>4, <1>6, <2>1 DEF Flush, Active
  <2>3. Types' /\ OneCall'
    BY <1>5, <1>6, <2>1, <2>2 DEF Flush, Types, OneCall
  <2> QED BY <2>1, <2>3
<1>7. CASE UNCHANGED <<tcp, link, inbox>>
  <2>1. Waiting' /\ (Service!LastAnswered)' = Service!LastAnswered
    BY <1>7, SameWaiting DEF Flush
  <2>2. Active(d)'
    BY <1>1, <1>2, <1>4, <1>7, <2>1 DEF Flush, Active
  <2>3. Types' /\ OneCall'
    BY <1>5, <1>7, <2>2 DEF Flush, Types, OneCall
  <2> QED BY <2>1, <2>3
<1> QED BY <1>6, <1>7 DEF Flush, ClientLoop

(* The answer is of a command after the last one answered, and before      *)
(* those that wait.                                                        *)
LEMMA WriteKeeps ==
  ASSUME TaskInv, Write
  PROVE  TaskInv'
<1> USE DEF TaskInv, netVars, Handling
<1>1. PICK c \in Call : calls = <<c>> /\ Active(c)
  BY DEF Write, OneCall
<1>2. c.at = "write" /\ Top = c /\ Len(calls) = 1
  BY <1>1, Single DEF Write
<1>3. calls' = <<>> /\ pc' = "sleep"
  BY <1>1, <1>2, Single DEF Write, Finish
<1>4. OneCall'
  BY <1>3 DEF Write, OneCall
<1>5. CASE answers' = answers
  <2>1. Waiting'
    BY <1>5, SameWaiting DEF Write
  <2>2. Types'
    BY <1>3, <1>5 DEF Write, Types
  <2> QED BY <1>4, <2>1, <2>2
<1>6. CASE answers' = Append(answers, [id |-> c.cmd.id, out |-> c.out])
  <2>1. PICK a \in Answer : a = [id |-> c.cmd.id, out |-> c.out]
    BY <1>1, <1>2 DEF Active, Call, Answer
  <2>2. /\ answers' \in Seq(Answer) /\ (Service!LastAnswered)' = c.cmd.id
    BY <1>6, <2>1, LastOfAppend DEF Types
  <2>3. Waiting'
    BY <1>1, <2>2 DEF Write, Waiting, Active
  <2>4. Types'
    BY <1>3, <2>2 DEF Write, Types
  <2> QED BY <1>4, <2>3, <2>4
<1> QED BY <1>2, <1>5, <1>6 DEF Write

LEMMA TaskStep ==
  ASSUME ~Reentrant
  PROVE  TaskInv /\ [Next]_vars => TaskInv'
<1> SUFFICES ASSUME TaskInv, [Next]_vars PROVE TaskInv'
  OBVIOUS
<1>1. CASE Surroundings
  BY <1>1, SurroundingsKeep
<1>2. CASE Task
  BY <1>2, LoopKeeps, LoopDispatches, CallKeeps, ReportKeeps, FlushKeeps, WriteKeeps
     DEF Task
<1>3. CASE UNCHANGED vars
  <2>1. Waiting' /\ (Service!LastAnswered)' = Service!LastAnswered
    BY <1>3, SameWaiting DEF vars, TaskInv
  <2>2. \A c \in Call : Active(c) => Active(c)'
    BY <1>3, <2>1 DEF vars, Active
  <2>3. Types' /\ OneCall'
    BY <1>3, <2>2 DEF vars, TaskInv, Types, OneCall
  <2> QED BY <2>1, <2>3 DEF TaskInv
<1> QED BY <1>1, <1>2, <1>3 DEF Next, Done

LEMMA TaskAlways ==
  ASSUME ~Reentrant
  PROVE  Spec => []TaskInv
  BY TaskInit, TaskStep, PTL DEF Spec

----------------------------------------------------------------------------
(* Types, and the task in handleCommand while a call of it is active.      *)
THEOREM TaskTypes ==
  ASSUME ~Reentrant
  PROVE  Spec => []TypeOK
<1>1. TaskInv => TypeOK
  <2> SUFFICES ASSUME TaskInv PROVE TypeOK
    OBVIOUS
  <2>1. calls \in Seq(Call) /\ ((pc = "handle") <=> (calls # <<>>))
    <3>1. CASE pc = "handle"
      <4> PICK c \in Call : calls = <<c>>
        BY <3>1 DEF TaskInv, OneCall
      <4> QED BY <3>1
    <3>2. CASE pc # "handle"
      BY <3>2, EmptySeq DEF TaskInv, OneCall
    <3> QED BY <3>1, <3>2
  <2>2. radioOps \in Nat
    BY DEF TaskInv, OneCall
  <2> QED BY <2>1, <2>2 DEF TaskInv, Types, TypeOK, Command, Answer
<1> QED BY <1>1, TaskAlways, PTL

(* One radio operation at most between two sleeps of the task.             *)
THEOREM SleepsBetween ==
  ASSUME ~Reentrant
  PROVE  Spec => []SleepsBetweenOperations
<1>1. TaskInv => SleepsBetweenOperations
  BY DEF TaskInv, OneCall, SleepsBetweenOperations
<1> QED BY <1>1, TaskAlways, PTL

(* Every step of the task is a step of the service, or none of its.        *)
THEOREM TaskIsService ==
  ASSUME ~Reentrant
  PROVE  Spec => IsService
<1>1. Init => Service!Init
  BY DEF Init, Service!Init
<1>2. TaskInv /\ [Next]_vars => [Service!Next]_<<asked, answers>>
  <2> SUFFICES ASSUME TaskInv, [Next]_vars, ~(UNCHANGED <<asked, answers>>)
               PROVE  Service!Next
    OBVIOUS
  <2>1. CASE ServerSends
    BY <2>1 DEF ServerSends, Service!Next, Service!Ask
  <2>2. CASE Write
    <3>1. PICK c \in Call : calls = <<c>> /\ Active(c)
      BY <2>2 DEF Write, Handling, TaskInv, OneCall
    <3>2. c.at = "write" /\ Top = c
      BY <2>2, <3>1, Single DEF Write, Handling
    <3>3. answers' = Append(answers, [id |-> c.cmd.id, out |-> c.out]) /\ asked' = asked
      BY <2>2, <3>2 DEF Write, netVars
    <3>4. c.cmd.id \in Nat /\ Service!LastAnswered \in Nat /\ asked \in Nat
      BY LastType, UwbTaskAssumption DEF Call, TaskInv, Types, UwbTaskAssumption
    <3>5. c.cmd.id \in (Service!LastAnswered + 1) .. asked /\ c.out \in Service!Outcome
      BY <3>1, <3>2, <3>4 DEF Active, Service!Outcome
    <3> QED BY <3>3, <3>5 DEF Service!Next, Service!Answer
  <2>3. CASE Surroundings /\ ~ServerSends
    BY <2>3 DEF Surroundings, WifiUp, WifiDown, ConnectionDies, Stop, netVars
  <2>4. CASE Task /\ ~Write
    BY <2>4 DEF Task, CheckRunning, CheckWifi, CheckLink, Request, Connected,
       ConnectTimesOut, Sleep, Loop, Require, Operate, Report, Flush, netVars
  <2> QED BY <2>1, <2>2, <2>3, <2>4 DEF Next, Done, vars
<1> QED BY <1>1, <1>2, TaskAlways, PTL DEF Spec, IsService, Service!Spec

(* Every command handled without a failure is answered.                    *)
THEOREM HealthyIsAnswered ==
  ASSUME ~Reentrant
  PROVE  Spec => HealthyAnswered
<1>1. TaskInv /\ [Next]_vars =>
        [Len(calls') < Len(calls) /\ Top.healthy
           /\ ~(Top.cmd.kind = "listen" /\ Top.out = "Ok")
           => /\ Len(answers') = Len(answers) + 1
              /\ answers'[Len(answers')].id = Top.cmd.id]_vars
  <2> SUFFICES ASSUME TaskInv, Next, Len(calls') < Len(calls), Top.healthy,
                      ~(Top.cmd.kind = "listen" /\ Top.out = "Ok")
               PROVE  /\ Len(answers') = Len(answers) + 1
                      /\ answers'[Len(answers')].id = Top.cmd.id
    OBVIOUS
  <2>1. PICK c \in Call : pc = "handle" /\ calls = <<c>> /\ Active(c)
    BY DEF TaskInv, OneCall
  <2>2. Len(calls) = 1 /\ Top = c /\ Reported(c)
    BY <2>1, Single DEF Reported
  <2>3. wifi /\ tcp = "alive" /\ link
    BY <2>1, <2>2 DEF Active
  <2>4. CASE Write
    <3>1. c.at = "write" /\ answers' = Append(answers, [id |-> c.cmd.id, out |-> c.out])
      BY <2>2, <2>3, <2>4 DEF Write, Handling
    <3>2. PICK a \in Answer : a = [id |-> c.cmd.id, out |-> c.out]
      BY <2>1, <3>1 DEF Active, Call, Answer
    <3> QED BY <2>2, <3>1, <3>2, LastOfAppend DEF TaskInv, Types
  <2>5. \A d : <<d>> # <<>> /\ Len(<<d>>) = 1
    OBVIOUS
  <2>6. ~(\E d : calls' = <<d>>)
    BY <2>2, <2>5
  <2>7. CASE Report \/ Require \/ Operate \/ Flush
    <3>1. \A stage, out : Moved(stage, out) = <<[c EXCEPT !.at = stage, !.out = out]>>
      BY <2>1, Single
    <3> QED BY <2>2, <2>3, <2>6, <2>7, <3>1
            DEF Report, Require, Operate, Flush, ClientLoop
  <2>8. CASE Surroundings
    <3>1. Spoiled = <<[c EXCEPT !.healthy = FALSE]>>
      BY <2>1, Single
    <3> QED BY <2>1, <2>6, <2>8, <3>1
            DEF Surroundings, WifiUp, WifiDown, ConnectionDies, ServerSends, Stop
  <2>9. ~(CheckRunning \/ CheckWifi \/ CheckLink \/ Request \/ Connected
            \/ ConnectTimesOut \/ Sleep \/ Loop \/ Done)
    BY <2>1 DEF CheckRunning, CheckWifi, CheckLink, Request, Connected,
       ConnectTimesOut, Sleep, Loop, Done
  <2> QED BY <2>4, <2>7, <2>8, <2>9 DEF Next, Task
<1> QED BY <1>1, TaskAlways, PTL DEF Spec, HealthyAnswered
=============================================================================
