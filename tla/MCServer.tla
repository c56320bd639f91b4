------------------------------- MODULE MCServer -------------------------------
(***************************************************************************)
(* The test server in two parts that share no state: its connections       *)
(* (TestServer), and its timing (PairSchedule).  The first state chooses   *)
(* the part that runs; the other stays in its first state.                 *)
(***************************************************************************)
EXTENDS TestServer

CONSTANTS  \* of PairSchedule
  Devices, Lead, PairDelay, SequenceDelay, ListenTime, RangingTime, CheckInterval,
  Jitter, Late, MaxFaults, Grace, SerialMod

VARIABLES part, step, wait, pairs, serial, inbox, rest, heard, left, faults, since

Schedule == INSTANCE PairSchedule WITH todo <- pairs

ASSUME PartAssumptions == Schedule!ScheduleAssumption /\ Schedule!DelaysFit

scheduleVars == <<step, wait, pairs, serial, inbox, rest, heard, left, faults, since>>

MCInit ==
  /\ part \in {"connections", "schedule"}
  /\ Init
  /\ Schedule!Init
  /\ part = "schedule" \/ \A d \in Schedule!Member : rest[d] = 0

ScheduleNext == part = "schedule" /\ Schedule!Next

MCNext ==
  \/ part = "connections" /\ Next /\ UNCHANGED <<part, scheduleVars>>
  \/ ScheduleNext /\ UNCHANGED <<part, vars>>

MCSpec ==
  /\ MCInit /\ [][MCNext]_<<part, vars, scheduleVars>>
  /\ WF_vars(part = "connections" /\ Loop)
  /\ \A c \in Conn : WF_vars(part = "connections" /\ Handle(c))
  /\ WF_scheduleVars(ScheduleNext)

-----------------------------------------------------------------------------
(* Properties of PairSchedule; those of TestServer are taken as they are.  *)

(* The delays in the script are long enough, though nothing waits for the  *)
(* outcome of a command: no two commands wait for a device that no fault   *)
(* disturbed, an initiate fails and a device that listens is not polled    *)
(* only in the wake of a fault, and what is measured is of the two devices *)
(* of one pair of one sequence.                                            *)
DelaysSuffice ==
  /\ [](Schedule!TypeOK /\ Schedule!NoBacklog)
  /\ Schedule!FailsInTheWake
  /\ Schedule!HeardInTime
  /\ Schedule!SamePair

(* Every pair is ranged, time and again, once faults have ceased; the loop *)
(* commands every pair again and again, and what was replaced ends.        *)
EveryPair ==
  part = "schedule" => \A p \in Schedule!Pairs :
    []<><<Schedule!InitiateReports(p[1]) /\ Head(inbox[p[1]]).pair = p>>_scheduleVars
ServerGoesOn == PairsGoOn /\ EveryPair
=============================================================================
