------------------------------- MODULE Firmware -------------------------------
(***************************************************************************)
(* What surrounds the ranging of a device: how a controller's task is      *)
(* started and stopped (TaskLifecycle), the WiFi task (WifiTask), start-up *)
(* (AppStart), the endpoint of the server, from .env to the connection     *)
(* (Endpoint), and a pair's two commands, from their arguments to the      *)
(* report (PairCommands).                                                  *)
(*                                                                         *)
(* The parts share no state.  The first state chooses the one that runs;   *)
(* the others stay in a first state of theirs.                             *)
(***************************************************************************)
EXTENDS TaskLifecycle, Sequences

CONSTANTS
  CheckInterval, AssocTime, MaxLosses,  \* of WifiTask
  MaxBoots,                             \* of AppStart
  MaxLength, MaxPort,                   \* of Endpoint
  Numerals, Timeouts, Byte, LongMax     \* of PairCommands

VARIABLES part,
  wifiRunning, wifiPc, left, station, age, ap, losses, waits,
  boots, works, bootPc, halted, driver, chip, task, ranged,
  env, built, stage, request,
  listening, initiated, asked, poll, resp, report

lifecycleVars == <<handle, running, handler, created, at, pc, started>>
wifiVars == <<wifiRunning, wifiPc, left, station, age, ap, losses, waits>>
bootVars == <<boots, works, bootPc, halted, driver, chip, task, ranged>>
endpointVars == <<env, built, stage, request>>
pairVars == <<listening, initiated, asked, poll, resp, report>>
allVars == <<part, lifecycleVars, wifiVars, bootVars, endpointVars, pairVars>>

Wifi == INSTANCE WifiTask WITH running <- wifiRunning, pc <- wifiPc
Boot == INSTANCE AppStart WITH pc <- bootPc
Server == INSTANCE Endpoint WITH at <- stage
Pair == INSTANCE PairCommands

ASSUME PartAssumptions ==
  /\ Wifi!WifiTaskAssumption /\ Boot!BootsAreNat
  /\ Server!EndpointAssumption /\ Pair!NumbersAreInts

AnEndpoint == [scheme |-> <<"ws">>, host |-> <<"name">>, path |-> <<>>, port |-> 1]

MCInit ==
  /\ part \in {"lifecycle", "wifi", "boot", "endpoint", "pair"}
  /\ Init /\ Pair!Init
  /\ Wifi!Init /\ (part = "wifi" \/ ap)
  /\ Boot!Init /\ (part = "boot" \/ works = {})
  /\ Server!Init /\ (part = "endpoint" \/ env = AnEndpoint)

MCNext ==
  /\ UNCHANGED part
  /\ \/ /\ part = "lifecycle" /\ Next
        /\ UNCHANGED <<wifiVars, bootVars, endpointVars, pairVars>>
     \/ /\ part = "wifi" /\ Wifi!Next
        /\ UNCHANGED <<lifecycleVars, bootVars, endpointVars, pairVars>>
     \/ /\ part = "boot" /\ Boot!Next
        /\ UNCHANGED <<lifecycleVars, wifiVars, endpointVars, pairVars>>
     \/ /\ part = "endpoint" /\ Server!Next
        /\ UNCHANGED <<lifecycleVars, wifiVars, bootVars, pairVars>>
     \/ /\ part = "pair" /\ Pair!Next
        /\ UNCHANGED <<lifecycleVars, wifiVars, bootVars, endpointVars>>

(* The fairness of each part's own specification.                          *)
MCSpec ==
  /\ MCInit /\ [][MCNext]_allVars
  /\ WF_lifecycleVars(part = "lifecycle" /\ (StopClears \/ StopWaits \/ StopUnregisters))
  /\ \A t \in Tasks : WF_lifecycleVars(part = "lifecycle" /\ Task(t))
  /\ WF_wifiVars(part = "wifi" /\ Wifi!Task)
  /\ WF_wifiVars(part = "wifi" /\ Wifi!Tick)
  /\ WF_wifiVars(part = "wifi" /\ Wifi!Settle)
  /\ WF_bootVars(part = "boot" /\ Boot!Run)
  /\ WF_bootVars(part = "boot" /\ Boot!Range)
  /\ WF_endpointVars(part = "endpoint" /\ Server!Next)
  /\ WF_pairVars(part = "pair" /\ Pair!HearPoll)
  /\ WF_pairVars(part = "pair" /\ Pair!HearResponse)

-----------------------------------------------------------------------------
(* Properties of the parts; those of TaskLifecycle are taken as they are.  *)

(* WiFi.  While an association takes less than the delay between checks    *)
(* one call of WiFi.begin is enough, and what has ended leaves WiFi off.   *)
WifiObeys == Wifi!WifiObeys

(* Start-up, with steps that fail and resets in between.  The chip is used *)
(* only with everything setup gives it, given in this boot, and the UWB    *)
(* task never runs without the WiFi task.                                  *)
BootsWell == Boot!BootsWell

(* Endpoint.  The path the client asks for is the server's route.          *)
PathsAgree == Server!PathsAgree

(* Commands.  A distance is reported only for the pair that both commands  *)
(* named, its addresses unshortened and not swapped.                       *)
PairServed == Pair!PairServed

(* What each part comes to: stop returns; with the access point there for  *)
(* good WiFi comes up for good, and a task that is stopped turns it off; a *)
(* boot ends with a device that ranges, or halted at a step that does not  *)
(* work; what the loader lets through and setup accepts can be connected   *)
(* to; and two commands for one pair, with arguments that fit, lead to a   *)
(* report.                                                                 *)
FirmwareGoesOn ==
  /\ StopReturns
  /\ part = "wifi" => Wifi!ComesUp
  /\ part = "wifi" => Wifi!StopTurnsOff
  /\ part = "boot" => Boot!BootEnds
  /\ part = "endpoint" => Server!BuiltConnects
  /\ part = "pair" => Pair!PairIsRanged
=============================================================================
