------------------------------ MODULE AppStart ------------------------------
(***************************************************************************)
(* App::run, composition/app.cpp: bring the DW3000 up, look at the         *)
(* configuration, start the two tasks, and halt; a step that fails halts   *)
(* it where it is. The ESP32 may restart by itself, its reset does not     *)
(* reach the DW3000 (nothing drives the reset pin), and a power cycle      *)
(* restarts both. A task goes on when the main one has halted.             *)
(***************************************************************************)
EXTENDS Integers, FiniteSets

CONSTANT MaxBoots  \* bound: boots in a behaviour

BootsAreNat == MaxBoots \in Nat

Steps == <<"idlerc", "initialise", "configure", "radio",
           "infrastructures", "wifi", "uwb">>
CanFail == {"idlerc", "initialise", "configure", "infrastructures", "wifi", "uwb"}

VARIABLES
  boots,
  works,   \* the steps that will not fail in this boot
  pc,      \* the step that App::run is at, beyond Steps when it is done
  halted,  \* it has halted on a failure
  driver,  \* what of the DW3000 this boot has set up
  chip,    \* what the chip has been given since its power came on
  task,    \* task[t] of "wifi" and "uwb": "none", "runs"
  ranged   \* the UWB task has used the chip in this boot

vars == <<boots, works, pc, halted, driver, chip, task, ranged>>

Settings == {"idlerc", "initialise", "configure", "radio"}

Booted ==
  /\ works' \in SUBSET CanFail
  /\ pc' = 1 /\ halted' = FALSE /\ driver' = {} /\ ranged' = FALSE
  /\ task' = [t \in {"wifi", "uwb"} |-> "none"]

Init ==
  /\ boots = 1 /\ works \in SUBSET CanFail
  /\ pc = 1 /\ halted = FALSE /\ driver = {} /\ chip = {} /\ ranged = FALSE
  /\ task = [t \in {"wifi", "uwb"} |-> "none"]

At(step) == ~halted /\ pc \in 1 .. 7 /\ Steps[pc] = step

(* Mutant: a failure is logged, and the step is skipped.                   *)
Halts_LogsOnly(step) ==
  /\ At(step) /\ step \in CanFail \ works
  /\ pc' = pc + 1
  /\ UNCHANGED <<boots, works, halted, driver, chip, task, ranged>>

Halts(step) ==
  /\ At(step) /\ step \in CanFail \ works
  /\ halted' = TRUE
  /\ UNCHANGED <<boots, works, pc, driver, chip, task, ranged>>

Passes(step) == At(step) /\ step \in works \cup {"radio"} /\ pc' = pc + 1

(* setup: a call of the driver, which writes the chip.                     *)
SetUp(step) ==
  /\ step \in Settings
  /\ Passes(step)
  /\ driver' = driver \cup {step} /\ chip' = chip \cup {step}
  /\ UNCHANGED <<boots, works, halted, task, ranged>>

InitInfrastructures ==
  /\ Passes("infrastructures")
  /\ UNCHANGED <<boots, works, halted, driver, chip, task, ranged>>

InitControllers(t) ==
  /\ t \in {"wifi", "uwb"} /\ Passes(t)
  /\ task' = [task EXCEPT ![t] = "runs"]
  /\ UNCHANGED <<boots, works, halted, driver, chip, ranged>>

(* The UWB task, once WiFi and the server let it.                          *)
Range ==
  /\ task["uwb"] = "runs" /\ ranged' = TRUE
  /\ UNCHANGED <<boots, works, pc, halted, driver, chip, task>>

Restart ==
  /\ boots < MaxBoots /\ boots' = boots + 1
  /\ Booted /\ UNCHANGED chip
PowerCycle ==
  /\ boots < MaxBoots /\ boots' = boots + 1
  /\ Booted /\ chip' = {}

Step(step) == Halts(step) \/ SetUp(step) \/ InitControllers(step)
Run == InitInfrastructures \/ \E i \in 1 .. 7 : Step(Steps[i])

Next == Run \/ Range \/ Restart \/ PowerCycle

Spec == Init /\ [][Next]_vars /\ WF_vars(Run) /\ WF_vars(Range)

-----------------------------------------------------------------------------
(* Properties.                                                             *)

(* The chip is used only with everything that setup gives it, given in     *)
(* this boot: what is left from the last one is not relied upon.           *)
RangesConfigured == ranged => Settings \subseteq driver \cap chip

(* The UWB task never runs without the WiFi task that it waits for.        *)
WifiRunsFirst == task["uwb"] = "runs" => task["wifi"] = "runs"

(* Both: a boot sets up what it uses before it uses it.                    *)
BootsWell == RangesConfigured /\ WifiRunsFirst

(* The last boot ends with the device ranging, or halted at a step that    *)
(* does not work.                                                          *)
BootEnds == boots = MaxBoots ~> ranged \/ (halted /\ Steps[pc] \notin works)
=============================================================================
