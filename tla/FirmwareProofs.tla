--------------------------- MODULE FirmwareProofs ---------------------------
(***************************************************************************)
(* What surrounds the ranging of a device, part by part: start, stop and   *)
(* task for any number of tasks (TaskLifecycle); the WiFi task with any    *)
(* delay that an association fits into (WifiTask); start-up for any number *)
(* of boots (AppStart); the server's address from .env to its routes       *)
(* (Endpoint); and the two commands of a pair for any width of a byte and  *)
(* any numbers in their arguments (PairCommands).                          *)
(***************************************************************************)
EXTENDS Firmware, WellFoundedInduction, SequenceTheorems, TLAPS

(* In start past its check, and in stop past its wait, there is no task.   *)
NoHandle == pc \in {"register", "run", "create", "unregister"} => handle = 0

(* Tasks are created in order.                                             *)
InOrder == \A t \in Tasks : at[t] = "none" <=> t > created

HandleInv == TypeOK /\ HandleIsLive /\ NoHandle /\ InOrder

----------------------------------------------------------------------------
LEMMA HandleInit == Init => HandleInv
<1> SUFFICES ASSUME Init PROVE HandleInv
  OBVIOUS
<1> USE LifecycleAssumption DEF Init, Tasks
<1>1. TypeOK
  <2>1. at \in [Tasks -> {"none", "loop", "disconnect", "forget", "finish", "deleted"}]
    BY Zenon
  <2>2. created \in 0 .. MaxTasks
    OBVIOUS
  <2> QED BY <2>1, <2>2, Zenon DEF TypeOK
<1>2. \A t \in Tasks : at[t] = "none" /\ t > 0
  OBVIOUS
<1>3. HandleIsLive
  BY <1>2 DEF HandleIsLive, AtWork
<1>4. NoHandle /\ InOrder
  BY <1>2 DEF NoHandle, InOrder
<1> QED BY <1>1, <1>3, <1>4 DEF HandleInv

(* The calling thread.                                                     *)
LEMMA CallerKeepsHandle ==
  ASSUME HandleInv, Caller
  PROVE  HandleInv'
<1> USE LifecycleAssumption
    DEF HandleInv, TypeOK, HandleIsLive, NoHandle, InOrder, AtWork, Tasks
<1>1. CASE StartChecks
  BY <1>1 DEF StartChecks
<1>2. CASE StartRegisters
  BY <1>2 DEF StartRegisters
<1>3. CASE StartRuns
  BY <1>3 DEF StartRuns
<1>4. CASE StartCreates
  <2>1. CASE created < MaxTasks /\ created' = created + 1 /\ handle' = created'
             /\ at' = [at EXCEPT ![created'] = "loop"] /\ started' = TRUE
             /\ pc' = "idle" /\ UNCHANGED <<running, handler>>
    <3>1. created' \in Tasks /\ handle = 0
      BY <2>1, <1>4 DEF StartCreates
    <3>2. \A t \in Tasks : at'[t] = IF t = created' THEN "loop" ELSE at[t]
      BY <2>1, <3>1
    <3>3. TypeOK'
      BY <2>1, <3>1
    <3>4. HandleIsLive'
      BY <2>1, <3>1, <3>2
    <3>5. InOrder'
      BY <2>1, <3>1, <3>2
    <3> QED BY <2>1, <3>3, <3>4, <3>5
  <2>2. CASE handler' = FALSE /\ running' = FALSE /\ handle' = 0 /\ pc' = "idle"
             /\ UNCHANGED <<created, at, started>>
    BY <2>2, <1>4 DEF StartCreates
  <2> QED BY <1>4, <2>1, <2>2 DEF StartCreates
<1>5. CASE StopChecks
  BY <1>5 DEF StopChecks
<1>6. CASE StopClears
  BY <1>6 DEF StopClears
<1>7. CASE StopWaits
  BY <1>7 DEF StopWaits
<1>8. CASE StopUnregisters
  BY <1>8 DEF StopUnregisters
<1> QED BY <1>1, <1>2, <1>3, <1>4, <1>5, <1>6, <1>7, <1>8 DEF Caller

(* A task.                                                                 *)
LEMMA TaskKeepsHandle ==
  ASSUME HandleInv, NEW t \in Tasks, Task(t) \/ StopsItself(t)
  PROVE  HandleInv'
<1> USE LifecycleAssumption
    DEF HandleInv, TypeOK, HandleIsLive, NoHandle, InOrder, AtWork, Tasks, Moves
<1>1. CASE StopsItself(t)
  BY <1>1 DEF StopsItself
<1>2. CASE LeavesLoop(t)
  BY <1>2 DEF LeavesLoop
<1>3. CASE Disconnects(t)
  BY <1>3 DEF Disconnects
<1>4. CASE ForgetsHandle(t)
  <2>1. handle = t /\ \A u \in Tasks \ {t} : ~AtWork(u)
    BY <1>4 DEF ForgetsHandle
  <2> QED BY <1>4, <2>1 DEF ForgetsHandle
<1>5. CASE ClearsRunning(t)
  BY <1>5 DEF ClearsRunning
<1> QED BY <1>1, <1>2, <1>3, <1>4, <1>5 DEF Task

LEMMA HandleStep == HandleInv /\ [Next]_vars => HandleInv'
<1> SUFFICES ASSUME HandleInv, [Next]_vars PROVE HandleInv'
  OBVIOUS
<1>1. CASE UNCHANGED vars
  BY <1>1 DEF vars, HandleInv, TypeOK, HandleIsLive, NoHandle, InOrder, AtWork
<1>2. CASE Caller
  BY <1>2, CallerKeepsHandle
<1>3. CASE \E t \in Tasks : Task(t) \/ StopsItself(t)
  BY <1>3, TaskKeepsHandle
<1> QED BY <1>1, <1>2, <1>3 DEF Next

LEMMA HandleAlways == Spec => []HandleInv
  BY HandleInit, HandleStep, PTL DEF Spec

(* task_handle names the task at work, and a task at work is named.        *)
THEOREM HandleLives == Spec => [](TypeOK /\ HandleIsLive)
  BY HandleAlways, PTL DEF HandleInv

(* At most one task of a controller is at work.                            *)
THEOREM OneTask == Spec => []OneAtWork
<1>1. HandleInv => OneAtWork
  BY DEF HandleInv, HandleIsLive, OneAtWork
<1> QED BY <1>1, HandleAlways, PTL

(* When stop returns no task is at work.                                   *)
THEOREM StopWaitsForTask == Spec => StopIsFinal
<1>1. HandleInv /\ [Next]_vars => [StopUnregisters => \A t \in Tasks : ~AtWork(t)]_vars
  BY LifecycleAssumption
     DEF HandleInv, NoHandle, HandleIsLive, StopUnregisters, Tasks
<1> QED BY <1>1, HandleAlways, PTL DEF Spec, StopIsFinal

(* All of it: one task at a time, by a handle that tells the truth.        *)
THEOREM TasksAreApart == Spec => TasksApart
BY HandleLives, OneTask, StopWaitsForTask, PTL DEF TasksApart

----------------------------------------------------------------------------
(* A patient caller: start finds no task that is yet to clear running.     *)
Finished(t) == at[t] \in {"none", "deleted"}

PatientInv ==
  /\ pc \in {"register", "run", "create"} => \A t \in Tasks : Finished(t)
  /\ pc = "create" => running
  /\ pc \in {"clear", "wait", "unregister"} => ~started
  /\ started => /\ running /\ handle # 0
                /\ \A t \in Tasks : Finished(t) \/ at[t] = "loop"

LEMMA CallerKeepsPatient ==
  ASSUME Patient, HandleInv, PatientInv, Caller
  PROVE  PatientInv'
<1> USE LifecycleAssumption
    DEF HandleInv, TypeOK, HandleIsLive, NoHandle, AtWork, Tasks, PatientInv, Finished
<1>1. CASE StartChecks
  <2>1. pc' = "register" => \A t \in Tasks : Finished(t)
    BY <1>1 DEF StartChecks, Waited
  <2> QED BY <1>1, <2>1 DEF StartChecks
<1>2. CASE StartRegisters
  BY <1>2 DEF StartRegisters
<1>3. CASE StartRuns
  BY <1>3 DEF StartRuns
<1>4. CASE StartCreates
  <2>1. handle = 0 /\ ~started /\ running /\ \A t \in Tasks : Finished(t)
    BY <1>4 DEF StartCreates
  <2>2. CASE created < MaxTasks /\ created' = created + 1 /\ handle' = created'
             /\ at' = [at EXCEPT ![created'] = "loop"] /\ pc' = "idle" /\ running' = running
    <3>1. handle' # 0
      BY <2>2
    <3>2. \A t \in Tasks : at'[t] = IF t = created' THEN "loop" ELSE at[t]
      BY <2>2, <3>1
    <3> QED BY <2>1, <2>2, <3>1, <3>2
  <2>3. CASE pc' = "idle" /\ UNCHANGED <<created, at, started>>
    BY <2>1, <2>3
  <2> QED BY <1>4, <2>2, <2>3 DEF StartCreates
<1>5. CASE StopChecks
  BY <1>5 DEF StopChecks
<1>6. CASE StopClears
  BY <1>6 DEF StopClears
<1>7. CASE StopWaits
  BY <1>7 DEF StopWaits
<1>8. CASE StopUnregisters
  BY <1>8 DEF StopUnregisters
<1> QED BY <1>1, <1>2, <1>3, <1>4, <1>5, <1>6, <1>7, <1>8 DEF Caller

LEMMA TaskKeepsPatient ==
  ASSUME HandleInv, PatientInv, NEW t \in Tasks, Task(t) \/ StopsItself(t)
  PROVE  PatientInv'
<1> USE LifecycleAssumption
    DEF HandleInv, TypeOK, Tasks, PatientInv, Finished, Moves
<1>1. CASE StopsItself(t)
  BY <1>1 DEF StopsItself
<1>2. CASE LeavesLoop(t)
  BY <1>2 DEF LeavesLoop
<1>3. CASE Disconnects(t)
  BY <1>3 DEF Disconnects
<1>4. CASE ForgetsHandle(t)
  BY <1>4 DEF ForgetsHandle
<1>5. CASE ClearsRunning(t)
  BY <1>5 DEF ClearsRunning
<1> QED BY <1>1, <1>2, <1>3, <1>4, <1>5 DEF Task

(* If start is only called when the last task is gone, running stays set   *)
(* until stop is called.                                                   *)
THEOREM PatientStartSticks ==
  ASSUME Patient
  PROVE  Spec => []StartSticks
<1>1. Init => PatientInv
  BY DEF Init, PatientInv, Finished
<1>2. HandleInv /\ PatientInv /\ [Next]_vars => PatientInv'
  <2> SUFFICES ASSUME HandleInv, PatientInv, [Next]_vars PROVE PatientInv'
    OBVIOUS
  <2>1. CASE UNCHANGED vars
    BY <2>1 DEF vars, PatientInv, Finished
  <2>2. CASE Caller
    BY <2>2, CallerKeepsPatient
  <2>3. CASE \E t \in Tasks : Task(t) \/ StopsItself(t)
    BY <2>3, TaskKeepsPatient
  <2> QED BY <2>1, <2>2, <2>3 DEF Next
<1>3. PatientInv => StartSticks
  BY DEF PatientInv, StartSticks
<1> QED BY <1>1, <1>2, <1>3, HandleAlways, PTL DEF Spec

----------------------------------------------------------------------------
(* The WiFi task.                                                          *)

(* Once WiFi.begin was called with the access point there, the association *)
(* is under way, and over before the delay is; or it is there.             *)
BeginHolds ==
  waits > 0 => /\ ap
               /\ wifiPc # "begin"
               /\ wifiPc # "ended" => station \in {"associating", "connected"}
               /\ station = "associating" => wifiPc = "delay" /\ age + left >= CheckInterval

WifiInv == Wifi!TypeOK /\ Wifi!OneBeginIsEnough /\ Wifi!StaysOff /\ BeginHolds

LEMMA WifiStep ==
  ASSUME Wifi!WifiTaskAssumption, AssocTime < CheckInterval, WifiInv, [Wifi!Next]_(Wifi!vars)
  PROVE  WifiInv'
<1> USE DEF Wifi!WifiTaskAssumption, WifiInv, Wifi!TypeOK, Wifi!OneBeginIsEnough,
            Wifi!StaysOff, BeginHolds
<1>1. CASE Wifi!CheckRunning
  BY <1>1 DEF Wifi!CheckRunning
<1>2. CASE Wifi!Check
  BY <1>2 DEF Wifi!Check
<1>3. CASE Wifi!Begin
  BY <1>3 DEF Wifi!Begin
<1>4. CASE Wifi!Delayed
  BY <1>4 DEF Wifi!Delayed
<1>5. CASE Wifi!Settle
  BY <1>5 DEF Wifi!Settle
<1>6. CASE Wifi!Retry
  BY <1>6 DEF Wifi!Retry
<1>7. CASE Wifi!Appear
  BY <1>7 DEF Wifi!Appear
<1>8. CASE Wifi!Vanish
  <2>1. station' \in {"off", "lost", "associating", "connected"}
    BY <1>8 DEF Wifi!Vanish
  <2>2. station' # "associating" => age' = 0
    BY <1>8 DEF Wifi!Vanish
  <2>3. wifiPc' = "ended" => station' = "off"
    BY <1>8 DEF Wifi!Vanish
  <2>4. losses' \in 0 .. MaxLosses /\ waits' = 0
    BY <1>8 DEF Wifi!Vanish
  <2>5. UNCHANGED <<wifiRunning, wifiPc, left, age>> /\ ap' = FALSE
    BY <1>8 DEF Wifi!Vanish
  <2>6. Wifi!TypeOK'
    <3>1. wifiRunning' \in BOOLEAN /\ ap' \in BOOLEAN
      BY <2>5, Zenon
    <3>2. left' \in 0 .. CheckInterval /\ age' \in 0 .. AssocTime /\ waits' \in 0 .. 2
      BY <2>4, <2>5
    <3>3. /\ wifiPc' \in {"check", "begin", "delay", "ended"}
          /\ wifiPc' # "delay" => left' = 0
      BY <2>5
    <3> QED BY <2>1, <2>2, <2>4, <3>1, <3>2, <3>3, Zenon
  <2>7. Wifi!OneBeginIsEnough' /\ Wifi!StaysOff' /\ BeginHolds'
    BY <2>3, <2>4
  <2> QED BY <2>6, <2>7
<1>9. CASE Wifi!Stop
  BY <1>9 DEF Wifi!Stop
<1>10. CASE Wifi!Tick
  BY <1>10 DEF Wifi!Tick
<1>11. CASE UNCHANGED Wifi!vars
  BY <1>11 DEF Wifi!vars
<1> QED BY <1>1, <1>2, <1>3, <1>4, <1>5, <1>6, <1>7, <1>8, <1>9, <1>10, <1>11
        DEF Wifi!Next, Wifi!Task, Wifi!Done

(* When an association takes less than the delay between two checks, the   *)
(* task calls WiFi.begin at most once for an access point that stays, and  *)
(* what has ended leaves WiFi off.                                         *)
THEOREM WifiDoesObey ==
  ASSUME AssocTime < CheckInterval
  PROVE  Wifi!Spec => []WifiObeys
<1> USE PartAssumptions DEF PartAssumptions
<1>1. Wifi!Init => WifiInv
  BY DEF Wifi!Init, Wifi!WifiTaskAssumption, WifiInv, Wifi!TypeOK, Wifi!OneBeginIsEnough,
         Wifi!StaysOff, BeginHolds
<1>2. WifiInv /\ [Wifi!Next]_(Wifi!vars) => WifiInv'
  BY WifiStep
<1>3. WifiInv => Wifi!TypeOK /\ Wifi!OneBeginIsEnough /\ Wifi!StaysOff
  BY DEF WifiInv
<1> QED BY <1>1, <1>2, <1>3, PTL DEF Wifi!Spec, WifiObeys, Wifi!WifiObeys

----------------------------------------------------------------------------
(* Start-up.                                                               *)

(* The steps are taken in order: what is before bootPc was done, in this   *)
(* boot, and so was all that a running task is there for.                  *)
BootInv ==
  /\ bootPc \in 1 .. 8
  /\ task \in [{"wifi", "uwb"} -> {"none", "runs"}]
  /\ driver \subseteq chip
  /\ \A i \in 1 .. 4 : i < bootPc => Boot!Steps[i] \in driver
  /\ bootPc > 6 => task["wifi"] = "runs"
  /\ task["uwb"] = "runs" => bootPc = 8
  /\ ranged => task["uwb"] = "runs"

(* Where App::run is, by the name of the step.                             *)
LEMMA StepNames ==
  ASSUME NEW step, Boot!At(step)
  PROVE  /\ bootPc \in 1 .. 7 /\ Boot!Steps[bootPc] = step
         /\ step \in Boot!Settings <=> bootPc <= 4
         /\ step = "infrastructures" <=> bootPc = 5
         /\ step = "wifi" <=> bootPc = 6
         /\ step = "uwb" <=> bootPc = 7
<1>1. bootPc \in 1 .. 7 /\ Boot!Steps[bootPc] = step
  BY DEF Boot!At
<1>2. CASE bootPc = 1
  BY <1>1, <1>2 DEF Boot!Steps, Boot!Settings
<1>3. CASE bootPc = 2
  BY <1>1, <1>3 DEF Boot!Steps, Boot!Settings
<1>4. CASE bootPc = 3
  BY <1>1, <1>4 DEF Boot!Steps, Boot!Settings
<1>5. CASE bootPc = 4
  BY <1>1, <1>5 DEF Boot!Steps, Boot!Settings
<1>6. CASE bootPc = 5
  BY <1>1, <1>6 DEF Boot!Steps, Boot!Settings
<1>7. CASE bootPc = 6
  BY <1>1, <1>7 DEF Boot!Steps, Boot!Settings
<1>8. CASE bootPc = 7
  BY <1>1, <1>8 DEF Boot!Steps, Boot!Settings
<1> QED BY <1>1, <1>2, <1>3, <1>4, <1>5, <1>6, <1>7, <1>8

LEMMA BootedKeeps ==
  ASSUME Boot!Booted, chip' \in {chip, {}}
  PROVE  BootInv'
<1>1. bootPc' = 1 /\ driver' = {} /\ ranged' = FALSE
  BY DEF Boot!Booted
<1>2. task' = [t \in {"wifi", "uwb"} |-> "none"]
  BY DEF Boot!Booted
<1> QED BY <1>1, <1>2 DEF BootInv

LEMMA StepKeeps ==
  ASSUME BootInv, NEW i \in 1 .. 7, Boot!Step(Boot!Steps[i])
  PROVE  BootInv'
<1> DEFINE step == Boot!Steps[i]
<1>1. CASE Boot!Halts(step)
  BY <1>1 DEF Boot!Halts, BootInv
<1>2. CASE Boot!SetUp(step)
  <2>1. /\ Boot!At(step) /\ bootPc' = bootPc + 1 /\ step \in Boot!Settings
        /\ driver' = driver \cup {step} /\ chip' = chip \cup {step}
        /\ UNCHANGED <<task, ranged>>
    BY <1>2 DEF Boot!SetUp, Boot!Passes
  <2>2. bootPc \in 1 .. 4 /\ Boot!Steps[bootPc] = step
    BY <2>1, StepNames
  <2>3. \A j \in 1 .. 4 : j < bootPc' => Boot!Steps[j] \in driver'
    BY <2>1, <2>2 DEF BootInv
  <2> HIDE DEF step
  <2>4. driver' \subseteq chip'
    BY <2>1 DEF BootInv
  <2> QED BY <2>1, <2>2, <2>3, <2>4 DEF BootInv
<1>3. CASE Boot!InitControllers(step)
  <2>1. /\ Boot!At(step) /\ bootPc' = bootPc + 1 /\ step \in {"wifi", "uwb"}
        /\ task' = [task EXCEPT ![step] = "runs"]
        /\ UNCHANGED <<driver, chip, ranged>>
    BY <1>3 DEF Boot!InitControllers, Boot!Passes
  <2>2. /\ step = "wifi" => bootPc = 6
        /\ step = "uwb" => bootPc = 7
    BY <2>1, StepNames
  <2> HIDE DEF step
  <2> QED BY <2>1, <2>2 DEF BootInv
<1> QED BY <1>1, <1>2, <1>3 DEF Boot!Step

(* The chip is used only with what this boot gave it, and the UWB task     *)
(* never runs without the WiFi task, for any number of boots and any steps *)
(* that fail.                                                              *)
THEOREM BootsInOrder == Boot!Spec => []BootsWell
<1>1. Boot!Init => BootInv
  <2> SUFFICES ASSUME Boot!Init PROVE BootInv
    OBVIOUS
  <2>1. bootPc = 1 /\ driver = {} /\ chip = {} /\ ranged = FALSE
    BY DEF Boot!Init
  <2>2. task = [t \in {"wifi", "uwb"} |-> "none"]
    BY DEF Boot!Init
  <2> QED BY <2>1, <2>2 DEF BootInv
<1>2. BootInv /\ [Boot!Next]_(Boot!vars) => BootInv'
  <2> SUFFICES ASSUME BootInv, [Boot!Next]_(Boot!vars) PROVE BootInv'
    OBVIOUS
  <2>1. CASE \E i \in 1 .. 7 : Boot!Step(Boot!Steps[i])
    BY <2>1, StepKeeps
  <2>2. CASE Boot!InitInfrastructures
    <3>1. Boot!At("infrastructures") /\ bootPc' = bootPc + 1
      BY <2>2 DEF Boot!InitInfrastructures, Boot!Passes
    <3>2. bootPc = 5
      BY <3>1, StepNames
    <3> QED BY <2>2, <3>1, <3>2 DEF Boot!InitInfrastructures, BootInv
  <2>3. CASE Boot!Range
    BY <2>3 DEF Boot!Range, BootInv
  <2>4. CASE Boot!Restart
    BY <2>4, BootedKeeps DEF Boot!Restart
  <2>5. CASE Boot!PowerCycle
    BY <2>5, BootedKeeps DEF Boot!PowerCycle
  <2>6. CASE UNCHANGED Boot!vars
    BY <2>6 DEF Boot!vars, BootInv
  <2> QED BY <2>1, <2>2, <2>3, <2>4, <2>5, <2>6 DEF Boot!Next, Boot!Run
<1>3. BootInv => Boot!RangesConfigured /\ Boot!WifiRunsFirst
  <2> SUFFICES ASSUME BootInv PROVE Boot!RangesConfigured /\ Boot!WifiRunsFirst
    OBVIOUS
  <2>1. ASSUME ranged
        PROVE  Boot!Settings \subseteq driver \cap chip
    <3>1. \A i \in 1 .. 4 : Boot!Steps[i] \in driver
      BY <2>1 DEF BootInv
    <3>2. Boot!Settings \subseteq driver
      BY <3>1 DEF Boot!Steps, Boot!Settings
    <3> QED BY <3>2 DEF BootInv
  <2>2. Boot!WifiRunsFirst
    BY DEF BootInv, Boot!WifiRunsFirst
  <2> QED BY <2>1, <2>2 DEF Boot!RangesConfigured
<1> QED BY <1>1, <1>2, <1>3, PTL DEF Boot!Spec, BootsWell, Boot!BootsWell

----------------------------------------------------------------------------
(* The two commands of a pair.                                             *)

(* Division with a remainder.                                              *)
LEMMA Division ==
  ASSUME NEW v \in Int, NEW n \in Nat \ {0}
  PROVE  v % n \in 0 .. n - 1 /\ v \div n \in Int /\ v = n * (v \div n) + (v % n)
  BY SMT

LEMMA SmallRemainder ==
  ASSUME NEW n \in Nat \ {0}, NEW q \in 0 .. n - 1
  PROVE  q % n = q
  BY SMT

(* The two bytes of a number of 16 bits give the number back.              *)
LEMMA TwoBytes ==
  ASSUME Byte \in Nat \ {0}, NEW v \in 0 .. Pair!ShortMax
  PROVE  Pair!Low(v) + Byte * Pair!High(v) = v
<1> DEFINE q == v \div Byte
           r == v % Byte
<1>1. v \in Int /\ 0 <= v /\ v < Byte * Byte
  BY DEF Pair!ShortMax
<1>2. r \in 0 .. Byte - 1 /\ q \in Int /\ v = Byte * q + r
  BY <1>1, Division
<1> HIDE DEF q, r
<1>3. q >= 0
  <2> SUFFICES ASSUME q <= -1 PROVE FALSE
    BY <1>2
  <2>1. Byte * q <= -Byte
    BY <1>2, SMT
  <2> QED BY <1>1, <1>2, <2>1
<1>4. q <= Byte - 1
  <2> SUFFICES ASSUME q >= Byte PROVE FALSE
    BY <1>2
  <2>1. Byte * q >= Byte * Byte
    BY <1>2, SMT
  <2> QED BY <1>1, <1>2, <2>1, SMT
<1>5. q % Byte = q
  BY <1>2, <1>3, <1>4, SmallRemainder
<1>6. r + Byte * (q % Byte) = v
  BY <1>2, <1>5
<1> QED BY <1>6 DEF q, r, Pair!Low, Pair!High

(* Only the header that was filled in for the same addresses is expected.  *)
LEMMA HeadersTell ==
  ASSUME Byte \in Nat \ {0},
         NEW pan \in 0 .. Pair!ShortMax, NEW dst \in 0 .. Pair!ShortMax,
         NEW src \in 0 .. Pair!ShortMax, NEW p, NEW d, NEW s, NEW fn, NEW gn,
         Pair!HasExpectedHeader(Pair!FillFrameHeader(pan, dst, src, fn), p, d, s, gn)
  PROVE  p = pan /\ d = dst /\ s = src
<1> DEFINE frame == Pair!FillFrameHeader(pan, dst, src, fn)
<1>1. /\ frame[1] = Pair!Low(pan) /\ frame[2] = Pair!High(pan)
      /\ frame[3] = Pair!Low(dst) /\ frame[4] = Pair!High(dst)
      /\ frame[5] = Pair!Low(src) /\ frame[6] = Pair!High(src)
  BY DEF Pair!FillFrameHeader
<1>2. /\ p = Pair!GetUint16(frame, 1) /\ d = Pair!GetUint16(frame, 3)
      /\ s = Pair!GetUint16(frame, 5)
  BY DEF Pair!HasExpectedHeader
<1> HIDE DEF frame
<1>3. /\ p = Pair!Low(pan) + Byte * Pair!High(pan)
      /\ d = Pair!Low(dst) + Byte * Pair!High(dst)
      /\ s = Pair!Low(src) + Byte * Pair!High(src)
  BY <1>1, <1>2 DEF Pair!GetUint16
<1> QED BY <1>3, TwoBytes

(* An argument that is accepted is read as the number it is.               *)
LEMMA ReadAsWritten ==
  ASSUME NEW a \in Pair!Args, Pair!Accepted(a), NEW f \in {"pan", "dst", "src"}
  PROVE  Pair!AsRead(a)[f] = a[f] /\ a[f] \in 0 .. Pair!ShortMax
<1>1. DOMAIN a = {"pan", "dst", "src", "timeout"} /\ a[f] \in Pair!Numbers
  BY DEF Pair!Args
<1>2. Pair!ReadRangingArgs(a)[f] = Pair!ReadUint16(a[f])
  BY DEF Pair!ReadRangingArgs
<1>3. Pair!ReadUint16(a[f]) # <<>>
  BY <1>1, <1>2 DEF Pair!Accepted
<1>4. a[f] \in 0 .. Pair!ShortMax /\ Pair!ReadUint16(a[f]) = <<a[f]>>
  BY <1>3 DEF Pair!ReadUint16
<1>5. Pair!AsRead(a)[f] = Pair!ReadRangingArgs(a)[f][1]
  BY <1>1 DEF Pair!AsRead
<1> QED BY <1>2, <1>4, <1>5

(* A call has the addresses of its command, and each fits.                 *)
Follows(call, a) ==
  /\ Pair!SameDevices(call, a)
  /\ \A f \in {"pan", "dst", "src"} : call[f] \in 0 .. Pair!ShortMax

PairInv ==
  /\ asked.listen = Pair!None => listening = Pair!None
  /\ asked.initiate = Pair!None => poll = <<>>
  /\ listening # Pair!None => Follows(listening, asked.listen)
  /\ poll # <<>> =>
       /\ Follows(initiated, asked.initiate)
       /\ poll = Pair!FillFrameHeader(initiated.pan, initiated.dst, initiated.src, "poll")
  /\ resp # <<>> =>
       listening # Pair!None /\ poll # <<>> /\ Pair!SameDevices(listening, initiated)
  /\ report # Pair!None => resp # <<>> /\ Pair!SameDevices(report, initiated)
  /\ DOMAIN asked = {"listen", "initiate"}

LEMMA PairStep ==
  ASSUME Byte \in Nat \ {0}, PairInv, [Pair!Next]_(Pair!vars)
  PROVE  PairInv'
<1>1. ASSUME NEW a \in Pair!Args, Pair!Listen(a)
      PROVE  PairInv'
  <2>1. /\ asked.listen = Pair!None /\ asked' = [asked EXCEPT !.listen = a]
        /\ UNCHANGED <<initiated, poll, resp, report>>
    BY <1>1 DEF Pair!Listen
  <2>2. /\ asked'.listen = a /\ asked'.initiate = asked.initiate
        /\ DOMAIN asked' = {"listen", "initiate"}
    BY <2>1 DEF PairInv
  <2>3. a # Pair!None
    BY DEF Pair!Args, Pair!None
  <2>4. listening' # Pair!None => Follows(listening', a)
    <3> SUFFICES ASSUME listening' # Pair!None PROVE Follows(listening', a)
      OBVIOUS
    <3>1. Pair!Accepted(a) /\ listening' = Pair!AsRead(a)
      BY <1>1 DEF Pair!Listen
    <3> QED BY <3>1, ReadAsWritten DEF Follows, Pair!SameDevices
  <2>5. resp = <<>> /\ report = Pair!None
    BY <2>1 DEF PairInv
  <2> QED BY <2>1, <2>2, <2>3, <2>4, <2>5 DEF PairInv
<1>2. ASSUME NEW a \in Pair!Args, Pair!Initiate(a)
      PROVE  PairInv'
  <2>1. /\ asked.initiate = Pair!None /\ asked' = [asked EXCEPT !.initiate = a]
        /\ UNCHANGED <<listening, resp, report>>
    BY <1>2 DEF Pair!Initiate
  <2>2. /\ asked'.initiate = a /\ asked'.listen = asked.listen
        /\ DOMAIN asked' = {"listen", "initiate"}
    BY <2>1 DEF PairInv
  <2>3. a # Pair!None
    BY DEF Pair!Args, Pair!None
  <2>4. poll = <<>> /\ resp = <<>> /\ report = Pair!None
    BY <2>1 DEF PairInv
  <2>5. poll' # <<>> =>
          /\ Follows(initiated', a)
          /\ poll' = Pair!FillFrameHeader(initiated'.pan, initiated'.dst, initiated'.src, "poll")
    <3> SUFFICES ASSUME poll' # <<>>
        PROVE  /\ Follows(initiated', a)
               /\ poll' = Pair!FillFrameHeader(initiated'.pan, initiated'.dst,
                                               initiated'.src, "poll")
      OBVIOUS
    <3>1. Pair!Accepted(a) /\ initiated' = Pair!AsRead(a)
          /\ poll' = Pair!FillFrameHeader(initiated'.pan, initiated'.dst, initiated'.src, "poll")
      BY <1>2, <2>4 DEF Pair!Initiate
    <3> QED BY <3>1, ReadAsWritten DEF Follows, Pair!SameDevices
  <2> QED BY <2>1, <2>2, <2>3, <2>4, <2>5 DEF PairInv
<1>3. CASE Pair!HearPoll
  <2>1. /\ listening # Pair!None /\ poll # <<>>
        /\ Pair!HasExpectedHeader(poll, listening.pan, listening.dst, listening.src, "poll")
        /\ UNCHANGED <<listening, initiated, asked, poll, report>>
    BY <1>3 DEF Pair!HearPoll
  <2>2. /\ initiated.pan \in 0 .. Pair!ShortMax /\ initiated.dst \in 0 .. Pair!ShortMax
        /\ initiated.src \in 0 .. Pair!ShortMax
        /\ poll = Pair!FillFrameHeader(initiated.pan, initiated.dst, initiated.src, "poll")
    BY <2>1 DEF PairInv, Follows
  <2>3. Pair!SameDevices(listening, initiated)
    BY <2>1, <2>2, HeadersTell DEF Pair!SameDevices
  <2>4. report = Pair!None
    BY <1>3 DEF Pair!HearPoll, PairInv
  <2>5. Follows(initiated, asked.initiate)'
    BY <2>1 DEF PairInv, Follows, Pair!SameDevices
  <2>6. listening # Pair!None => Follows(listening, asked.listen)'
    BY <2>1 DEF PairInv, Follows, Pair!SameDevices
  <2>7. Pair!SameDevices(listening, initiated)'
    BY <2>1, <2>3 DEF Pair!SameDevices
  <2> QED BY <2>1, <2>2, <2>4, <2>5, <2>6, <2>7 DEF PairInv
<1>4. CASE Pair!HearResponse
  <2>1. /\ resp # <<>> /\ UNCHANGED <<listening, initiated, asked, poll, resp>>
        /\ report' = [pan |-> initiated.pan, src |-> initiated.src, dst |-> initiated.dst]
    BY <1>4 DEF Pair!HearResponse
  <2>2. Pair!SameDevices(report', initiated)
    BY <2>1 DEF Pair!SameDevices
  <2> QED BY <2>1, <2>2 DEF PairInv
<1>5. CASE UNCHANGED Pair!vars
  BY <1>5 DEF Pair!vars, PairInv
<1> QED BY <1>1, <1>2, <1>3, <1>4, <1>5 DEF Pair!Next, Pair!Done

(* A distance is reported only for the pair that both commands name, its   *)
(* addresses unshortened and not swapped: for bytes and longs of any width *)
(* and any numbers in the fields of a command.                             *)
THEOREM PairIsServed == Pair!Spec => []PairServed
<1>0. Byte \in Nat \ {0}
  BY PartAssumptions DEF PartAssumptions, Pair!NumbersAreInts
<1>1. Pair!Init => PairInv
  BY DEF Pair!Init, PairInv
<1>2. PairInv /\ [Pair!Next]_(Pair!vars) => PairInv'
  BY <1>0, PairStep
<1>3. PairInv => Pair!PairServed
  BY DEF PairInv, Follows, Pair!PairServed, Pair!SameDevices
<1> QED BY <1>1, <1>2, <1>3, PTL DEF Pair!Spec, PairServed

----------------------------------------------------------------------------
(* The endpoint of the server.                                             *)

(* A set of naturals that is not empty has a least element.                *)
LEMMA LeastOfNaturals ==
  ASSUME NEW S, S \subseteq Nat, S # {}
  PROVE  \E x \in S : \A y \in S : x <= y
<1> DEFINE below == OpToRel(<, Nat)
<1>1. PICK x \in S : \A y \in S : ~ (<<y, x>> \in below)
  BY NatLessThanWellFounded, WFMin
<1>2. ASSUME NEW y \in S, y < x
      PROVE  FALSE
  <2>1. <<y, x>> \in Nat \X Nat /\ <<y, x>>[1] < <<y, x>>[2]
    BY <1>2
  <2>2. <<y, x>> \in below
    BY <2>1 DEF OpToRel
  <2> QED BY <1>1, <2>2
<1>3. \A y \in S : x <= y
  BY <1>2
<1> QED BY <1>3

LEMMA LeastAndGreatest ==
  ASSUME NEW n \in Nat, NEW S, S \subseteq 1 .. n, S # {}
  PROVE  Server!Min(S) \in S /\ Server!Max(S) \in S
<1> DEFINE D == {n - i : i \in S}
<1>1. D \subseteq Nat /\ D # {}
  BY SMT
<1>2. PICK d \in D : \A e \in D : d <= e
  BY <1>1, LeastOfNaturals
<1>3. PICK x \in S : d = n - x
  BY <1>2
<1>4. ASSUME NEW y \in S
      PROVE  x >= y
  <2>1. n - y \in D
    OBVIOUS
  <2>2. n - x <= n - y
    BY <1>2, <1>3, <2>1
  <2> QED BY <2>2
<1>5. PICK z \in S : \A y \in S : z <= y
  <2>1. S \subseteq Nat
    OBVIOUS
  <2> QED BY <2>1, LeastOfNaturals
<1>6. Server!Max(S) \in S
  BY <1>4 DEF Server!Max
<1>7. Server!Min(S) \in S
  BY <1>5 DEF Server!Min
<1> QED BY <1>6, <1>7

(* A text without the blanks at its ends is a text.                        *)
LEMMA TrimIsText ==
  ASSUME NEW P, NEW t \in Seq(P)
  PROVE  Server!Trim(t) \in Seq(P)
<1> DEFINE words == {i \in DOMAIN t : t[i] # " "}
<1>1. CASE words = {}
  <2>1. Server!Trim(t) = <<>>
    BY <1>1, Zenon DEF Server!Trim
  <2> QED BY <2>1
<1>2. CASE words # {}
  <2>1. words \subseteq 1 .. Len(t) /\ Len(t) \in Nat
    <3>1. DOMAIN t = 1 .. Len(t) /\ Len(t) \in Nat
      OBVIOUS
    <3> QED BY <3>1
  <2>2. Server!Min(words) \in 1 .. Len(t) /\ Server!Max(words) \in 1 .. Len(t)
    <3> HIDE DEF words
    <3> QED BY <1>2, <2>1, LeastAndGreatest
  <2>3. Server!Trim(t) = SubSeq(t, Server!Min(words), Server!Max(words))
    BY <1>2 DEF Server!Trim
  <2> HIDE DEF words
  <2> QED BY <2>2, <2>3
<1> QED BY <1>1, <1>2

(* The pieces of a path.                                                   *)
Piece == {" ", "/", "a", "id"}

(* A slash is a text, and so is what is put together from texts.           *)
LEMMA Pieces ==
  /\ <<"/">> \in Seq(Piece) /\ <<"id">> \in Seq(Piece)
  /\ <<"/", "id">> = <<"/">> \o <<"id">>
<1>1. /\ <<"/">> \in Seq(Piece) /\ <<"id">> \in Seq(Piece) /\ <<"/", "id">> \in Seq(Piece)
      /\ Len(<<"/">>) = 1 /\ Len(<<"id">>) = 1 /\ Len(<<"/", "id">>) = 2
  <2>1. <<"/">> \in Seq(Piece) /\ <<"id">> \in Seq(Piece)
    BY DEF Piece
  <2>2. <<"/", "id">> \in Seq(Piece)
    BY DEF Piece
  <2>3. Len(<<"/">>) = 1 /\ Len(<<"id">>) = 1
    OBVIOUS
  <2>4. Len(<<"/", "id">>) = 2
    OBVIOUS
  <2> QED BY <2>1, <2>2, <2>3, <2>4, Zenon
<1> DEFINE c == <<"/">> \o <<"id">>
<1>2. /\ c \in Seq(Piece) /\ Len(c) = 2
      /\ \A i \in 1 .. 2 : c[i] = IF i <= 1 THEN <<"/">>[i] ELSE <<"id">>[i - 1]
  BY <1>1, ConcatProperties
<1> HIDE DEF c
<1>3. c[1] = "/" /\ c[2] = "id"
  BY <1>2
<1>4. \A i \in 1 .. 2 : <<"/", "id">>[i] = c[i]
  BY <1>3
<1>5. <<"/", "id">> = c
  BY <1>1, <1>2, <1>4, SeqEqual
<1> QED BY <1>1, <1>5 DEF c

LEMMA TextsAreSequences ==
  ASSUME NEW P, P \subseteq Piece
  PROVE  Server!Texts(P) \subseteq Seq(Piece)
<1> SUFFICES ASSUME NEW t \in Server!Texts(P)
             PROVE  t \in Seq(Piece)
  OBVIOUS
<1>1. PICK n \in 0 .. MaxLength : t \in [1 .. n -> P]
  BY DEF Server!Texts
<1>2. MaxLength \in Nat
  BY PartAssumptions DEF PartAssumptions, Server!EndpointAssumption
<1>3. n \in Nat /\ t \in [1 .. n -> Piece]
  BY <1>1, <1>2
<1> QED BY <1>3, SeqDef

LEMMA PathIsText ==
  ASSUME NEW t \in Seq(Piece)
  PROVE  LET n == Server!NormalizePath(t)
         IN  n \in Seq(Piece) /\ n # <<>> /\ n[1] = "/"
<1> DEFINE n == Server!Trim(t)
<1>1. n \in Seq(Piece)
  BY TrimIsText
<1> HIDE DEF n
<1>2. /\ <<"/">> \o n \in Seq(Piece) /\ <<"/">> \o n # <<>>
      /\ (<<"/">> \o n)[1] = "/"
  <2>1. /\ <<"/">> \o n \in Seq(Piece)
        /\ Len(<<"/">> \o n) = 1 + Len(n)
        /\ \A i \in 1 .. 1 + Len(n) :
             (<<"/">> \o n)[i] = IF i <= 1 THEN <<"/">>[i] ELSE n[i - 1]
    BY <1>1, Pieces, ConcatProperties
  <2>2. Len(n) \in Nat
    BY <1>1
  <2> QED BY <2>1, <2>2
<1>3. Server!NormalizePath(t) =
        IF n = <<>> THEN <<"/">> ELSE IF n[1] # "/" THEN <<"/">> \o n ELSE n
  BY DEF Server!NormalizePath, n
<1>4. CASE n = <<>>
  BY <1>3, <1>4, Pieces
<1>5. CASE n # <<>> /\ n[1] # "/"
  BY <1>2, <1>3, <1>5
<1>6. CASE n # <<>> /\ n[1] = "/"
  BY <1>1, <1>3, <1>6
<1> QED BY <1>4, <1>5, <1>6

(* The client's path is the server's route.                                *)
LEMMA RouteIsPath ==
  ASSUME NEW t \in Seq(Piece), Server!Trim(t) # <<"/", "/">>
  PROVE  Server!BuildDevicePath(Server!NormalizePath(t)) = Server!WebsocketRoute(t)
<1> DEFINE n == Server!NormalizePath(t)
<1>1. n \in Seq(Piece) /\ n # <<>> /\ n[1] = "/"
  BY PathIsText
<1>2. n # <<"/", "/">>
  <2> DEFINE m == Server!Trim(t)
  <2>1. m \in Seq(Piece) /\ m # <<"/", "/">>
    BY TrimIsText
  <2>2. n = IF m = <<>> THEN <<"/">> ELSE IF m[1] # "/" THEN <<"/">> \o m ELSE m
    BY DEF Server!NormalizePath
  <2> HIDE DEF m, n
  <2>3. ASSUME m # <<>>, m[1] # "/", <<"/">> \o m = <<"/", "/">>
        PROVE  FALSE
    <3>1. Len(m) \in Nat /\ Len(m) >= 1
      BY <2>1, <2>3
    <3>2. (<<"/">> \o m)[2] = m[1]
      BY <2>1, <3>1, Pieces, ConcatProperties
    <3>3. <<"/", "/">>[2] = "/"
      OBVIOUS
    <3> QED BY <2>3, <3>2, <3>3
  <2> QED BY <2>1, <2>2, <2>3
<1> HIDE DEF n
<1> DEFINE address == IF Len(n) > 1 THEN Server!WithoutEnd(n, "/") ELSE n
<1>3. Server!WebsocketRoute(t) =
        IF address = <<"/">> THEN <<"/", "id">> ELSE address \o <<"/", "id">>
  BY DEF Server!WebsocketRoute, Server!NormalizeAddress, n
<1>4. Server!BuildDevicePath(n) =
        IF n[Len(n)] = "/" THEN n \o <<"id">> ELSE (n \o <<"/">>) \o <<"id">>
  BY <1>1 DEF Server!BuildDevicePath, Server!EndsWith
<1>5. CASE Len(n) = 1
  <2>1. n = <<"/">>
    BY <1>1, <1>5
  <2>2. address = <<"/">>
    BY <2>1
  <2>3. n \o <<"id">> = <<"/", "id">>
    BY <2>1, Pieces
  <2> QED BY <1>3, <1>4, <2>1, <2>2, <2>3 DEF n
<1>6. CASE Len(n) > 1 /\ n[Len(n)] = "/"
  <2> DEFINE f == Server!Front(n)
  <2>1. f = SubSeq(n, 1, Len(n) - 1)
    BY DEF Server!Front
  <2>2. address = f
    BY <1>1, <1>6 DEF Server!WithoutEnd, Server!EndsWith
  <2>3. f \in Seq(Piece) /\ Len(f) = Len(n) - 1 /\ \A i \in 1 .. Len(n) - 1 : f[i] = n[i]
    BY <1>1, <1>6, <2>1
  <2> HIDE DEF f, address
  <2>4. f # <<"/">>
    <3> SUFFICES ASSUME f = <<"/">> PROVE FALSE
      OBVIOUS
    <3>1. Len(n) = 2
      BY <1>1, <2>3
    <3>2. n = <<"/", "/">>
      BY <1>1, <1>6, <3>1
    <3> QED BY <1>2, <3>2
  <2>5. f \o <<"/", "id">> = n \o <<"id">>
    <3>1. /\ f \o <<"/">> \in Seq(Piece) /\ Len(f \o <<"/">>) = Len(f) + 1
          /\ \A i \in 1 .. Len(f) + 1 :
               (f \o <<"/">>)[i] = IF i <= Len(f) THEN f[i] ELSE <<"/">>[i - Len(f)]
      BY <2>3, Pieces, ConcatProperties
    <3>2. Len(n) \in Nat
      BY <1>1
    <3>3. ASSUME NEW i \in 1 .. Len(n)
          PROVE  (f \o <<"/">>)[i] = n[i]
      <4> HIDE DEF f
      <4>1. CASE i <= Len(n) - 1
        BY <2>3, <3>1, <3>2, <4>1
      <4>2. CASE i = Len(n)
        <5>1. (f \o <<"/">>)[i] = <<"/">>[1]
          BY <2>3, <3>1, <3>2, <4>2
        <5> QED BY <1>6, <4>2, <5>1
      <4>3. PICK k \in Nat : k = Len(n)
        BY <1>1
      <4>4. i \in Int /\ (i <= k - 1 \/ i = k)
        BY <4>3
      <4> QED BY <4>1, <4>2, <4>3, <4>4
    <3>4. f \o <<"/">> = n
      BY <1>1, <2>3, <3>1, <3>2, <3>3, SeqEqual
    <3>5. (f \o <<"/">>) \o <<"id">> = f \o (<<"/">> \o <<"id">>)
      BY <2>3, Pieces, ConcatAssociative
    <3> QED BY <3>4, <3>5, Pieces
  <2> QED BY <1>3, <1>4, <1>6, <2>2, <2>4, <2>5 DEF n
<1>7. CASE Len(n) > 1 /\ n[Len(n)] # "/"
  <2>1. address = n /\ n # <<"/">>
    BY <1>1, <1>7 DEF Server!WithoutEnd, Server!EndsWith
  <2>2. (n \o <<"/">>) \o <<"id">> = n \o <<"/", "id">>
    BY <1>1, Pieces, ConcatAssociative
  <2> QED BY <1>3, <1>4, <1>7, <2>1, <2>2 DEF n
<1>8. PICK k \in Nat : k = Len(n) /\ k # 0
  BY <1>1
<1>9. Len(n) = 1 \/ Len(n) > 1
  BY <1>8
<1> QED BY <1>5, <1>6, <1>7, <1>9

EndpointInv ==
  /\ env.path \in Seq(Piece)
  /\ request # <<>> => request[2] = Server!BuildDevicePath(Server!NormalizePath(env.path))

(* The path that the client asks for is the server's route, for paths of   *)
(* any length.                                                             *)
THEOREM PathsDoAgree == Server!Spec => []PathsAgree
<1>1. Server!Init => EndpointInv
  <2> SUFFICES ASSUME Server!Init PROVE EndpointInv
    OBVIOUS
  <2>1. env.path \in {<<>>} \cup Server!Texts({" ", "/", "a"})
    BY DEF Server!Init
  <2>3. Server!Texts({" ", "/", "a"}) \subseteq Seq(Piece)
    <3>1. {" ", "/", "a"} \subseteq Piece
      BY Zenon DEF Piece
    <3> QED BY <3>1, TextsAreSequences
  <2>4. <<>> \in Seq(Piece)
    OBVIOUS
  <2>5. env.path \in Seq(Piece)
    BY <2>1, <2>3, <2>4
  <2> QED BY <2>5 DEF Server!Init, EndpointInv
<1>2. EndpointInv /\ [Server!Next]_(Server!vars) => EndpointInv'
  BY DEF EndpointInv, Server!Next, Server!vars, Server!Build, Server!Setup, Server!Connect,
         Server!Refuse, Server!Done
<1>3. EndpointInv => PathsAgree
  BY RouteIsPath DEF EndpointInv, PathsAgree, Server!PathsAgree
<1> QED BY <1>1, <1>2, <1>3, PTL DEF Server!Spec
=============================================================================
