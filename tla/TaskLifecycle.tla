--------------------------- MODULE TaskLifecycle ----------------------------
(***************************************************************************)
(* start, stop and task of the two task controllers,                       *)
(* controllers/task/uwb_stateless.cpp and wifi_connection.cpp, whose code  *)
(* is the same in this respect but for the event handler.  One thread      *)
(* calls start and stop; a FreeRTOS task that start has created runs       *)
(* beside it, on the other core or by preemption, until it finds running   *)
(* cleared.  Every access to task_handle or running is a step.             *)
(***************************************************************************)
EXTENDS Integers, FiniteSets

CONSTANTS
  MaxTasks,   \* tasks created in a behaviour
  Patient     \* whether start waits until the last task has been deleted

ASSUME LifecycleAssumption == MaxTasks \in Nat /\ Patient \in BOOLEAN

VARIABLES
  handle,     \* task_handle, 0 for nullptr
  running,    \* running
  handler,    \* whether the client's events go to handleEvent
  created,    \* tasks created so far: they are numbered
  at,         \* at[t]: where task t is
  pc,         \* where the calling thread is
  started     \* start has returned true, and nothing was stopped since

vars == <<handle, running, handler, created, at, pc, started>>

Tasks == 1 .. MaxTasks

Init ==
  /\ handle = 0
  /\ running = FALSE
  /\ handler = FALSE
  /\ created = 0
  /\ at = [t \in Tasks |-> "none"]
  /\ pc = "idle"
  /\ started = FALSE

-----------------------------------------------------------------------------
(* start().                                                                *)

Waited == Patient => \A t \in Tasks : at[t] \in {"none", "loop", "deleted"}

(* It returns true if there is a task, false if it is not configured.      *)
StartChecks ==
  /\ pc = "idle"
  /\ Waited
  /\ pc' \in IF handle # 0 THEN {"idle"} ELSE {"idle", "register"}
  /\ UNCHANGED <<handle, running, handler, created, at, started>>

StartRegisters ==
  /\ pc = "register"
  /\ handler' = TRUE
  /\ pc' = "run"
  /\ UNCHANGED <<handle, running, created, at, started>>

StartRuns ==
  /\ pc = "run"
  /\ running' = TRUE
  /\ pc' = "create"
  /\ UNCHANGED <<handle, handler, created, at, started>>

StartCreates ==
  /\ pc = "create"
  /\ \/ /\ created < MaxTasks
        /\ created' = created + 1
        /\ handle' = created'
        /\ at' = [at EXCEPT ![created'] = "loop"]
        /\ started' = TRUE
        /\ pc' = "idle"
        /\ UNCHANGED <<running, handler>>
     \/ /\ handler' = FALSE
        /\ running' = FALSE
        /\ handle' = 0
        /\ pc' = "idle"
        /\ UNCHANGED <<created, at, started>>

-----------------------------------------------------------------------------
(* stop().                                                                 *)
StopChecks ==
  /\ pc = "idle"
  /\ handle # 0
  /\ started' = FALSE
  /\ pc' = "clear"
  /\ UNCHANGED <<handle, running, handler, created, at>>

StopClears ==
  /\ pc = "clear"
  /\ running' = FALSE
  /\ pc' = "wait"
  /\ UNCHANGED <<handle, handler, created, at, started>>

(* Mutant: stop does not wait for the task.                                *)
StopWaits_Not ==
  /\ pc = "wait"
  /\ pc' = "unregister"
  /\ UNCHANGED <<handle, running, handler, created, at, started>>

StopWaits ==
  /\ pc = "wait"
  /\ handle = 0
  /\ pc' = "unregister"
  /\ UNCHANGED <<handle, running, handler, created, at, started>>

StopUnregisters ==
  /\ pc = "unregister"
  /\ handler' = FALSE
  /\ pc' = "idle"
  /\ UNCHANGED <<handle, running, created, at, started>>

-----------------------------------------------------------------------------
(* task().                                                                 *)
Moves(t, from, to) == at[t] = from /\ at' = [at EXCEPT ![t] = to]

(* stop() called from an event handler, that is, by the task itself.       *)
StopsItself(t) ==
  /\ at[t] = "loop" /\ handler /\ handle = t
  /\ running' = FALSE
  /\ started' = FALSE
  /\ UNCHANGED <<handle, handler, created, at, pc>>

LeavesLoop(t) ==
  /\ Moves(t, "loop", "disconnect")
  /\ ~running
  /\ UNCHANGED <<handle, running, handler, created, pc, started>>

Disconnects(t) ==
  /\ Moves(t, "disconnect", "forget")
  /\ UNCHANGED <<handle, running, handler, created, pc, started>>

(* Mutant: the task leaves its handle behind.                              *)
ForgetsHandle_Not(t) ==
  /\ Moves(t, "forget", "finish")
  /\ UNCHANGED <<handle, running, handler, created, pc, started>>

ForgetsHandle(t) ==
  /\ Moves(t, "forget", "finish")
  /\ handle' = 0
  /\ UNCHANGED <<running, handler, created, pc, started>>

ClearsRunning(t) ==
  /\ Moves(t, "finish", "deleted")
  /\ running' = FALSE
  /\ UNCHANGED <<handle, handler, created, pc, started>>

-----------------------------------------------------------------------------
Caller ==
  \/ StartChecks \/ StartRegisters \/ StartRuns \/ StartCreates
  \/ StopChecks \/ StopClears \/ StopWaits \/ StopUnregisters

Task(t) ==
  LeavesLoop(t) \/ Disconnects(t) \/ ForgetsHandle(t) \/ ClearsRunning(t)

Next == Caller \/ \E t \in Tasks : Task(t) \/ StopsItself(t)

(* Both the calling thread, inside stop, and the tasks are scheduled.      *)
Fairness ==
  /\ WF_vars(StopClears \/ StopWaits \/ StopUnregisters)
  /\ \A t \in Tasks : WF_vars(Task(t))

Spec == Init /\ [][Next]_vars

FairSpec == Spec /\ Fairness

-----------------------------------------------------------------------------
(* Properties.                                                             *)

(* Every variable keeps its type; handle names no task but the latest.     *)
TypeOK ==
  /\ handle \in {0, created}
  /\ running \in BOOLEAN
  /\ handler \in BOOLEAN
  /\ created \in 0 .. MaxTasks
  /\ at \in [Tasks -> {"none", "loop", "disconnect", "forget", "finish", "deleted"}]
  /\ pc \in {"idle", "register", "run", "create", "clear", "wait", "unregister"}
  /\ started \in BOOLEAN

AtWork(t) == at[t] \in {"loop", "disconnect", "forget"}

(* task_handle names a task exactly while one is at work, and names it:    *)
(* start and stop can go by it, and nobody finds the handle of a deleted   *)
(* task in it.                                                             *)
HandleIsLive == \A t \in Tasks : AtWork(t) <=> handle = t

(* Two tasks of a controller never work at the same time: the radio and    *)
(* the client, neither of which is locked, have one user.                  *)
OneAtWork == \A t, u \in Tasks : AtWork(t) /\ AtWork(u) => t = u

(* When stop returns to its caller, the task has disconnected and will not *)
(* touch client or service again.                                          *)
StopIsFinal == [][StopUnregisters => \A t \in Tasks : ~AtWork(t)]_vars

(* All three together: the handle tells start and stop the truth, and the  *)
(* tasks of a controller work one after the other.                         *)
TasksApart == [](TypeOK /\ HandleIsLive /\ OneAtWork) /\ StopIsFinal

(* Once start has returned true the task keeps running until it is told to *)
(* stop.  It takes a patient caller: the last step of a task clears        *)
(* running, after the step that lets stop return.                          *)
StartSticks == started => running

(* stop returns.                                                           *)
StopReturns == pc = "clear" ~> pc = "idle"
=============================================================================
