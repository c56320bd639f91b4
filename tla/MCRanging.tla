----------------------------- MODULE MCRanging ------------------------------
(***************************************************************************)
(* Ranging cut down to a finite number of states.  The specification here  *)
(* only restricts Ranging's: behaviours end at the Horizon, every device   *)
(* begins at most MaxOps operations, and, with Prompt, the firmware leaves *)
(* its waits in the tick in which they end (the wait for a poll excepted,  *)
(* which ends up to MaxLatency late in every run).                         *)
(*                                                                         *)
(* Device numbers double as addresses.  The offsets make the low half of   *)
(* every counter, and all of it for device 2, wrap before the Horizon.     *)
(***************************************************************************)
EXTENDS Ranging

CONSTANTS Horizon, MaxOps, Prompt

VARIABLE ops

mcVars == <<vars, ops>>

MCOffset == [d \in Device |-> CASE d = 1 -> 11 [] d = 2 -> 28 [] OTHER -> 4]

MCFlight == [d \in Device |-> [e \in Device |-> IF d = e THEN 0 ELSE (d + e) \div 3]]

Begins(d) == pc[d] = "idle" /\ (pc'[d] # "idle" \/ rest'[d] > rest[d])

Awaited(d) ==
  CASE pc[d] = "poll" -> RxEvents
    [] pc[d] = "respond" -> {"TXFRS"}
    [] OTHER -> {}

MCInit == Init /\ ops = [d \in Device |-> 0]

MCNext ==
  \/ /\ Next
     /\ now' <= Horizon
     /\ Prompt /\ now' # now => \A d \in Device : status[d] \intersect Awaited(d) = {}
     /\ ops' = [d \in Device |-> IF Begins(d) THEN ops[d] + 1 ELSE ops[d]]
     /\ \A d \in Device : ops'[d] <= MaxOps
  \/ now = Horizon /\ UNCHANGED mcVars

MCSpec == MCInit /\ [][MCNext]_mcVars

(* Time goes on, radio events that are due happen, and the task that spins *)
(* on the status register runs again and again.  Nothing has to be sent to *)
(* a device, arrive undamaged, or be commanded.                            *)
Fairness ==
  /\ WF_mcVars(MCNext /\ Tick)
  /\ WF_mcVars(MCNext /\ \E m \in air : Arrive(m))
  /\ \A d \in Device :
       /\ WF_mcVars(MCNext /\ (RxTimeout(d) \/ DelayedTx(d)))
       /\ WF_mcVars(MCNext /\ Poller(d))

MCFairSpec == MCSpec /\ Fairness

(* Every operation returns: none of the busy waits of initiate and listen  *)
(* lasts for ever, unless the behaviour is cut off while the radio is on.  *)
OperationReturns ==
  \A d \in Device :
    pc[d] # "idle" ~> (pc[d] = "idle" \/ (now = Horizon /\ radio[d] # "off"))
=============================================================================
