------------------------------ MODULE Registry ------------------------------
(***************************************************************************)
(* What a registry of connections promises.  A device has at most one      *)
(* entry.  A new connection takes its place, once; and an entry is dropped *)
(* only when its own connection is over, never because an earlier one is.  *)
(***************************************************************************)
EXTENDS Integers

CONSTANTS
  Device,
  Conn         \* connections, positive numbers: 0 stands for none

VARIABLES
  entry,       \* entry[d]: the connection registered for device d, or 0
  past,        \* connections that were registered at some time
  over         \* connections that have come to their end

Init ==
  /\ entry = [d \in Device |-> 0]
  /\ past = {}
  /\ over = {}

Register(d, c) ==
  /\ c \notin past
  /\ entry' = [entry EXCEPT ![d] = c]
  /\ past' = past \cup {c}
  /\ UNCHANGED over

Drop(d) ==
  /\ entry[d] \in over
  /\ entry' = [entry EXCEPT ![d] = 0]
  /\ UNCHANGED <<past, over>>

End(c) ==
  /\ over' = over \cup {c}
  /\ UNCHANGED <<entry, past>>

Next ==
  \/ \E d \in Device, c \in Conn : Register(d, c)
  \/ \E d \in Device : Drop(d)
  \/ \E c \in Conn : End(c)

Spec == Init /\ [][Next]_<<entry, past, over>>
=============================================================================
