----------------------------- MODULE TestServer -----------------------------
(***************************************************************************)
(* The server the devices are tested with, scripts/uwb_server_test.py: a   *)
(* handler per connection, which registers it and unregisters it, and one  *)
(* task that commands every ordered pair of the registered devices.  They  *)
(* are coroutines: what happens between two awaits is a step.              *)
(***************************************************************************)
EXTENDS Integers, FiniteSets, Sequences, SequencesExt

CONSTANTS
  Device,      \* the devices the server knows
  MaxConns     \* connections opened in a behaviour

(* DEVICE_ADDRESSES names two devices.                                     *)
ASSUME TestServerAssumption == MaxConns \in Nat /\ IsFiniteSet(Device) /\ Device # {}

Conn == 1 .. MaxConns

VARIABLES
  opened,       \* connections opened so far: they are numbered
  device,       \* device[c]: whose connection c is
  socket,       \* socket[c]: "open", "gone" (the client has left) or "closed"
  handler,      \* handler[c]: where handle_connection is for c
  previous,     \* previous[c]: the connection that c has replaced, or 0
  connections,  \* the registry, 0 where there is no entry
  stop,         \* stop_event
  pc,           \* where sequence_loop is
  todo,         \* pairs left of the sequence, the one at hand first
  source,       \* what get_connection has found for it, 0 for None
  target,
  ordered,      \* pairs commanded in full since sequence_loop began anew
  bygone        \* connections whose handler had ended when the pair began

sockets == <<opened, device, socket>>
handling == <<handler, previous, connections>>
looping == <<pc, todo, source, target, ordered, bygone>>
vars == <<opened, device, socket, handler, previous, connections, stop,
          pc, todo, source, target, ordered, bygone>>

Init ==
  /\ opened = 0
  /\ device = [c \in Conn |-> CHOOSE d \in Device : TRUE]
  /\ socket = [c \in Conn |-> "closed"]
  /\ handler = [c \in Conn |-> "none"]
  /\ previous = [c \in Conn |-> 0]
  /\ connections = [d \in Device |-> 0]
  /\ stop = FALSE
  /\ pc = "loop"
  /\ todo = <<>>
  /\ source = 0 /\ target = 0
  /\ ordered = {}
  /\ bygone = {}

-----------------------------------------------------------------------------
(* Clients.                                                                *)

(* A known device connects, whatever connection it had before: of that one *)
(* the server may not know yet that it is gone.                            *)
Connect(d) ==
  /\ opened < MaxConns
  /\ opened' = opened + 1
  /\ device' = [device EXCEPT ![opened'] = d]
  /\ socket' = [c \in Conn |-> IF c = opened' THEN "open"
                               ELSE IF c <= opened /\ device[c] = d /\ socket[c] = "open"
                               THEN "gone" ELSE socket[c]]
  /\ handler' = [handler EXCEPT ![opened'] = "register"]
  /\ UNCHANGED <<previous, connections, stop, looping>>

Leave(c) ==
  /\ socket[c] = "open"
  /\ socket' = [socket EXCEPT ![c] = "gone"]
  /\ UNCHANGED <<opened, device, handling, stop, looping>>

-----------------------------------------------------------------------------
(* handle_connection.                                                      *)

(* register_connection: under the lock the new entry replaces any other.   *)
Register(c) ==
  LET d == device[c] IN
  /\ handler[c] = "register"
  /\ previous' = [previous EXCEPT ![c] = connections[d]]
  /\ connections' = [connections EXCEPT ![d] = c]
  /\ handler' = [handler EXCEPT ![c] = IF connections[d] # 0 THEN "close" ELSE "receive"]
  /\ UNCHANGED <<sockets, stop, looping>>

(* Then, without the lock, the connection replaced is closed.              *)
ClosePrevious(c) ==
  /\ handler[c] = "close"
  /\ socket' = [socket EXCEPT ![previous[c]] = "closed"]
  /\ handler' = [handler EXCEPT ![c] = "receive"]
  /\ UNCHANGED <<opened, device, previous, connections, stop, looping>>

(* receive_text raises WebSocketDisconnect once the connection is over.    *)
Disconnected(c) ==
  /\ handler[c] = "receive"
  /\ socket[c] # "open"
  /\ socket' = [socket EXCEPT ![c] = "closed"]
  /\ handler' = [handler EXCEPT ![c] = "unregister"]
  /\ UNCHANGED <<opened, device, previous, connections, stop, looping>>

(* Mutant: whatever connection the device has is unregistered.             *)
Unregister_Whose(c) ==
  /\ handler[c] = "unregister"
  /\ connections' = [connections EXCEPT ![device[c]] = 0]
  /\ handler' = [handler EXCEPT ![c] = "done"]
  /\ UNCHANGED <<sockets, previous, stop, looping>>

(* unregister_connection: the entry goes only if it is this connection's.  *)
Unregister(c) ==
  /\ handler[c] = "unregister"
  /\ connections' = [connections EXCEPT ![device[c]] = IF @ = c THEN 0 ELSE @]
  /\ handler' = [handler EXCEPT ![c] = "done"]
  /\ UNCHANGED <<sockets, previous, stop, looping>>

-----------------------------------------------------------------------------
(* sequence_loop.                                                          *)

ConnectedDevices == {d \in Device : connections[d] # 0}

(* Mutant: a device is a source only for those after it.                   *)
PairsOf_Unordered(ds) == LET s == SetToSeq({p \in ds \X ds : p[1] # p[2]}) IN
  SubSeq(s, 1, Len(s) \div 2)

(* The ordered pairs of two devices of ds, in a fixed order.               *)
PairsOf(ds) == SetToSeq({p \in ds \X ds : p[1] # p[2]})

(* connected_device_ids: fewer than two devices, and it sleeps.            *)
LoopBegins ==
  /\ pc = "loop" /\ ~stop
  /\ pc' = IF Cardinality(ConnectedDevices) < 2 THEN "loop" ELSE "sequence"
  /\ UNCHANGED <<sockets, handling, stop, todo, source, target, ordered, bygone>>

(* run_sequence asks again, and takes the pairs of what it is told.        *)
RunSequence ==
  /\ pc = "sequence"
  /\ IF Cardinality(ConnectedDevices) < 2
     THEN pc' = "delay" /\ UNCHANGED todo
     ELSE pc' = "source" /\ todo' = PairsOf(ConnectedDevices)
  /\ UNCHANGED <<sockets, handling, stop, source, target, ordered, bygone>>

Pair == Head(todo)

GetSource ==
  /\ pc = "source"
  /\ source' = connections[Pair[1]]
  /\ pc' = "target"
  /\ bygone' = {c \in Conn : handler[c] = "done"}
  /\ UNCHANGED <<sockets, handling, stop, todo, target, ordered>>

(* The pair is done with: a pause, and the next.                           *)
EndPair ==
  /\ pc' = IF Len(todo) = 1 THEN "delay" ELSE "source"
  /\ todo' = Tail(todo)
  /\ source' = 0 /\ target' = 0

GetTarget ==
  /\ pc = "target"
  /\ LET t == connections[Pair[2]] IN
       IF source = 0 \/ t = 0
       THEN EndPair
       ELSE target' = t /\ pc' = "listen" /\ UNCHANGED <<source, todo>>
  /\ UNCHANGED <<sockets, handling, stop, ordered, bygone>>

(* send_json: a connection that is over raises; of one whose client is     *)
(* gone it may know already.  What is raised here nobody catches, and the  *)
(* task of sequence_loop is over: nothing starts it again.                 *)
Raises(c) == socket[c] # "open"
Sends(c) == socket[c] # "closed"

SendListen ==
  /\ pc = "listen"
  /\ \/ Sends(target) /\ pc' = "initiate"
     \/ Raises(target) /\ pc' = "raised"
  /\ UNCHANGED <<sockets, handling, stop, todo, source, target, ordered, bygone>>

(* The lead time is over.                                                  *)
SendInitiate ==
  /\ pc = "initiate"
  /\ \/ Sends(source) /\ EndPair /\ ordered' = ordered \cup {Pair}
     \/ Raises(source) /\ pc' = "raised" /\ UNCHANGED <<todo, source, target, ordered>>
  /\ UNCHANGED <<sockets, handling, stop, bygone>>

(* wait_for(stop_event.wait(), ...), and all over again.                   *)
Delay ==
  /\ pc = "delay"
  /\ pc' = IF stop THEN "ended" ELSE "loop"
  /\ ordered' = {}
  /\ UNCHANGED <<sockets, handling, stop, todo, source, target, bygone>>

-----------------------------------------------------------------------------
(* The end of lifespan: the event is set, and the task cancelled.          *)
Shutdown ==
  /\ ~stop
  /\ stop' = TRUE
  /\ pc' = IF pc \in {"raised", "ended"} THEN pc ELSE "ended"
  /\ UNCHANGED <<sockets, handling, todo, source, target, ordered, bygone>>

Handle(c) == Register(c) \/ ClosePrevious(c) \/ Disconnected(c) \/ Unregister(c)

Loop == LoopBegins \/ RunSequence \/ GetSource \/ GetTarget \/ SendListen \/ SendInitiate \/ Delay

Next ==
  \/ \E d \in Device : Connect(d)
  \/ \E c \in Conn : Leave(c) \/ Handle(c)
  \/ Loop
  \/ Shutdown

Spec == Init /\ [][Next]_vars

(* The event loop runs every coroutine that can go on.                     *)
FairSpec == Spec /\ WF_vars(Loop) /\ \A c \in Conn : WF_vars(Handle(c))

-----------------------------------------------------------------------------
(* Properties.                                                             *)

(* Every variable keeps its type.                                          *)
TypeOK ==
  /\ opened \in 0 .. MaxConns
  /\ device \in [Conn -> Device]
  /\ socket \in [Conn -> {"open", "gone", "closed"}]
  /\ handler \in [Conn -> {"none", "register", "close", "receive", "unregister", "done"}]
  /\ previous \in [Conn -> 0 .. MaxConns]
  /\ connections \in [Device -> 0 .. MaxConns]
  /\ stop \in BOOLEAN
  /\ pc \in {"loop", "sequence", "source", "target", "listen", "initiate", "delay",
             "raised", "ended"}
  /\ todo \in Seq(Device \X Device)
  /\ source \in 0 .. MaxConns /\ target \in 0 .. MaxConns
  /\ ordered \subseteq Device \X Device
  /\ bygone \subseteq Conn
  /\ pc \in {"source", "target", "listen", "initiate"} => todo # <<>>

(* The registry is a Registry: a handler that ends late does not take the  *)
(* entry of the connection that has replaced its own.                      *)
TheRegistry ==
  INSTANCE Registry WITH
    entry <- connections,
    past <- {c \in Conn : handler[c] \notin {"none", "register"}},
    over <- {c \in Conn : c <= opened /\ socket[c] # "open"}
IsRegistry == TheRegistry!Spec

(* Nothing registered is left behind: an entry's handler is still there to *)
(* remove it, and the entry is the device's own.                           *)
EntriesAreHandled ==
  \A d \in Device : LET c == connections[d] IN
    c # 0 => device[c] = d /\ handler[c] \in {"close", "receive", "unregister"}

(* The sequence of pairs breaks down only on a connection that was still   *)
(* handled when run_pair began with the pair, and has ended since.         *)
BreaksOnlyMidPair ==
  [][pc # "raised" /\ pc' = "raised"
       => (IF pc = "listen" THEN target ELSE source) \notin bygone]_vars

(* A connection that was replaced comes to its end, closed and unhandled,  *)
(* though its client may never say so.                                     *)
ReplacedEnd ==
  \A c, p \in Conn : previous[c] = p ~> handler[p] = "done" /\ socket[p] = "closed"

(* While every device stays connected, and unless the loop broke down or   *)
(* was stopped before, every ordered pair is commanded, time and again.    *)
AllConnected == \A d \in Device : connections[d] # 0 /\ socket[connections[d]] = "open"
PairsRepeat ==
  <>[](AllConnected /\ pc \notin {"raised", "ended"})
    => \A p \in {q \in Device \X Device : q[1] # q[2]} : []<>(p \in ordered)

(* The registry names those that are there: it is a Registry, each entry   *)
(* is handled, and a pair breaks only on a connection that ends within it. *)
RegistryKept == IsRegistry /\ [](TypeOK /\ EntriesAreHandled) /\ BreaksOnlyMidPair

(* What was replaced comes to its end, and pairs are commanded again and   *)
(* again.                                                                  *)
PairsGoOn == ReplacedEnd /\ PairsRepeat
=============================================================================
