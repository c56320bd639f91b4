---------------------------- MODULE ServerProofs ----------------------------
(***************************************************************************)
(* The test server, for any devices and any number of connections: it      *)
(* implements Registry, what is registered is handled, and the sequence of *)
(* pairs breaks only on a connection that ended within the pair.  And its  *)
(* timing, for any number of devices and any delays that fit: where no     *)
(* command is late and no frame is lost, every pair meets.                 *)
(***************************************************************************)
EXTENDS MCServer, FiniteSetTheorems, SequenceTheorems, TLAPS

(* The types, of the handlers' state and of the sequence's.                *)
ConnTypes ==
  /\ opened \in 0 .. MaxConns
  /\ device \in [Conn -> Device]
  /\ socket \in [Conn -> {"open", "gone", "closed"}]
  /\ handler \in [Conn -> {"none", "register", "close", "receive", "unregister", "done"}]
  /\ previous \in [Conn -> 0 .. MaxConns]
  /\ connections \in [Device -> 0 .. MaxConns]

LoopTypes ==
  /\ stop \in BOOLEAN
  /\ pc \in {"loop", "sequence", "source", "target", "listen", "initiate", "delay",
             "raised", "ended"}
  /\ todo \in Seq(Device \X Device)
  /\ source \in 0 .. MaxConns /\ target \in 0 .. MaxConns
  /\ ordered \subseteq Device \X Device
  /\ bygone \subseteq Conn
  /\ pc \in {"source", "target", "listen", "initiate"} => todo # <<>>

(* Connections are numbered in the order in which they are opened.         *)
InOrder ==
  \A c \in Conn : /\ handler[c] = "none" <=> c > opened
                  /\ c > opened => socket[c] = "closed"

(* A device has one client, which keeps at most one connection open.       *)
OneOpen ==
  \A b, c \in Conn : socket[b] = "open" /\ socket[c] = "open" /\ device[b] = device[c] => b = c

(* Who unregisters has seen the connection end.                            *)
EndSeen == \A c \in Conn : handler[c] \in {"unregister", "done"} => socket[c] = "closed"

(* What a connection has replaced was opened before.                       *)
PreviousOpened == \A c \in Conn : previous[c] <= opened

(* The connections of the pair at hand were handled when it was begun.     *)
PairHandled ==
  /\ \A c \in bygone : handler[c] = "done"
  /\ pc \in {"target", "listen", "initiate"} => source \notin bygone
  /\ pc \in {"listen", "initiate"} => target \notin bygone

HandlerInv ==
  ConnTypes /\ EntriesAreHandled /\ InOrder /\ OneOpen /\ EndSeen /\ PreviousOpened

ServerInv == HandlerInv /\ LoopTypes /\ PairHandled

----------------------------------------------------------------------------
(* The pairs of two devices or more are a sequence that is not empty.      *)
LEMMA PairsAreASequence ==
  ASSUME NEW ds \in SUBSET Device, Cardinality(ds) >= 2
  PROVE  PairsOf(ds) \in Seq(Device \X Device) /\ PairsOf(ds) # <<>>
<1> DEFINE S == {p \in ds \X ds : p[1] # p[2]}
<1>1. IsFiniteSet(ds) /\ IsFiniteSet(S)
  BY TestServerAssumption, FS_Subset, FS_Product DEF TestServerAssumption
<1>2. PICK d \in ds : TRUE
  BY <1>1, FS_EmptySet
<1>3. PICK e \in ds : e # d
  BY <1>1, FS_Singleton
<1>4. <<d, e>> \in S
  BY <1>3
<1>5. Cardinality(S) \in Nat /\ Cardinality(S) # 0 /\ ExistsBijection(1 .. Cardinality(S), S)
  BY <1>1, <1>4, FS_CardinalityType, FS_EmptySet
<1>6. \E f \in [1 .. Cardinality(S) -> S] : IsInjective(f)
  BY <1>5 DEF ExistsBijection, Bijection, Injection, IsInjective
<1>7. SetToSeq(S) \in [1 .. Cardinality(S) -> S]
  BY <1>6 DEF SetToSeq
<1>8. S \subseteq Device \X Device
  OBVIOUS
<1> HIDE DEF S
<1>9. SetToSeq(S) \in Seq(Device \X Device) /\ SetToSeq(S) # <<>>
  BY <1>5, <1>7, <1>8
<1> QED BY <1>9 DEF PairsOf, S

LEMMA ServerInit == Init => ServerInv
<1> SUFFICES ASSUME Init PROVE ServerInv
  OBVIOUS
<1> USE TestServerAssumption DEF TestServerAssumption, Init, Conn
<1>1. ConnTypes
  BY DEF ConnTypes
<1>2. LoopTypes
  <2>1. todo \in Seq(Device \X Device) /\ bygone \subseteq Conn /\ ordered \subseteq Device \X Device
    OBVIOUS
  <2>2. stop \in BOOLEAN /\ pc = "loop"
    BY Zenon
  <2>3. source \in 0 .. MaxConns /\ target \in 0 .. MaxConns
    BY SMT
  <2> QED BY <2>1, <2>2, <2>3, Zenon DEF LoopTypes
<1>3. EntriesAreHandled /\ PairHandled /\ PreviousOpened
  BY DEF EntriesAreHandled, PairHandled, PreviousOpened
<1>4. InOrder /\ OneOpen /\ EndSeen
  BY DEF InOrder, OneOpen, EndSeen
<1> QED BY <1>1, <1>2, <1>3, <1>4 DEF ServerInv, HandlerInv

(* Of the sequence a handler or a client changes nothing, and a handler    *)
(* that has ended stays so.                                                *)
LEMMA SequenceKept ==
  ASSUME LoopTypes, PairHandled, UNCHANGED <<stop, looping>>,
         \A c \in Conn : handler[c] = "done" => handler'[c] = "done"
  PROVE  LoopTypes' /\ PairHandled'
  BY DEF LoopTypes, PairHandled, looping

(* A client connects.                                                      *)
LEMMA ConnectKeepsServer ==
  ASSUME ServerInv, NEW d \in Device, Connect(d)
  PROVE  ServerInv'
<1> USE DEF ServerInv, HandlerInv, ConnTypes, Connect, handling
<1>1. opened' \in Conn /\ opened' = opened + 1
  BY TestServerAssumption DEF TestServerAssumption, Conn
<1>2. \A c \in Conn : c > opened' => c > opened
  BY <1>1 DEF Conn
<1>3. \A c \in Conn : c > opened <=> (c = opened' \/ c > opened')
  BY <1>1 DEF Conn
<1>4. ConnTypes'
  BY <1>1, TestServerAssumption DEF Conn, TestServerAssumption
<1>5. \A c \in Conn : /\ device'[c] = IF c = opened' THEN d ELSE device[c]
                      /\ handler'[c] = IF c = opened' THEN "register" ELSE handler[c]
                      /\ previous'[c] = previous[c]
  BY <1>1
<1>6. \A c \in Conn : socket'[c] = IF c = opened' THEN "open"
                                   ELSE IF c <= opened /\ device[c] = d /\ socket[c] = "open"
                                   THEN "gone" ELSE socket[c]
  OBVIOUS
<1>7. EntriesAreHandled'
  <2> SUFFICES ASSUME NEW e \in Device, connections'[e] # 0
               PROVE  /\ device'[connections'[e]] = e
                      /\ handler'[connections'[e]] \in {"close", "receive", "unregister"}
    BY DEF EntriesAreHandled
  <2>1. connections[e] \in Conn /\ connections'[e] = connections[e]
    BY TestServerAssumption DEF Conn, TestServerAssumption
  <2>2. handler[opened'] = "none"
    BY <1>1, <1>3 DEF InOrder
  <2> QED BY <1>5, <2>1, <2>2 DEF EntriesAreHandled
<1>8. InOrder'
  BY <1>1, <1>3, <1>5, <1>6 DEF InOrder, Conn
<1>9. OneOpen'
  <2>1. \A c \in Conn : socket'[c] = "open" =>
          c = opened' \/ (c # opened' /\ socket[c] = "open" /\ device[c] # d)
    BY <1>6, <1>1 DEF InOrder, Conn
  <2> QED BY <1>5, <2>1 DEF OneOpen
<1>10. EndSeen'
  BY <1>1, <1>5, <1>6 DEF EndSeen
<1>11. PreviousOpened'
  BY <1>1, <1>5, TestServerAssumption DEF PreviousOpened, Conn, TestServerAssumption
<1>12. LoopTypes' /\ PairHandled'
  <2>1. \A c \in Conn : handler[c] = "done" => handler'[c] = "done"
    BY <1>1, <1>3, <1>5 DEF InOrder
  <2> QED BY <2>1, SequenceKept
<1> QED BY <1>4, <1>7, <1>8, <1>9, <1>10, <1>11, <1>12

(* It leaves.                                                              *)
LEMMA LeaveKeepsServer ==
  ASSUME ServerInv, NEW c \in Conn, Leave(c)
  PROVE  ServerInv'
<1> USE DEF ServerInv, HandlerInv, ConnTypes, Leave, handling
<1>1. ConnTypes' /\ EntriesAreHandled' /\ PreviousOpened'
  BY DEF EntriesAreHandled, PreviousOpened
<1>2. InOrder' /\ OneOpen' /\ EndSeen'
  BY DEF InOrder, OneOpen, EndSeen
<1>3. LoopTypes' /\ PairHandled'
  BY SequenceKept
<1> QED BY <1>1, <1>2, <1>3

(* An entry is of a connection that is handled.                            *)
LEMMA EntryHandled ==
  ASSUME HandlerInv, NEW d \in Device
  PROVE  /\ connections[d] \in 0 .. MaxConns
         /\ connections[d] # 0 => connections[d] \in Conn
              /\ handler[connections[d]] \notin {"none", "done"}
<1>1. connections[d] \in 0 .. MaxConns
  BY DEF HandlerInv, ConnTypes
<1>2. connections[d] # 0 => connections[d] \in Conn
  BY <1>1, TestServerAssumption DEF TestServerAssumption, Conn
<1>3. connections[d] # 0 => handler[connections[d]] \in {"close", "receive", "unregister"}
  BY DEF HandlerInv, EntriesAreHandled
<1> QED BY <1>1, <1>2, <1>3

(* handle_connection.                                                      *)
LEMMA HandlersKeepServer ==
  ASSUME ServerInv, NEW c \in Conn, Handle(c)
  PROVE  ServerInv'
<1> USE DEF ServerInv, HandlerInv, ConnTypes, sockets
<1>1. ASSUME \/ Register(c)
             \/ ClosePrevious(c)
             \/ Disconnected(c)
             \/ Unregister(c)
      PROVE  LoopTypes' /\ PairHandled'
  <2>1. UNCHANGED <<stop, looping>>
    BY <1>1 DEF Register, ClosePrevious, Disconnected, Unregister
  <2>2. \A b \in Conn : handler[b] = "done" => handler'[b] = "done"
    BY <1>1 DEF Register, ClosePrevious, Disconnected, Unregister
  <2> QED BY <2>1, <2>2, SequenceKept
<1>2. CASE Register(c)
  <2> USE <1>2 DEF Register
  <2>1. c \in 0 .. MaxConns /\ c # 0
    BY TestServerAssumption DEF TestServerAssumption, Conn
  <2>2. ConnTypes'
    BY <2>1
  <2>3. EntriesAreHandled'
    BY <2>1 DEF EntriesAreHandled
  <2>4. InOrder' /\ OneOpen' /\ EndSeen'
    BY DEF InOrder, OneOpen, EndSeen
  <2>5. connections[device[c]] <= opened
    <3>1. CASE connections[device[c]] = 0
      BY <3>1, TestServerAssumption DEF TestServerAssumption
    <3>2. CASE connections[device[c]] # 0
      <4>1. connections[device[c]] \in Conn /\ handler[connections[device[c]]] # "none"
        BY <3>2, EntryHandled
      <4> QED BY <4>1, TestServerAssumption DEF TestServerAssumption, InOrder, Conn
    <3> QED BY <3>1, <3>2
  <2>6. PreviousOpened'
    BY <2>5 DEF PreviousOpened
  <2> QED BY <1>1, <2>2, <2>3, <2>4, <2>6
<1>3. CASE ClosePrevious(c)
  <2> USE <1>3 DEF ClosePrevious
  <2>1. ConnTypes'
    OBVIOUS
  <2>2. EntriesAreHandled' /\ PreviousOpened'
    BY DEF EntriesAreHandled, PreviousOpened
  <2>3. InOrder' /\ OneOpen' /\ EndSeen'
    BY DEF InOrder, OneOpen, EndSeen
  <2> QED BY <1>1, <2>1, <2>2, <2>3
<1>4. CASE Disconnected(c)
  <2> USE <1>4 DEF Disconnected
  <2>1. ConnTypes' /\ EntriesAreHandled' /\ PreviousOpened'
    BY DEF EntriesAreHandled, PreviousOpened
  <2>2. InOrder' /\ OneOpen' /\ EndSeen'
    BY DEF InOrder, OneOpen, EndSeen
  <2> QED BY <1>1, <2>1, <2>2
<1>5. CASE Unregister(c)
  <2> USE <1>5 DEF Unregister
  <2>1. ConnTypes' /\ PreviousOpened'
    BY TestServerAssumption DEF TestServerAssumption, PreviousOpened
  <2>2. InOrder' /\ OneOpen' /\ EndSeen'
    BY DEF InOrder, OneOpen, EndSeen
  <2>3. EntriesAreHandled'
    <3> SUFFICES ASSUME NEW d \in Device, connections'[d] # 0
                 PROVE  /\ device'[connections'[d]] = d
                        /\ handler'[connections'[d]] \in {"close", "receive", "unregister"}
      BY DEF EntriesAreHandled
    <3>1. connections'[d] = connections[d] /\ connections[d] # c
      BY DEF EntriesAreHandled
    <3>2. connections[d] \in Conn
      BY <3>1, TestServerAssumption DEF TestServerAssumption, Conn
    <3> QED BY <3>1, <3>2 DEF EntriesAreHandled
  <2> QED BY <1>1, <2>1, <2>2, <2>3
<1> QED BY <1>2, <1>3, <1>4, <1>5 DEF Handle

(* sequence_loop, and its end: only its own variables change.              *)
LEMMA EndPairTypes ==
  ASSUME EndPair, LoopTypes, todo # <<>>
  PROVE  /\ todo' \in Seq(Device \X Device)
         /\ pc' \in {"delay", "source"}
         /\ pc' = "source" => todo' # <<>>
         /\ source' = 0 /\ target' = 0
<1> DEFINE P == Device \X Device
<1>1. todo \in Seq(P)
  BY DEF LoopTypes
<1> HIDE DEF P
<1>2. Len(todo) \in Nat /\ Len(<<>>) = 0
  BY <1>1
<1>3. Tail(todo) \in Seq(P) /\ Len(Tail(todo)) = Len(todo) - 1
  BY <1>1, HeadTailProperties
<1>4. ASSUME Tail(todo) = <<>> PROVE Len(todo) = 1
  <2>1. Len(todo) - 1 = 0
    BY <1>2, <1>3, <1>4, Zenon
  <2> QED BY <1>2, <2>1
<1> QED BY <1>3, <1>4 DEF EndPair, P

LEMMA LoopKeepsServer ==
  ASSUME ServerInv, Loop \/ Shutdown
  PROVE  ServerInv'
<1>1. UNCHANGED <<sockets, handling>>
  BY DEF Loop, LoopBegins, RunSequence, GetSource, GetTarget, SendListen, SendInitiate,
         Delay, Shutdown
<1>2. HandlerInv'
  BY <1>1 DEF ServerInv, HandlerInv, ConnTypes, sockets, handling,
              EntriesAreHandled, InOrder, OneOpen, EndSeen, PreviousOpened
<1>3. \A d \in Device : /\ connections[d] \in 0 .. MaxConns
                        /\ connections[d] # 0 => connections[d] \in Conn
                                                 /\ handler[connections[d]] # "done"
  BY EntryHandled DEF ServerInv
<1>4. ASSUME pc \in {"source", "target", "listen", "initiate"}
      PROVE  todo # <<>> /\ Pair \in Device \X Device
             /\ Pair[1] \in Device /\ Pair[2] \in Device
  <2> DEFINE P == Device \X Device
  <2>1. todo \in Seq(P) /\ todo # <<>>
    BY <1>4 DEF ServerInv, LoopTypes
  <2> HIDE DEF P
  <2>2. Pair \in P
    BY <2>1 DEF Pair
  <2> QED BY <2>1, <2>2 DEF P
<1>5. handler' = handler /\ 0 \notin Conn
  BY <1>1, TestServerAssumption DEF handling, Conn, TestServerAssumption
<1>6. CASE LoopBegins \/ Delay \/ Shutdown
  BY <1>2, <1>5, <1>6
     DEF ServerInv, LoopBegins, Delay, Shutdown, LoopTypes, PairHandled
<1>7. CASE RunSequence
  <2>1. ConnectedDevices \in SUBSET Device /\ Cardinality(ConnectedDevices) \in Int
    BY FS_Subset, FS_CardinalityType, TestServerAssumption
       DEF TestServerAssumption, ConnectedDevices
  <2>2. \/ pc' = "delay" /\ todo' = todo
        \/ pc' = "source" /\ todo' \in Seq(Device \X Device) /\ todo' # <<>>
    BY <1>7, <2>1, PairsAreASequence DEF RunSequence
  <2>3. LoopTypes' /\ PairHandled'
    BY <1>7, <2>2, <1>5 DEF RunSequence, ServerInv, LoopTypes, PairHandled
  <2> QED BY <1>2, <2>3 DEF ServerInv
<1>8. CASE GetSource
  <2>1. source' = connections[Pair[1]] /\ pc' = "target"
        /\ bygone' = {c \in Conn : handler[c] = "done"}
        /\ UNCHANGED <<stop, todo, target, ordered>>
    BY <1>8 DEF GetSource
  <2>2. source' \in 0 .. MaxConns /\ source' \notin bygone' /\ todo # <<>>
    BY <1>3, <1>4, <1>5, <1>8, <2>1 DEF GetSource
  <2>3. LoopTypes' /\ PairHandled'
    BY <1>5, <2>1, <2>2 DEF ServerInv, LoopTypes, PairHandled
  <2> QED BY <1>2, <2>3 DEF ServerInv
<1>9. CASE GetTarget
  <2>1. pc = "target" /\ todo # <<>> /\ UNCHANGED <<stop, ordered, bygone>>
    BY <1>4, <1>9 DEF GetTarget
  <2>2. CASE EndPair
    <3>1. LoopTypes'
      BY <2>1, <2>2, EndPairTypes, TestServerAssumption
         DEF ServerInv, LoopTypes, TestServerAssumption
    <3>2. PairHandled'
      BY <1>5, <2>1, <2>2, EndPairTypes DEF ServerInv, PairHandled
    <3> QED BY <1>2, <3>1, <3>2 DEF ServerInv
  <2>3. CASE /\ connections[Pair[2]] # 0
             /\ target' = connections[Pair[2]] /\ pc' = "listen" /\ UNCHANGED <<source, todo>>
    <3>1. target' \in 0 .. MaxConns /\ handler[target'] # "done"
      BY <1>3, <1>4, <2>1, <2>3
    <3>2. LoopTypes' /\ PairHandled'
      BY <1>5, <2>1, <2>3, <3>1 DEF ServerInv, LoopTypes, PairHandled
    <3> QED BY <1>2, <3>2 DEF ServerInv
  <2> QED BY <1>9, <2>2, <2>3 DEF GetTarget
<1>10. CASE SendListen
  BY <1>2, <1>5, <1>10 DEF SendListen, ServerInv, LoopTypes, PairHandled
<1>11. CASE SendInitiate
  <2>1. pc = "initiate" /\ todo # <<>> /\ Pair \in Device \X Device /\ UNCHANGED <<stop, bygone>>
    BY <1>4, <1>11 DEF SendInitiate
  <2>2. CASE EndPair /\ ordered' = ordered \cup {Pair}
    <3>1. ordered' \subseteq Device \X Device
      BY <2>1, <2>2 DEF ServerInv, LoopTypes
    <3>2. LoopTypes'
      BY <2>1, <2>2, <3>1, EndPairTypes, TestServerAssumption
         DEF ServerInv, LoopTypes, TestServerAssumption
    <3>3. PairHandled'
      BY <1>5, <2>1, <2>2, EndPairTypes DEF ServerInv, PairHandled
    <3> QED BY <1>2, <3>2, <3>3 DEF ServerInv
  <2>3. CASE pc' = "raised" /\ UNCHANGED <<todo, source, target, ordered>>
    BY <1>2, <1>5, <2>1, <2>3 DEF ServerInv, LoopTypes, PairHandled
  <2> QED BY <1>11, <2>2, <2>3 DEF SendInitiate
<1> QED BY <1>6, <1>7, <1>8, <1>9, <1>10, <1>11 DEF Loop

LEMMA ServerStep == ServerInv /\ [Next]_vars => ServerInv'
<1> SUFFICES ASSUME ServerInv, [Next]_vars PROVE ServerInv'
  OBVIOUS
<1>1. CASE UNCHANGED vars
  BY <1>1 DEF vars, ServerInv, HandlerInv, ConnTypes, LoopTypes, EntriesAreHandled, InOrder,
              OneOpen, EndSeen, PreviousOpened, PairHandled
<1> QED BY <1>1, ConnectKeepsServer, LeaveKeepsServer, HandlersKeepServer, LoopKeepsServer
        DEF Next

LEMMA ServerInvariance == Spec => []ServerInv
  BY ServerInit, ServerStep, PTL DEF Spec

----------------------------------------------------------------------------
(* What Registry calls past and over.                                      *)
Past == {c \in Conn : handler[c] \notin {"none", "register"}}
Over == {c \in Conn : c <= opened /\ socket[c] # "open"}

LEMMA RegistryInit == Init => TheRegistry!Init
<1> SUFFICES ASSUME Init PROVE TheRegistry!Init
  OBVIOUS
<1>1. Past = {} /\ Over = {}
  BY TestServerAssumption DEF Past, Over, Init, Conn, TestServerAssumption
<1>2. connections = [d \in Device |-> 0]
  BY DEF Init
<1> QED BY <1>1, <1>2 DEF TheRegistry!Init, Past, Over

(* A step of a client or a handler is one of Registry, or none.            *)
LEMMA RegistryStep ==
  ASSUME ServerInv, [Next]_vars
  PROVE  [TheRegistry!Next]_<<connections, Past, Over>>
<1> USE DEF ServerInv, HandlerInv, ConnTypes
<1>1. ASSUME UNCHANGED <<sockets, handling>>
      PROVE  UNCHANGED <<connections, Past, Over>>
  BY <1>1 DEF sockets, handling, Past, Over
<1>2. ASSUME NEW c \in Conn, UNCHANGED <<connections, Past>>, Over' = Over \cup {c}
      PROVE  TheRegistry!Next
  BY <1>2, Zenon DEF TheRegistry!Next, TheRegistry!End, Past, Over
<1>3. ASSUME NEW d \in Device, Connect(d)
      PROVE  [TheRegistry!Next]_<<connections, Past, Over>>
  <2> USE <1>3 DEF Connect, handling
  <2>1. opened' \in Conn /\ opened' = opened + 1 /\ handler[opened'] = "none"
    BY TestServerAssumption DEF TestServerAssumption, Conn, InOrder
  <2>2. Past' = Past /\ connections' = connections
    BY <2>1 DEF Past
  <2>3. \A c \in Conn : c \in Over' <=>
          c \in Over \/ (c <= opened /\ device[c] = d /\ socket[c] = "open")
    BY <2>1 DEF Over, Conn
  <2>4. CASE \E c \in Conn : c <= opened /\ device[c] = d /\ socket[c] = "open"
    <3>1. PICK c \in Conn : c <= opened /\ device[c] = d /\ socket[c] = "open"
      BY <2>4
    <3>2. \A b \in Conn : b \in Over' <=> b \in Over \/ b = c
      BY <2>3, <3>1 DEF OneOpen
    <3>3. Over' = Over \cup {c}
      BY <3>2 DEF Over
    <3> QED BY <1>2, <2>2, <3>3
  <2>5. CASE ~\E c \in Conn : c <= opened /\ device[c] = d /\ socket[c] = "open"
    <3>1. Over' = Over
      BY <2>3, <2>5 DEF Over
    <3> QED BY <2>2, <3>1
  <2> QED BY <2>4, <2>5
<1>4. ASSUME NEW c \in Conn, Leave(c)
      PROVE  [TheRegistry!Next]_<<connections, Past, Over>>
  <2>1. c <= opened
    BY <1>4, TestServerAssumption DEF Leave, InOrder, TestServerAssumption, Conn
  <2>2. Over' = Over \cup {c} /\ UNCHANGED <<connections, Past>>
    BY <1>4, <2>1 DEF Leave, handling, Over, Past
  <2> QED BY <1>2, <2>2
<1>5. ASSUME NEW c \in Conn, Register(c)
      PROVE  TheRegistry!Next
  <2>1. device[c] \in Device /\ c \notin Past
    BY <1>5 DEF Register, Past
  <2>2. connections' = [connections EXCEPT ![device[c]] = c] /\ Past' = Past \cup {c}
    BY <1>5 DEF Register, Past
  <2>3. Over' = Over
    BY <1>5 DEF Register, Over, sockets
  <2>4. TheRegistry!Register(device[c], c)
    BY <2>1, <2>2, <2>3 DEF TheRegistry!Register, Past, Over
  <2> QED BY <2>1, <2>4 DEF TheRegistry!Next
<1>6. ASSUME NEW c \in Conn, ClosePrevious(c)
      PROVE  [TheRegistry!Next]_<<connections, Past, Over>>
  <2>1. UNCHANGED <<connections, Past>>
    BY <1>6 DEF ClosePrevious, Past
  <2>2. CASE previous[c] \in Conn
    <3>1. Over' = Over \cup {previous[c]}
      BY <1>6, <2>2 DEF ClosePrevious, Over, PreviousOpened
    <3> QED BY <1>2, <2>1, <2>2, <3>1
  <2>3. CASE previous[c] \notin Conn
    <3>1. Over' = Over
      BY <1>6, <2>3 DEF ClosePrevious, Over
    <3> QED BY <2>1, <3>1
  <2> QED BY <2>2, <2>3
<1>7. ASSUME NEW c \in Conn, Disconnected(c)
      PROVE  UNCHANGED <<connections, Past, Over>>
  BY <1>7 DEF Disconnected, Past, Over
<1>8. ASSUME NEW c \in Conn, Unregister(c)
      PROVE  [TheRegistry!Next]_<<connections, Past, Over>>
  <2>1. Past' = Past /\ Over' = Over
    BY <1>8 DEF Unregister, sockets, Past, Over
  <2>2. CASE connections[device[c]] = c
    <3>1. c \in Over
      <4>1. socket[c] = "closed" /\ c <= opened
        BY <1>8, TestServerAssumption DEF Unregister, EndSeen, InOrder, Conn, TestServerAssumption
      <4> QED BY <4>1 DEF Over
    <3>2. connections' = [connections EXCEPT ![device[c]] = 0] /\ device[c] \in Device
      BY <1>8, <2>2 DEF Unregister
    <3>3. TheRegistry!Drop(device[c])
      BY <2>1, <2>2, <3>1, <3>2 DEF TheRegistry!Drop, Past, Over
    <3> QED BY <3>2, <3>3 DEF TheRegistry!Next
  <2>3. CASE connections[device[c]] # c
    <3>1. connections' = connections
      BY <1>8, <2>3 DEF Unregister
    <3> QED BY <2>1, <3>1
  <2> QED BY <2>2, <2>3
<1>9. CASE Loop \/ Shutdown \/ UNCHANGED vars
  <2>1. UNCHANGED <<sockets, handling>>
    BY <1>9 DEF Loop, LoopBegins, RunSequence, GetSource, GetTarget, SendListen,
                SendInitiate, Delay, Shutdown, vars, sockets, handling
  <2> QED BY <1>1, <2>1
<1> QED BY <1>3, <1>4, <1>5, <1>6, <1>7, <1>8, <1>9 DEF Next, Handle

(* The server is a Registry: whatever order connections open, close and    *)
(* are handled in, an entry is replaced once, and removed only by the      *)
(* handler of its own connection, which is over.                           *)
THEOREM ServerIsRegistry == Spec => IsRegistry
<1>1. Init => TheRegistry!Init
  BY RegistryInit
<1>2. ServerInv /\ [Next]_vars
        => [TheRegistry!Next]_<<connections,
              {c \in Conn : handler[c] \notin {"none", "register"}},
              {c \in Conn : c <= opened /\ socket[c] # "open"}>>
  BY RegistryStep DEF Past, Over
<1> QED BY <1>1, <1>2, ServerInvariance, PTL DEF Spec, IsRegistry, TheRegistry!Spec

(* Every entry is of a connection whose handler is there to remove it.     *)
LEMMA ServerHandles == Spec => [](TypeOK /\ EntriesAreHandled)
<1>1. ServerInv => TypeOK /\ EntriesAreHandled
  BY DEF ServerInv, HandlerInv, ConnTypes, LoopTypes, TypeOK
<1> QED BY <1>1, ServerInvariance, PTL

(* The loop that commands the pairs raises only on a connection whose      *)
(* handler was at work when the pair began.                                *)
LEMMA ServerBreaks == Spec => BreaksOnlyMidPair
<1>1. ServerInv /\ [Next]_vars
        => [pc # "raised" /\ pc' = "raised"
              => (IF pc = "listen" THEN target ELSE source) \notin bygone]_vars
  <2> SUFFICES ASSUME ServerInv, Next, pc # "raised", pc' = "raised"
               PROVE  (IF pc = "listen" THEN target ELSE source) \notin bygone
    OBVIOUS
  <2>1. SendListen \/ SendInitiate
    BY DEF Next, Connect, Leave, Handle, Register, ClosePrevious, Disconnected, Unregister,
           looping, Loop, LoopBegins, RunSequence, GetSource, GetTarget, EndPair, Delay, Shutdown
  <2> QED BY <2>1 DEF SendListen, SendInitiate, ServerInv, PairHandled
<1> QED BY <1>1, ServerInvariance, PTL DEF Spec, BreaksOnlyMidPair

(* All three: the registry names the connections that are there.           *)
THEOREM ServerKeepsRegistry == Spec => RegistryKept
  BY ServerIsRegistry, ServerHandles, ServerBreaks, PTL DEF RegistryKept

----------------------------------------------------------------------------
(* The timing of the pairs.                                                *)

Free(d) == inbox[d] = <<>> /\ heard[d] = Schedule!None

(* The command that d was sent e ticks ago is on its way, or d comes to it *)
(* in time.                                                                *)
Waits(d, code, p, n, e) ==
  \E c \in Schedule!Command :
    /\ inbox[d] = <<c>> /\ heard[d] = Schedule!None
    /\ c.code = code /\ c.pair = p /\ c.serial = n
    /\ IF c.due > 0 THEN e + c.due <= Jitter + 1
                    ELSE e + rest[d] <= Jitter + CheckInterval

(* d listens, by a command that was sent e ticks ago.                      *)
Hears(d, p, n, e) ==
  /\ inbox[d] = <<>> /\ heard[d] \in Schedule!Command
  /\ heard[d].pair = p /\ heard[d].serial = n
  /\ left[d] + e >= ListenTime

(* Between the two commands of a pair, its target is the only device that  *)
(* has something to do.                                                    *)
HalfSent ==
  /\ wait <= Lead
  /\ LET p == Head(pairs)
         d == p[2]
         e == Lead - wait
     IN  /\ Waits(d, "listen", p, serial, e) \/ Hears(d, p, serial, e)
         /\ \A o \in Schedule!Member \ {d} : Free(o)

(* After them, no device has, or the source has yet to poll, and its       *)
(* target listens.                                                         *)
BothSent(p, n, e) ==
  /\ wait + e >= PairDelay
  /\ Waits(p[1], "initiate", p, n, e)
  /\ Hears(p[2], p, n, Lead + e)
  /\ \A o \in Schedule!Member \ {p[1], p[2]} : Free(o)

ScheduleInv ==
  /\ Schedule!TypeOK
  /\ \A d \in Schedule!Member : rest[d] <= CheckInterval
  /\ faults = 0 /\ since = Grace + 1
  /\ step = "initiate" => HalfSent
  /\ step = "listen" =>
       \/ \A d \in Schedule!Member : Free(d)
       \/ \E p \in Schedule!Pairs : \E n \in 0 .. SerialMod - 1 : \E e \in Nat : BothSent(p, n, e)

LEMMA ScheduleConstants ==
  /\ Devices \in Nat /\ Devices >= 2 /\ SerialMod \in Nat \ {0}
  /\ Lead \in Nat /\ PairDelay \in Nat /\ SequenceDelay \in Nat /\ ListenTime \in Nat
  /\ RangingTime \in Nat /\ CheckInterval \in Nat /\ Jitter \in Nat /\ Late \in Nat
  /\ MaxFaults \in Nat /\ Grace \in Nat /\ Jitter < Late
  /\ Jitter + CheckInterval < Lead /\ Lead + Jitter + CheckInterval < ListenTime
  /\ Jitter + CheckInterval < PairDelay
BY PartAssumptions DEF PartAssumptions, Schedule!ScheduleAssumption, Schedule!DelaysFit

LEMMA Quotient ==
  ASSUME NEW n \in Nat, NEW m \in Nat \ {0}, NEW x \in Nat, x < n * m
  PROVE  x \div m \in 0 .. n - 1 /\ x % m \in 0 .. m - 1
<1> DEFINE q == x \div m
           r == x % m
<1>1. q \in Int /\ r \in 0 .. m - 1 /\ x = m * q + r
  BY SMT
<1> HIDE DEF q, r
<1>2. q >= 0
  <2> SUFFICES ASSUME q <= -1 PROVE FALSE
    BY <1>1
  <2>1. m * q <= -m
    BY <1>1, SMT
  <2> QED BY <1>1, <2>1
<1>3. q <= n - 1
  <2> SUFFICES ASSUME q >= n PROVE FALSE
    BY <1>1
  <2>1. m * q >= n * m
    BY <1>1, SMT
  <2> QED BY <1>1, <2>1, SMT
<1>4. q \in 0 .. n - 1 /\ r \in 0 .. m - 1
  BY <1>1, <1>2, <1>3
<1> QED BY <1>4 DEF q, r

(* A sequence is of pairs of two devices, and there are pairs.             *)
LEMMA SequenceOfPairs ==
  Schedule!RunSequence \in Seq(Schedule!Pairs) /\ Schedule!RunSequence # <<>>
<1> DEFINE o == Devices - 1
           N == Devices * o
           from(i) == ((i - 1) \div o) + 1
           spot(i) == ((i - 1) % o) + 1
           couple(i) == <<from(i), IF spot(i) < from(i) THEN spot(i) ELSE spot(i) + 1>>
<1>1. Devices \in Nat /\ o \in Nat \ {0}
  BY ScheduleConstants
<1>2. N \in Nat /\ N >= 1
  BY <1>1, SMT
<1>3. ASSUME NEW i \in 1 .. N
      PROVE  couple(i) \in Schedule!Pairs
  <2>1. i - 1 \in Nat /\ i - 1 < Devices * o
    BY <1>2
  <2>2. (i - 1) \div o \in 0 .. Devices - 1 /\ (i - 1) % o \in 0 .. o - 1
    BY <1>1, <2>1, Quotient
  <2>3. from(i) \in 1 .. Devices /\ spot(i) \in 1 .. Devices - 1
    BY <1>1, <2>2
  <2> HIDE DEF from, spot
  <2> QED BY <1>1, <2>3 DEF Schedule!Pairs, Schedule!Member
<1>4. Schedule!RunSequence = [i \in 1 .. N |-> couple(i)]
  BY DEF Schedule!RunSequence, Schedule!Others
<1> HIDE DEF N, couple
<1>5. [i \in 1 .. N |-> couple(i)] \in Seq(Schedule!Pairs)
  BY <1>2, <1>3, IsASeq
<1>6. 1 \in DOMAIN [i \in 1 .. N |-> couple(i)]
  BY <1>2
<1> QED BY <1>4, <1>5, <1>6

LEMMA ScheduleInit == MaxFaults = 0 /\ Schedule!Init => ScheduleInv
<1> SUFFICES ASSUME MaxFaults = 0, Schedule!Init
             PROVE  ScheduleInv
  OBVIOUS
<1>1. /\ step = "listen" /\ wait = 0 /\ serial = 0 /\ faults = 0 /\ since = Grace + 1
      /\ pairs = Schedule!RunSequence
      /\ rest \in [Schedule!Member -> 0 .. CheckInterval]
  BY DEF Schedule!Init
<1>2. /\ inbox = [d \in Schedule!Member |-> <<>>]
      /\ heard = [d \in Schedule!Member |-> Schedule!None]
      /\ left = [d \in Schedule!Member |-> 0]
  BY DEF Schedule!Init
<1>3. \A d \in Schedule!Member : Free(d)
  BY <1>2 DEF Free
<1>4. inbox \in [Schedule!Member -> Seq(Schedule!Command)]
  BY <1>2
<1>5. /\ rest \in [Schedule!Member -> 0 .. CheckInterval + RangingTime]
      /\ \A d \in Schedule!Member : rest[d] <= CheckInterval
      /\ left \in [Schedule!Member -> 0 .. ListenTime]
  BY <1>1, <1>2, ScheduleConstants
<1>6. heard \in [Schedule!Member -> Schedule!Command \cup {Schedule!None}]
  BY <1>2
<1>7. serial \in 0 .. SerialMod - 1 /\ faults \in 0 .. MaxFaults /\ since \in 0 .. Grace + 1
      /\ wait \in Nat
  BY <1>1, ScheduleConstants
<1>8. Schedule!TypeOK
  BY <1>1, <1>4, <1>5, <1>6, <1>7, SequenceOfPairs DEF Schedule!TypeOK
<1> QED BY <1>1, <1>3, <1>5, <1>8 DEF ScheduleInv

LEMMA CommandIsSome ==
  ASSUME NEW c \in Schedule!Command
  PROVE  c # Schedule!None
BY DEF Schedule!Command, Schedule!None

LEMMA OneCommand ==
  ASSUME NEW c
  PROVE  Head(<<c>>) = c /\ Tail(<<c>>) = <<>> /\ <<c>> # <<>> /\ Len(<<c>>) = 1
OBVIOUS

LEMMA TailOfMore ==
  ASSUME NEW S, NEW s \in Seq(S), Len(s) > 1
  PROVE  Tail(s) # <<>>
<1>1. PICK k \in Nat : k = Len(s)
  OBVIOUS
<1>2. k - 1 # 0 /\ Len(Tail(s)) = k - 1
  BY <1>1, HeadTailProperties
<1>3. Len(<<>>) = 0
  OBVIOUS
<1> QED BY <1>2, <1>3

LEMMA PairMembers ==
  ASSUME NEW p \in Schedule!Pairs
  PROVE  p[1] \in Schedule!Member /\ p[2] \in Schedule!Member /\ p[1] # p[2]
BY DEF Schedule!Pairs

LEMMA ScheduleTypes ==
  ASSUME ScheduleInv
  PROVE  /\ wait \in Nat /\ pairs \in Seq(Schedule!Pairs) /\ pairs # <<>>
         /\ Head(pairs) \in Schedule!Pairs /\ serial \in 0 .. SerialMod - 1
         /\ inbox \in [Schedule!Member -> Seq(Schedule!Command)]
         /\ rest \in [Schedule!Member -> 0 .. CheckInterval]
         /\ heard \in [Schedule!Member -> Schedule!Command \cup {Schedule!None}]
         /\ left \in [Schedule!Member -> 0 .. ListenTime]
         /\ step \in {"listen", "initiate"}
         /\ faults = 0 /\ since = Grace + 1
<1>1. Schedule!TypeOK /\ \A d \in Schedule!Member : rest[d] <= CheckInterval
  BY DEF ScheduleInv
<1>2. \A d \in Schedule!Member : rest[d] \in 0 .. CheckInterval
  BY <1>1, ScheduleConstants DEF Schedule!TypeOK
<1>3. rest \in [Schedule!Member -> 0 .. CheckInterval]
  BY <1>1, <1>2 DEF Schedule!TypeOK
<1>4. Head(pairs) \in Schedule!Pairs
  BY <1>1 DEF Schedule!TypeOK
<1> QED BY <1>1, <1>3, <1>4 DEF Schedule!TypeOK, ScheduleInv

(* The types again, tighter where nothing has gone wrong.                  *)
Undisturbed ==
  /\ wait \in Nat /\ pairs \in Seq(Schedule!Pairs) /\ pairs # <<>>
  /\ serial \in 0 .. SerialMod - 1
  /\ inbox \in [Schedule!Member -> Seq(Schedule!Command)]
  /\ rest \in [Schedule!Member -> 0 .. CheckInterval]
  /\ heard \in [Schedule!Member -> Schedule!Command \cup {Schedule!None}]
  /\ left \in [Schedule!Member -> 0 .. ListenTime]
  /\ step \in {"listen", "initiate"}
  /\ faults = 0 /\ since = Grace + 1

LEMMA UndisturbedTypes ==
  ASSUME Undisturbed'
  PROVE  Schedule!TypeOK' /\ \A d \in Schedule!Member : rest'[d] <= CheckInterval
<1>1. \A d \in Schedule!Member : rest'[d] <= CheckInterval
  BY ScheduleConstants DEF Undisturbed
<1>2. rest' \in [Schedule!Member -> 0 .. CheckInterval + RangingTime]
  BY ScheduleConstants DEF Undisturbed
<1>3. faults' \in 0 .. MaxFaults /\ since' \in 0 .. Grace + 1
  BY ScheduleConstants DEF Undisturbed
<1> QED BY <1>1, <1>2, <1>3 DEF Schedule!TypeOK, Undisturbed

(* Without faults to come, what is sent arrives in time, and makes who is  *)
(* sent it wait.                                                           *)
LEMMA CommandSent ==
  ASSUME MaxFaults = 0, ScheduleInv, NEW d \in Schedule!Member,
         NEW code \in {"listen", "initiate"}, NEW n,
         Schedule!SendJson(d, code, n)
  PROVE  /\ faults' = 0 /\ since' = n
         /\ \E c \in Schedule!Command :
              /\ c.code = code /\ c.pair = Head(pairs) /\ c.serial = serial
              /\ 0 < c.due /\ c.due <= Jitter + 1
              /\ inbox' = [inbox EXCEPT ![d] = Append(@, c)]
<1>1. PICK delay \in 0 .. Jitter \cup {Late} :
        /\ Schedule!Fault(delay = Late, n)
        /\ inbox' = [inbox EXCEPT ![d] = Append(@,
             [code |-> code, pair |-> Head(pairs), serial |-> serial, due |-> delay + 1])]
  BY DEF Schedule!SendJson
<1>2. delay # Late /\ faults' = 0 /\ since' = n
  BY <1>1, ScheduleTypes DEF Schedule!Fault
<1>3. delay \in 0 .. Jitter
  BY <1>1, <1>2
<1> DEFINE c == [code |-> code, pair |-> Head(pairs), serial |-> serial, due |-> delay + 1]
<1>4. c \in Schedule!Command
  BY <1>3, ScheduleTypes, ScheduleConstants DEF Schedule!Command
<1>5. 0 < c.due /\ c.due <= Jitter + 1
  BY <1>3, ScheduleConstants
<1> QED BY <1>1, <1>2, <1>4, <1>5

(* Once it has paused for a pair, every device is free again.              *)
LEMMA AllFree ==
  ASSUME ScheduleInv, step = "listen", wait = 0
  PROVE  \A d \in Schedule!Member : Free(d)
<1> SUFFICES ASSUME NEW p \in Schedule!Pairs, NEW n \in 0 .. SerialMod - 1, NEW e \in Nat,
                    BothSent(p, n, e)
             PROVE  FALSE
  BY DEF ScheduleInv
<1>1. e >= PairDelay
  BY ScheduleConstants DEF BothSent
<1>2. PICK c \in Schedule!Command :
        IF c.due > 0 THEN e + c.due <= Jitter + 1
                     ELSE e + rest[p[1]] <= Jitter + CheckInterval
  BY DEF BothSent, Waits
<1>3. c.due \in Nat /\ rest[p[1]] \in Nat
  BY ScheduleTypes, PairMembers, ScheduleConstants DEF Schedule!Command
<1> QED BY <1>1, <1>2, <1>3, ScheduleConstants

(* Once the lead is over, the target listens.                              *)
LEMMA TargetHears ==
  ASSUME ScheduleInv, step = "initiate", wait = 0
  PROVE  Hears(Head(pairs)[2], Head(pairs), serial, Lead)
<1> DEFINE p == Head(pairs)
<1>1. Waits(p[2], "listen", p, serial, Lead) \/ Hears(p[2], p, serial, Lead)
  BY ScheduleConstants DEF ScheduleInv, HalfSent
<1>2. ASSUME Waits(p[2], "listen", p, serial, Lead)
      PROVE  FALSE
  <2>1. PICK c \in Schedule!Command :
          IF c.due > 0 THEN Lead + c.due <= Jitter + 1
                       ELSE Lead + rest[p[2]] <= Jitter + CheckInterval
    BY <1>2 DEF Waits
  <2>2. c.due \in Nat /\ rest[p[2]] \in Nat
    BY ScheduleTypes, PairMembers, ScheduleConstants DEF Schedule!Command
  <2> QED BY <2>1, <2>2, ScheduleConstants
<1> QED BY <1>1, <1>2

LEMMA SendListenStep ==
  ASSUME MaxFaults = 0, ScheduleInv, Schedule!SendListen
  PROVE  ScheduleInv'
<1> DEFINE p == Head(pairs)
           d == p[2]
<1>1. p \in Schedule!Pairs /\ d \in Schedule!Member
  BY ScheduleTypes, PairMembers
<1>2. /\ step = "listen" /\ wait = 0 /\ step' = "initiate" /\ wait' = Lead
      /\ Schedule!SendJson(d, "listen", Schedule!NextPair)
      /\ UNCHANGED <<pairs, serial, rest, heard, left>>
  BY DEF Schedule!SendListen
<1>3. /\ faults' = 0 /\ since' = Schedule!NextPair
      /\ \E c \in Schedule!Command :
           /\ c.code = "listen" /\ c.pair = p /\ c.serial = serial
           /\ 0 < c.due /\ c.due <= Jitter + 1
           /\ inbox' = [inbox EXCEPT ![d] = Append(@, c)]
  BY <1>1, <1>2, CommandSent
<1>4. PICK c \in Schedule!Command :
        /\ c.code = "listen" /\ c.pair = p /\ c.serial = serial
        /\ 0 < c.due /\ c.due <= Jitter + 1
        /\ inbox' = [inbox EXCEPT ![d] = Append(@, c)]
  BY <1>3
<1>5. since' = Grace + 1
  BY <1>3, ScheduleTypes, ScheduleConstants DEF Schedule!NextPair
<1>6. \A o \in Schedule!Member : Free(o)
  BY <1>2, AllFree
<1>7. inbox'[d] = <<c>> /\ \A o \in Schedule!Member \ {d} : inbox'[o] = inbox[o]
  <2>1. inbox[d] = <<>> /\ Append(<<>>, c) = <<c>>
    BY <1>1, <1>6 DEF Free
  <2> QED BY <1>1, <1>4, <2>1, ScheduleTypes
<1>8. inbox' \in [Schedule!Member -> Seq(Schedule!Command)]
  BY <1>1, <1>4, ScheduleTypes
<1>9. Waits(d, "listen", p, serial, 0)'
  <2>1. heard'[d] = Schedule!None
    BY <1>1, <1>2, <1>6 DEF Free
  <2>2. c.due > 0 /\ 0 + c.due <= Jitter + 1
    BY <1>4, ScheduleConstants DEF Schedule!Command
  <2> QED BY <1>2, <1>4, <1>7, <2>1, <2>2 DEF Waits
<1>10. \A o \in Schedule!Member \ {d} : Free(o)'
  BY <1>2, <1>6, <1>7 DEF Free
<1>11. HalfSent'
  BY <1>2, <1>9, <1>10, ScheduleConstants DEF HalfSent
<1>12. Schedule!TypeOK' /\ \A o \in Schedule!Member : rest'[o] <= CheckInterval
  <2>1. wait' \in Nat /\ step' \in {"listen", "initiate"}
    BY <1>2, ScheduleConstants
  <2>2. Undisturbed'
    BY <1>2, <1>3, <1>5, <1>8, <2>1, ScheduleTypes DEF Undisturbed
  <2> QED BY <2>2, UndisturbedTypes
<1> QED BY <1>2, <1>3, <1>5, <1>11, <1>12 DEF ScheduleInv

LEMMA SendInitiateStep ==
  ASSUME MaxFaults = 0, ScheduleInv, Schedule!SendInitiate
  PROVE  ScheduleInv'
<1>p. PICK p \in Schedule!Pairs : p = Head(pairs)
  BY ScheduleTypes
<1>n. PICK n \in 0 .. SerialMod - 1 : n = serial
  BY ScheduleTypes
<1>1. p \in Schedule!Pairs /\ p[1] \in Schedule!Member /\ p[2] \in Schedule!Member /\ p[1] # p[2]
  BY PairMembers
<1>2. /\ step = "initiate" /\ wait = 0 /\ step' = "listen"
      /\ Schedule!SendJson(p[1], "initiate", since)
      /\ IF Len(pairs) > 1
         THEN pairs' = Tail(pairs) /\ wait' = PairDelay
         ELSE pairs' = Schedule!RunSequence /\ wait' = PairDelay + SequenceDelay
      /\ serial' = (serial + 1) % SerialMod
      /\ UNCHANGED <<rest, heard, left>>
  BY <1>p DEF Schedule!SendInitiate
<1>3. /\ faults' = 0 /\ since' = since
      /\ \E c \in Schedule!Command :
           /\ c.code = "initiate" /\ c.pair = p /\ c.serial = n
           /\ 0 < c.due /\ c.due <= Jitter + 1
           /\ inbox' = [inbox EXCEPT ![p[1]] = Append(@, c)]
  BY <1>p, <1>n, <1>1, <1>2, CommandSent
<1>4. PICK c \in Schedule!Command :
        /\ c.code = "initiate" /\ c.pair = p /\ c.serial = n
        /\ 0 < c.due /\ c.due <= Jitter + 1
        /\ inbox' = [inbox EXCEPT ![p[1]] = Append(@, c)]
  BY <1>3
<1>5. Hears(p[2], p, n, Lead) /\ \A o \in Schedule!Member \ {p[2]} : Free(o)
  BY <1>p, <1>n, <1>2, TargetHears DEF ScheduleInv, HalfSent
<1>6. inbox'[p[1]] = <<c>> /\ \A o \in Schedule!Member \ {p[1]} : inbox'[o] = inbox[o]
  <2>1. inbox[p[1]] = <<>> /\ Append(<<>>, c) = <<c>>
    BY <1>1, <1>5 DEF Free
  <2> QED BY <1>1, <1>4, <2>1, ScheduleTypes
<1>7. Waits(p[1], "initiate", p, n, 0)'
  <2>1. heard'[p[1]] = Schedule!None
    BY <1>1, <1>2, <1>5 DEF Free
  <2>2. c.due > 0 /\ 0 + c.due <= Jitter + 1
    BY <1>4, ScheduleConstants DEF Schedule!Command
  <2>3. inbox'[p[1]] = <<c>> /\ c.code = "initiate" /\ c.pair = p /\ c.serial = n
    BY <1>4, <1>6
  <2> QED BY <2>1, <2>2, <2>3 DEF Waits
<1>8. Hears(p[2], p, n, Lead + 0)'
  <2>1. inbox'[p[2]] = <<>> /\ heard'[p[2]] = heard[p[2]] /\ left'[p[2]] = left[p[2]]
    BY <1>1, <1>2, <1>5, <1>6 DEF Hears
  <2>2. Lead + 0 = Lead
    BY ScheduleConstants
  <2> QED BY <1>5, <2>1, <2>2 DEF Hears
<1>9. \A o \in Schedule!Member \ {p[1], p[2]} : Free(o)'
  BY <1>2, <1>5, <1>6 DEF Free
<1>10. wait' \in Nat /\ wait' + 0 >= PairDelay
  BY <1>2, ScheduleConstants
<1>11. BothSent(p, n, 0)'
  BY <1>7, <1>8, <1>9, <1>10 DEF BothSent
<1>12. pairs' \in Seq(Schedule!Pairs) /\ pairs' # <<>>
  <2>1. CASE Len(pairs) > 1
    <3>1. Tail(pairs) \in Seq(Schedule!Pairs) /\ Len(Tail(pairs)) = Len(pairs) - 1
      BY ScheduleTypes
    <3>2. Tail(pairs) # <<>>
      BY <2>1, ScheduleTypes, TailOfMore
    <3> QED BY <1>2, <2>1, <3>1, <3>2
  <2>2. CASE ~(Len(pairs) > 1)
    BY <1>2, <2>2, SequenceOfPairs
  <2> QED BY <2>1, <2>2
<1>13. serial' \in 0 .. SerialMod - 1
  BY <1>2, ScheduleTypes, ScheduleConstants
<1>14. inbox' \in [Schedule!Member -> Seq(Schedule!Command)]
  BY <1>1, <1>4, ScheduleTypes
<1>15. Undisturbed'
  BY <1>2, <1>3, <1>10, <1>12, <1>13, <1>14, ScheduleTypes DEF Undisturbed
<1>16. \E q \in Schedule!Pairs : \E m \in 0 .. SerialMod - 1 : \E e \in Nat : BothSent(q, m, e)'
  <2>1. 0 \in Nat
    OBVIOUS
  <2> QED BY <1>1, <1>11, <2>1
<1>17. faults' = 0 /\ since' = Grace + 1 /\ step' = "listen"
  BY <1>2, <1>3, ScheduleTypes
<1>18. Schedule!TypeOK' /\ \A o \in Schedule!Member : rest'[o] <= CheckInterval
  BY <1>15, UndisturbedTypes
<1> QED BY <1>16, <1>17, <1>18 DEF ScheduleInv

(* What a step leaves a device with, if it leaves it alone.                *)
LEMMA LeftAlone ==
  ASSUME NEW d \in Schedule!Member,
         inbox'[d] = inbox[d], heard'[d] = heard[d], left'[d] = left[d], rest'[d] = rest[d]
  PROVE  /\ Free(d) => Free(d)'
         /\ \A code, p, n, e : Waits(d, code, p, n, e) => Waits(d, code, p, n, e)'
         /\ \A p, n, e : Hears(d, p, n, e) => Hears(d, p, n, e)'
BY DEF Free, Waits, Hears

LEMMA IdleStep ==
  ASSUME ScheduleInv, NEW d \in Schedule!Member, Schedule!Idle(d)
  PROVE  ScheduleInv'
<1>1. /\ heard[d] = Schedule!None /\ inbox[d] # <<>> => Head(inbox[d]).due > 0
      /\ rest' = [rest EXCEPT ![d] = CheckInterval]
      /\ UNCHANGED <<step, wait, pairs, serial, inbox, heard, left, faults, since>>
  BY DEF Schedule!Idle, Schedule!Turn, Schedule!server
<1>2. \A o \in Schedule!Member :
        /\ Free(o) => Free(o)'
        /\ \A code, p, n, e : Waits(o, code, p, n, e) => Waits(o, code, p, n, e)'
        /\ \A p, n, e : Hears(o, p, n, e) => Hears(o, p, n, e)'
  <2> SUFFICES ASSUME NEW o \in Schedule!Member
               PROVE  /\ Free(o) => Free(o)'
                      /\ \A code, p, n, e : Waits(o, code, p, n, e) => Waits(o, code, p, n, e)'
                      /\ \A p, n, e : Hears(o, p, n, e) => Hears(o, p, n, e)'
    OBVIOUS
  <2>1. CASE o # d
    <3>1. rest'[o] = rest[o]
      BY <1>1, <2>1, ScheduleTypes
    <3> QED BY <1>1, <3>1, LeftAlone
  <2>2. CASE o = d
    <3>1. Free(d) => Free(d)'
      BY <1>1 DEF Free
    <3>2. ASSUME NEW code, NEW p, NEW n, NEW e, Waits(d, code, p, n, e)
          PROVE  Waits(d, code, p, n, e)'
      <4>1. PICK c \in Schedule!Command :
              /\ inbox[d] = <<c>> /\ heard[d] = Schedule!None
              /\ c.code = code /\ c.pair = p /\ c.serial = n
              /\ IF c.due > 0 THEN e + c.due <= Jitter + 1
                              ELSE e + rest[d] <= Jitter + CheckInterval
        BY <3>2 DEF Waits
      <4>2. c.due > 0
        BY <1>1, <4>1, OneCommand
      <4> QED BY <1>1, <4>1, <4>2 DEF Waits
    <3>3. ASSUME NEW p, NEW n, NEW e, Hears(d, p, n, e)
          PROVE  Hears(d, p, n, e)'
      BY <1>1, <3>3 DEF Hears
    <3> QED BY <2>2, <3>1, <3>2, <3>3
  <2> QED BY <2>1, <2>2
<1>3. step = "initiate" => HalfSent'
  <2> SUFFICES ASSUME step = "initiate" PROVE HalfSent'
    OBVIOUS
  <2>1. HalfSent /\ Head(pairs)[2] \in Schedule!Member
    BY ScheduleTypes, PairMembers DEF ScheduleInv
  <2> QED BY <1>1, <1>2, <2>1 DEF HalfSent
<1>4. \A p \in Schedule!Pairs : \A n, e : BothSent(p, n, e) => BothSent(p, n, e)'
  BY <1>1, <1>2, PairMembers DEF BothSent
<1>5. rest' \in [Schedule!Member -> 0 .. CheckInterval]
  BY <1>1, ScheduleTypes, ScheduleConstants
<1>6. Schedule!TypeOK' /\ \A o \in Schedule!Member : rest'[o] <= CheckInterval
  <2>1. Undisturbed'
    BY <1>1, <1>5, ScheduleTypes DEF Undisturbed
  <2> QED BY <2>1, UndisturbedTypes
<1> QED BY <1>1, <1>2, <1>3, <1>4, <1>6 DEF ScheduleInv

(* Only the target of a pair half commanded takes a command to listen...   *)
LEMMA WhoListens ==
  ASSUME ScheduleInv, NEW d \in Schedule!Member, Schedule!Takes(d, "listen")
  PROVE  /\ step = "initiate" /\ d = Head(pairs)[2]
         /\ Waits(d, "listen", Head(pairs), serial, Lead - wait)
<1>1. inbox[d] # <<>> /\ Head(inbox[d]).code = "listen" /\ heard[d] = Schedule!None
  BY DEF Schedule!Takes, Schedule!Turn
<1>2. ~Free(d) /\ \A p, n, e : ~Hears(d, p, n, e)
  BY <1>1 DEF Free, Hears
<1>3. \A p, n, e : ~Waits(d, "initiate", p, n, e)
  <2> SUFFICES ASSUME NEW c, inbox[d] = <<c>>, c.code = "initiate"
               PROVE  FALSE
    BY DEF Waits
  <2> QED BY <1>1, OneCommand
<1>4. ASSUME NEW p \in Schedule!Pairs, NEW n, NEW e, BothSent(p, n, e)
      PROVE  FALSE
  BY <1>2, <1>3, <1>4 DEF BothSent
<1>5. step = "initiate"
  BY <1>2, <1>4, ScheduleTypes DEF ScheduleInv
<1> QED BY <1>2, <1>5 DEF ScheduleInv, HalfSent

(* ... only the source of one commanded takes one to initiate...           *)
LEMMA WhoInitiates ==
  ASSUME ScheduleInv, NEW d \in Schedule!Member, Schedule!Takes(d, "initiate")
  PROVE  /\ step = "listen"
         /\ \E p \in Schedule!Pairs : \E n \in 0 .. SerialMod - 1 : \E e \in Nat :
              BothSent(p, n, e) /\ d = p[1]
<1>1. inbox[d] # <<>> /\ Head(inbox[d]).code = "initiate" /\ heard[d] = Schedule!None
  BY DEF Schedule!Takes, Schedule!Turn
<1>2. ~Free(d) /\ \A p, n, e : ~Hears(d, p, n, e)
  BY <1>1 DEF Free, Hears
<1>3. \A p, n, e : ~Waits(d, "listen", p, n, e)
  <2> SUFFICES ASSUME NEW c, inbox[d] = <<c>>, c.code = "listen"
               PROVE  FALSE
    BY DEF Waits
  <2> QED BY <1>1, OneCommand
<1>4. ~HalfSent
  BY <1>2, <1>3 DEF HalfSent
<1>5. step = "listen"
  BY <1>4, ScheduleTypes DEF ScheduleInv
<1>6. PICK p \in Schedule!Pairs, n \in 0 .. SerialMod - 1, e \in Nat : BothSent(p, n, e)
  BY <1>2, <1>5 DEF ScheduleInv
<1>7. d = p[1]
  BY <1>2, <1>6 DEF BothSent
<1> QED BY <1>5, <1>6, <1>7

(* ... and nobody listens for so long as to give up.                       *)
LEMMA StillListens ==
  ASSUME ScheduleInv, NEW d \in Schedule!Member, heard[d] # Schedule!None
  PROVE  left[d] > 0
<1>1. left[d] \in Nat /\ ~Free(d) /\ \A code, p, n, e : ~Waits(d, code, p, n, e)
  BY ScheduleTypes, ScheduleConstants DEF Free, Waits
<1>2. CASE step = "initiate"
  <2>1. Hears(d, Head(pairs), serial, Lead - wait)
    BY <1>1, <1>2 DEF ScheduleInv, HalfSent
  <2> QED BY <1>1, <2>1, ScheduleTypes, ScheduleConstants DEF Hears
<1>3. CASE step = "listen"
  <2>1. PICK p \in Schedule!Pairs, n \in 0 .. SerialMod - 1, e \in Nat : BothSent(p, n, e)
    BY <1>1, <1>3 DEF ScheduleInv
  <2>2. Hears(d, p, n, Lead + e)
    BY <1>1, <2>1 DEF BothSent
  <2>3. PICK c \in Schedule!Command :
          IF c.due > 0 THEN e + c.due <= Jitter + 1
                       ELSE e + rest[p[1]] <= Jitter + CheckInterval
    BY <2>1 DEF BothSent, Waits
  <2>4. c.due \in Nat /\ rest[p[1]] \in Nat
    BY ScheduleTypes, PairMembers, ScheduleConstants DEF Schedule!Command
  <2>5. e <= Jitter + CheckInterval
    BY <2>3, <2>4, ScheduleConstants
  <2>6. left[d] + Lead + e >= ListenTime
    BY <1>1, <2>2, ScheduleConstants DEF Hears
  <2> QED BY <1>1, <2>5, <2>6, ScheduleConstants
<1> QED BY <1>2, <1>3, ScheduleTypes

LEMMA ListenStep ==
  ASSUME ScheduleInv, NEW d \in Schedule!Member, Schedule!Listen(d)
  PROVE  ScheduleInv'
<1>1. /\ Schedule!Takes(d, "listen")
      /\ heard' = [heard EXCEPT ![d] = Head(inbox[d])]
      /\ left' = [left EXCEPT ![d] = ListenTime]
      /\ inbox' = [inbox EXCEPT ![d] = Tail(@)]
      /\ UNCHANGED <<step, wait, pairs, serial, rest, faults, since>>
  BY DEF Schedule!Listen, Schedule!server
<1>p. PICK p \in Schedule!Pairs : p = Head(pairs)
  BY ScheduleTypes
<1>2. /\ step = "initiate" /\ d = p[2]
      /\ Waits(d, "listen", p, serial, Lead - wait)
  BY <1>1, <1>p, WhoListens
<1>3. wait <= Lead /\ \A o \in Schedule!Member \ {d} : Free(o)
  BY <1>2, <1>p DEF ScheduleInv, HalfSent
<1>4. PICK c \in Schedule!Command : inbox[d] = <<c>> /\ c.pair = p /\ c.serial = serial
  BY <1>2 DEF Waits
<1>5. /\ inbox'[d] = <<>> /\ heard'[d] = c /\ left'[d] = ListenTime
      /\ \A o \in Schedule!Member \ {d} : inbox'[o] = inbox[o] /\ heard'[o] = heard[o]
  BY <1>1, <1>4, OneCommand, ScheduleTypes
<1>6. Hears(d, p, serial, Lead - wait)'
  <2>1. left'[d] + (Lead - wait) >= ListenTime
    BY <1>3, <1>5, ScheduleTypes, ScheduleConstants
  <2> QED BY <1>1, <1>4, <1>5, <2>1 DEF Hears
<1>7. \A o \in Schedule!Member \ {d} : Free(o)'
  BY <1>3, <1>5 DEF Free
<1>8. HalfSent'
  BY <1>1, <1>p, <1>2, <1>3, <1>6, <1>7 DEF HalfSent
<1>9. Schedule!TypeOK' /\ \A o \in Schedule!Member : rest'[o] <= CheckInterval
  <2>1. inbox' \in [Schedule!Member -> Seq(Schedule!Command)]
    BY <1>1, <1>4, OneCommand, ScheduleTypes
  <2>2. heard' \in [Schedule!Member -> Schedule!Command \cup {Schedule!None}]
    BY <1>1, <1>4, OneCommand, ScheduleTypes
  <2>3. left' \in [Schedule!Member -> 0 .. ListenTime]
    BY <1>1, ScheduleTypes, ScheduleConstants
  <2>4. Undisturbed'
    BY <1>1, <2>1, <2>2, <2>3, ScheduleTypes DEF Undisturbed
  <2> QED BY <2>4, UndisturbedTypes
<1>10. step' = "initiate" /\ faults' = 0 /\ since' = Grace + 1
  BY <1>1, <1>2, ScheduleTypes
<1> QED BY <1>8, <1>9, <1>10 DEF ScheduleInv

(* Who initiates polls the target of its pair and nobody else, and there   *)
(* is nothing left to do.                                                  *)
LEMMA ExchangeMeets ==
  ASSUME ScheduleInv, NEW d \in Schedule!Member, Schedule!Takes(d, "initiate")
  PROVE  /\ step = "listen"
         /\ \E c \in Schedule!Command :
              /\ inbox[d] = <<c>> /\ c.pair \in Schedule!Pairs
              /\ Schedule!Listening = {c.pair[2]} /\ d # c.pair[2]
              /\ heard[c.pair[2]] \in Schedule!Command
              /\ heard[c.pair[2]].pair = c.pair /\ heard[c.pair[2]].serial = c.serial
              /\ \A o \in Schedule!Member \ {d} : inbox[o] = <<>>
<1>1. PICK p \in Schedule!Pairs, n \in 0 .. SerialMod - 1, e \in Nat :
        BothSent(p, n, e) /\ d = p[1]
  BY WhoInitiates
<1>2. PICK c \in Schedule!Command :
        inbox[d] = <<c>> /\ heard[d] = Schedule!None /\ c.pair = p /\ c.serial = n
  BY <1>1 DEF BothSent, Waits
<1>3. /\ inbox[p[2]] = <<>> /\ heard[p[2]] \in Schedule!Command
      /\ heard[p[2]].pair = p /\ heard[p[2]].serial = n
  BY <1>1 DEF BothSent, Hears
<1>4. p[1] \in Schedule!Member /\ p[2] \in Schedule!Member /\ p[1] # p[2]
  BY PairMembers
<1>5. \A o \in Schedule!Member \ {d, p[2]} : inbox[o] = <<>> /\ heard[o] = Schedule!None
  BY <1>1 DEF BothSent, Free
<1>6. Schedule!Listening = {p[2]}
  BY <1>1, <1>2, <1>3, <1>4, <1>5, CommandIsSome DEF Schedule!Listening
<1> QED BY <1>1, <1>2, <1>3, <1>4, <1>5, <1>6, WhoInitiates

LEMMA NoFailure ==
  ASSUME MaxFaults = 0, ScheduleInv, NEW d \in Schedule!Member
  PROVE  ~Schedule!InitiateFails(d)
<1> SUFFICES ASSUME Schedule!InitiateFails(d)
             PROVE  FALSE
  OBVIOUS
<1>1. PICK ears \in SUBSET Schedule!Listening :
        /\ Schedule!Takes(d, "initiate")
        /\ Schedule!Fault(ears # Schedule!Listening
                            \/ Schedule!Answering(Head(inbox[d]), ears) # {}, since)
  BY DEF Schedule!InitiateFails, Schedule!Exchange
<1>2. ears = Schedule!Listening /\ Schedule!Answering(Head(inbox[d]), ears) = {}
  BY <1>1, ScheduleTypes DEF Schedule!Fault
<1>3. PICK c \in Schedule!Command :
        /\ inbox[d] = <<c>> /\ Schedule!Listening = {c.pair[2]}
        /\ heard[c.pair[2]].pair = c.pair
  BY <1>1, ExchangeMeets
<1>4. c.pair[2] \in Schedule!Answering(Head(inbox[d]), ears)
  BY <1>2, <1>3, OneCommand DEF Schedule!Answering
<1> QED BY <1>2, <1>4

LEMMA ReportsStep ==
  ASSUME MaxFaults = 0, ScheduleInv, NEW d \in Schedule!Member, Schedule!InitiateReports(d)
  PROVE  ScheduleInv'
<1>1. PICK ears \in SUBSET Schedule!Listening :
        Schedule!Exchange(d, ears, TRUE) /\ Schedule!Fault(ears # Schedule!Listening, since)
  BY DEF Schedule!InitiateReports
<1>2. ears = Schedule!Listening /\ faults' = 0 /\ since' = since
  BY <1>1, ScheduleTypes DEF Schedule!Fault
<1>3. /\ Schedule!Takes(d, "initiate")
      /\ inbox' = [inbox EXCEPT ![d] = Tail(@)]
      /\ heard' = [e \in Schedule!Member |-> IF e \in ears THEN Schedule!None ELSE heard[e]]
      /\ left' = [e \in Schedule!Member |-> IF e \in ears THEN 0 ELSE left[e]]
      /\ rest' = [e \in Schedule!Member |->
           IF e = d THEN CheckInterval + 0
           ELSE IF e \in ears THEN CheckInterval ELSE rest[e]]
      /\ UNCHANGED <<step, wait, pairs, serial>>
  BY <1>1 DEF Schedule!Exchange, Schedule!server
<1>4. PICK c \in Schedule!Command :
        inbox[d] = <<c>> /\ \A o \in Schedule!Member \ {d} : inbox[o] = <<>>
  BY <1>3, ExchangeMeets
<1>5. \A o \in Schedule!Member : Free(o)'
  <2>1. \A o \in Schedule!Member : inbox'[o] = <<>>
    BY <1>3, <1>4, OneCommand, ScheduleTypes
  <2>2. \A o \in Schedule!Member : heard'[o] = Schedule!None
    BY <1>2, <1>3 DEF Schedule!Listening
  <2> QED BY <2>1, <2>2 DEF Free
<1>6. Schedule!TypeOK' /\ \A o \in Schedule!Member : rest'[o] <= CheckInterval
  <2>1. inbox' \in [Schedule!Member -> Seq(Schedule!Command)]
    BY <1>3, <1>4, OneCommand, ScheduleTypes
  <2>2. heard' \in [Schedule!Member -> Schedule!Command \cup {Schedule!None}]
    BY <1>3, ScheduleTypes
  <2>3. left' \in [Schedule!Member -> 0 .. ListenTime]
    BY <1>3, ScheduleTypes, ScheduleConstants
  <2>4. rest' \in [Schedule!Member -> 0 .. CheckInterval]
    BY <1>3, ScheduleTypes, ScheduleConstants
  <2>5. Undisturbed'
    BY <1>2, <1>3, <2>1, <2>2, <2>3, <2>4, ScheduleTypes DEF Undisturbed
  <2> QED BY <2>5, UndisturbedTypes
<1>7. step' = "listen" /\ faults' = 0 /\ since' = Grace + 1
  BY <1>2, <1>3, ExchangeMeets, ScheduleTypes
<1> QED BY <1>5, <1>6, <1>7 DEF ScheduleInv

(* A tick brings what waits nearer by one, and is the one by which it has  *)
(* waited longer.                                                          *)
LEMMA TickStep ==
  ASSUME ScheduleInv, Schedule!Tick
  PROVE  ScheduleInv'
<1>1. /\ wait > 0 /\ wait' = wait - 1
      /\ \A d \in Schedule!Member : heard[d] = Schedule!None => rest[d] > 0
      /\ rest' = [d \in Schedule!Member |-> IF rest[d] > 0 THEN rest[d] - 1 ELSE 0]
      /\ left' = [d \in Schedule!Member |-> IF left[d] > 0 THEN left[d] - 1 ELSE 0]
      /\ UNCHANGED <<step, pairs, serial, heard, faults, since>>
  BY DEF Schedule!Tick
<1>2. inbox' = [d \in Schedule!Member |-> [i \in 1 .. Len(inbox[d]) |->
        [inbox[d][i] EXCEPT !.due = IF @ > 0 THEN @ - 1 ELSE 0]]]
  BY DEF Schedule!Tick
<1>3. ASSUME NEW d \in Schedule!Member, inbox[d] = <<>>
      PROVE  inbox'[d] = <<>>
  BY <1>2, <1>3
<1>4. ASSUME NEW d \in Schedule!Member, NEW c \in Schedule!Command, inbox[d] = <<c>>
      PROVE  inbox'[d] = <<[c EXCEPT !.due = IF @ > 0 THEN @ - 1 ELSE 0]>>
  <2> DEFINE next(b) == [b EXCEPT !.due = IF @ > 0 THEN @ - 1 ELSE 0]
  <2>1. inbox'[d] = [i \in 1 .. Len(inbox[d]) |-> next(inbox[d][i])]
    BY <1>2
  <2> HIDE DEF next
  <2>2. Len(<<c>>) = 1 /\ <<c>>[1] = c
    OBVIOUS
  <2>3. inbox'[d] = [i \in 1 .. 1 |-> next(c)]
    BY <1>4, <2>1, <2>2
  <2>4. [i \in 1 .. 1 |-> next(c)] = <<next(c)>>
    OBVIOUS
  <2> QED BY <2>3, <2>4 DEF next
<1>5. ASSUME NEW d \in Schedule!Member, Free(d)
      PROVE  Free(d)'
  BY <1>1, <1>3, <1>5 DEF Free
<1>6. ASSUME NEW d \in Schedule!Member, NEW p, NEW n, NEW e \in Nat, NEW code,
             NEW f, f = e + 1, Waits(d, code, p, n, e)
      PROVE  Waits(d, code, p, n, f)'
  <2>1. PICK c \in Schedule!Command :
          /\ inbox[d] = <<c>> /\ heard[d] = Schedule!None
          /\ c.code = code /\ c.pair = p /\ c.serial = n
          /\ IF c.due > 0 THEN e + c.due <= Jitter + 1
                          ELSE e + rest[d] <= Jitter + CheckInterval
    BY <1>6 DEF Waits
  <2> DEFINE b == [c EXCEPT !.due = IF @ > 0 THEN @ - 1 ELSE 0]
  <2>2. c.due \in 0 .. Late + 1
    BY DEF Schedule!Command
  <2>3. /\ b.code = code /\ b.pair = p /\ b.serial = n
        /\ b.due = IF c.due > 0 THEN c.due - 1 ELSE 0
    BY <2>1 DEF Schedule!Command
  <2>4. b \in Schedule!Command
    BY <2>2, ScheduleConstants DEF Schedule!Command
  <2>5. inbox'[d] = <<b>>
    BY <1>4, <2>1
  <2> HIDE DEF b
  <2>6. rest[d] \in 1 .. CheckInterval /\ rest'[d] = rest[d] - 1
    BY <1>1, <2>1, ScheduleTypes, ScheduleConstants
  <2>7. IF b.due > 0 THEN f + b.due <= Jitter + 1
                     ELSE f + rest'[d] <= Jitter + CheckInterval
    BY <1>6, <2>1, <2>2, <2>3, <2>6, ScheduleConstants
  <2> QED BY <1>1, <2>1, <2>3, <2>4, <2>5, <2>7 DEF Waits
<1>7. ASSUME NEW d \in Schedule!Member, NEW p, NEW n, NEW e \in Nat, Hears(d, p, n, e)
      PROVE  /\ inbox'[d] = <<>> /\ heard'[d] \in Schedule!Command
             /\ heard'[d].pair = p /\ heard'[d].serial = n
             /\ left'[d] + (e + 1) >= ListenTime
  <2>1. left[d] \in Nat /\ left'[d] >= left[d] - 1 /\ left'[d] \in Nat
    BY <1>1, ScheduleTypes, ScheduleConstants
  <2>2. left[d] + e >= ListenTime
    BY <1>7 DEF Hears
  <2>3. left'[d] + (e + 1) >= ListenTime
    BY <2>1, <2>2, ScheduleConstants
  <2> QED BY <1>1, <1>3, <1>7, <2>3 DEF Hears
<1>8. ASSUME step = "initiate"
      PROVE  HalfSent'
  <2>p. PICK p \in Schedule!Pairs : p = Head(pairs)
    BY ScheduleTypes
  <2>1. /\ wait <= Lead /\ p[2] \in Schedule!Member
        /\ Waits(p[2], "listen", p, serial, Lead - wait) \/ Hears(p[2], p, serial, Lead - wait)
        /\ \A o \in Schedule!Member \ {p[2]} : Free(o)
    BY <1>8, <2>p, PairMembers DEF ScheduleInv, HalfSent
  <2>2. Lead - wait \in Nat /\ Lead - wait' = (Lead - wait) + 1 /\ wait' <= Lead
    BY <1>1, <2>1, ScheduleTypes, ScheduleConstants
  <2>3. Waits(p[2], "listen", p, serial, Lead - wait)
          => Waits(p[2], "listen", p, serial, Lead - wait)'
    <3> SUFFICES ASSUME Waits(p[2], "listen", p, serial, Lead - wait)
                 PROVE  Waits(p[2], "listen", p, serial, Lead - wait)'
      OBVIOUS
    <3>1. PICK e \in Nat : e = Lead - wait
      BY <2>2
    <3>2. PICK f : f = Lead - wait' /\ f = e + 1
      BY <2>2, <3>1
    <3>3. Waits(p[2], "listen", p, serial, e)
      BY <3>1
    <3>n. PICK n : n = serial
      OBVIOUS
    <3>4. Waits(p[2], "listen", p, n, f)'
      BY <1>6, <2>1, <3>n, <3>2, <3>3
    <3> QED BY <1>1, <3>n, <3>2, <3>4 DEF Waits
  <2>4. Hears(p[2], p, serial, Lead - wait) => Hears(p[2], p, serial, Lead - wait)'
    <3> SUFFICES ASSUME Hears(p[2], p, serial, Lead - wait)
                 PROVE  Hears(p[2], p, serial, Lead - wait)'
      OBVIOUS
    <3>1. PICK e \in Nat : e = Lead - wait
      BY <2>2
    <3> QED BY <1>1, <1>7, <2>1, <2>2, <3>1 DEF Hears
  <2>5. \A o \in Schedule!Member \ {p[2]} : Free(o)'
    BY <1>5, <2>1
  <2> QED BY <1>1, <2>p, <2>1, <2>2, <2>3, <2>4, <2>5 DEF HalfSent
<1>9. ASSUME NEW p \in Schedule!Pairs, NEW n, NEW e \in Nat, BothSent(p, n, e)
      PROVE  BothSent(p, n, e + 1)'
  <2>1. p[1] \in Schedule!Member /\ p[2] \in Schedule!Member
    BY PairMembers
  <2>2. wait' + (e + 1) >= PairDelay
    BY <1>1, <1>9, ScheduleTypes, ScheduleConstants DEF BothSent
  <2>3. Waits(p[1], "initiate", p, n, e + 1)'
    BY <1>6, <1>9, <2>1 DEF BothSent, Waits
  <2>4. Hears(p[2], p, n, Lead + (e + 1))'
    <3>1. PICK f \in Nat : f = Lead + e
      BY ScheduleConstants
    <3>2. Hears(p[2], p, n, f) /\ f + 1 = Lead + (e + 1)
      BY <1>9, <3>1, ScheduleConstants DEF BothSent
    <3> QED BY <1>7, <2>1, <3>2 DEF Hears
  <2>5. \A o \in Schedule!Member \ {p[1], p[2]} : Free(o)'
    BY <1>5, <1>9 DEF BothSent
  <2> QED BY <2>2, <2>3, <2>4, <2>5 DEF BothSent
<1>10. Schedule!TypeOK' /\ \A d \in Schedule!Member : rest'[d] <= CheckInterval
  <2>1. ASSUME NEW d \in Schedule!Member
        PROVE  inbox'[d] \in Seq(Schedule!Command)
    <3> DEFINE next(i) == [inbox[d][i] EXCEPT !.due = IF @ > 0 THEN @ - 1 ELSE 0]
    <3>1. PICK k \in Nat : k = Len(inbox[d])
      BY ScheduleTypes
    <3>2. ASSUME NEW i \in 1 .. k
          PROVE  next(i) \in Schedule!Command
      <4>1. inbox[d][i] \in Schedule!Command
        BY <3>1, ScheduleTypes
      <4> QED BY <4>1, ScheduleConstants DEF Schedule!Command
    <3> HIDE DEF next
    <3>3. [i \in 1 .. k |-> next(i)] \in Seq(Schedule!Command)
      BY <3>2, IsASeq
    <3>4. inbox'[d] = [i \in 1 .. k |-> next(i)]
      BY <1>2, <3>1 DEF next
    <3> QED BY <3>3, <3>4
  <2>2. inbox' \in [Schedule!Member -> Seq(Schedule!Command)]
    BY <1>2, <2>1
  <2>3. rest' \in [Schedule!Member -> 0 .. CheckInterval]
    BY <1>1, ScheduleTypes, ScheduleConstants
  <2>4. left' \in [Schedule!Member -> 0 .. ListenTime]
    BY <1>1, ScheduleTypes, ScheduleConstants
  <2>5. wait' \in Nat
    BY <1>1, ScheduleTypes
  <2>6. Undisturbed'
    BY <1>1, <2>2, <2>3, <2>4, <2>5, ScheduleTypes DEF Undisturbed
  <2> QED BY <2>6, UndisturbedTypes
<1>11. step = "listen" =>
         \/ \A d \in Schedule!Member : Free(d)'
         \/ \E p \in Schedule!Pairs : \E n \in 0 .. SerialMod - 1 : \E e \in Nat : BothSent(p, n, e)'
  <2> SUFFICES ASSUME NEW p \in Schedule!Pairs, NEW n \in 0 .. SerialMod - 1, NEW e \in Nat,
                      BothSent(p, n, e)
               PROVE  \E f \in Nat : BothSent(p, n, f)'
    BY <1>5 DEF ScheduleInv
  <2>1. e + 1 \in Nat
    OBVIOUS
  <2> QED BY <1>9, <2>1
<1> QED BY <1>1, <1>8, <1>10, <1>11, ScheduleTypes DEF ScheduleInv

LEMMA ScheduleStep ==
  ASSUME MaxFaults = 0, ScheduleInv, [Schedule!Next]_scheduleVars
  PROVE  ScheduleInv'
<1>1. ASSUME UNCHANGED scheduleVars
      PROVE  ScheduleInv'
  <2>1. UNCHANGED <<step, wait, pairs, serial, inbox, rest, heard, left, faults, since>>
    BY <1>1 DEF scheduleVars
  <2>2. Schedule!TypeOK'
    BY <2>1 DEF ScheduleInv, Schedule!TypeOK
  <2>3. /\ HalfSent => HalfSent'
        /\ \A d : Free(d) => Free(d)'
        /\ \A p, n, e : BothSent(p, n, e) => BothSent(p, n, e)'
    BY <2>1 DEF HalfSent, BothSent, Free, Waits, Hears
  <2> QED BY <2>1, <2>2, <2>3 DEF ScheduleInv
<1>2. ASSUME NEW d \in Schedule!Member, Schedule!ListenTimesOut(d)
      PROVE  FALSE
  BY <1>2, StillListens, ScheduleTypes DEF Schedule!ListenTimesOut
<1> QED BY <1>1, <1>2, SendListenStep, SendInitiateStep, TickStep, IdleStep, ListenStep,
           ReportsStep, NoFailure DEF Schedule!Next

LEMMA ScheduleInvariance == MaxFaults = 0 => (Schedule!Spec => []ScheduleInv)
<1> SUFFICES ASSUME MaxFaults = 0
             PROVE  Schedule!Spec => []ScheduleInv
  OBVIOUS
<1>1. Schedule!Init => ScheduleInv
  BY ScheduleInit
<1>2. ScheduleInv /\ [Schedule!Next]_scheduleVars => ScheduleInv'
  BY ScheduleStep
<1> QED BY <1>1, <1>2, PTL DEF Schedule!Spec, Schedule!vars, scheduleVars

LEMMA ScheduleHasNoBacklog ==
  ASSUME ScheduleInv
  PROVE  Schedule!TypeOK /\ Schedule!NoBacklog
<1> SUFFICES ASSUME NEW d \in Schedule!Member
             PROVE  Len(inbox[d]) + (IF heard[d] = Schedule!None THEN 0 ELSE 1) <= 1
  BY DEF ScheduleInv, Schedule!NoBacklog
<1>1. \/ Free(d)
      \/ \E code, p, n, e : Waits(d, code, p, n, e)
      \/ \E p, n, e : Hears(d, p, n, e)
  <2>1. CASE step = "initiate"
    BY <2>1 DEF ScheduleInv, HalfSent
  <2>2. CASE step = "listen"
    BY <2>2 DEF ScheduleInv, BothSent
  <2> QED BY <2>1, <2>2, ScheduleTypes
<1>2. CASE Free(d)
  BY <1>2 DEF Free
<1>3. ASSUME NEW code, NEW p, NEW n, NEW e, Waits(d, code, p, n, e)
      PROVE  Len(inbox[d]) + (IF heard[d] = Schedule!None THEN 0 ELSE 1) <= 1
  BY <1>3, OneCommand DEF Waits
<1>4. ASSUME NEW p, NEW n, NEW e, Hears(d, p, n, e)
      PROVE  Len(inbox[d]) + (IF heard[d] = Schedule!None THEN 0 ELSE 1) <= 1
  BY <1>4, CommandIsSome DEF Hears
<1> QED BY <1>1, <1>2, <1>3, <1>4

(* Who stops listening has answered a poll that it was told to expect.     *)
LEMMA ListeningIsAnswered ==
  ASSUME MaxFaults = 0, ScheduleInv, Schedule!Next,
         NEW d \in Schedule!Member, heard[d] # Schedule!None, heard'[d] = Schedule!None
  PROVE  \E s \in Schedule!Member :
           /\ Schedule!InitiateReports(s)
           /\ Schedule!Answering(Head(inbox[s]), {d}) # {}
<1>1. \A o \in Schedule!Member : ~Schedule!ListenTimesOut(o) /\ ~Schedule!InitiateFails(o)
  BY StillListens, NoFailure, ScheduleTypes DEF Schedule!ListenTimesOut
<1>2. ASSUME NEW o \in Schedule!Member, Schedule!Listen(o)
      PROVE  FALSE
  <2>1. heard' = [heard EXCEPT ![o] = Head(inbox[o])] /\ Schedule!Takes(o, "listen")
    BY <1>2 DEF Schedule!Listen
  <2>2. PICK c \in Schedule!Command : inbox[o] = <<c>>
    BY <2>1, WhoListens DEF Waits
  <2>3. heard'[o] = c
    BY <2>1, <2>2, OneCommand, ScheduleTypes
  <2> QED BY <2>1, <2>3, CommandIsSome, ScheduleTypes
<1>3. PICK s \in Schedule!Member : Schedule!InitiateReports(s)
  BY <1>1, <1>2 DEF Schedule!Next, Schedule!SendListen, Schedule!SendInitiate, Schedule!Tick,
                    Schedule!Idle
<1>4. Schedule!Takes(s, "initiate")
  BY <1>3 DEF Schedule!InitiateReports, Schedule!Exchange
<1>5. PICK c \in Schedule!Command :
        /\ inbox[s] = <<c>> /\ Schedule!Listening = {c.pair[2]}
        /\ heard[c.pair[2]].pair = c.pair
  BY <1>4, ExchangeMeets
<1>6. d = c.pair[2] /\ Head(inbox[s]) = c
  BY <1>5, OneCommand DEF Schedule!Listening
<1>7. d \in Schedule!Answering(Head(inbox[s]), {d})
  BY <1>5, <1>6 DEF Schedule!Answering
<1> QED BY <1>3, <1>7

(* What is measured is measured with whom it was asked for.                *)
LEMMA ReportsThePair ==
  ASSUME ScheduleInv, NEW d \in Schedule!Member, Schedule!InitiateReports(d)
  PROVE  LET c == Head(inbox[d]) IN
         heard[c.pair[2]] # Schedule!None /\ heard[c.pair[2]].serial = c.serial
<1>1. Schedule!Takes(d, "initiate")
  BY DEF Schedule!InitiateReports, Schedule!Exchange
<1>2. PICK c \in Schedule!Command :
        /\ inbox[d] = <<c>> /\ heard[c.pair[2]] \in Schedule!Command
        /\ heard[c.pair[2]].serial = c.serial
  BY <1>1, ExchangeMeets
<1> QED BY <1>2, OneCommand, CommandIsSome

(* The delays of the script suffice where the network does not fail, for   *)
(* any number of devices and any delays that fit: the two commands of each *)
(* pair find their devices free, the target listens when it is polled and  *)
(* answers, and by the next pair nothing is left to do.                    *)
THEOREM DelaysDoSuffice == MaxFaults = 0 => (Schedule!Spec => DelaysSuffice)
<1> SUFFICES ASSUME MaxFaults = 0
             PROVE  Schedule!Spec => DelaysSuffice
  OBVIOUS
<1>1. Schedule!Spec => []ScheduleInv
  BY ScheduleInvariance
<1>2. ScheduleInv => Schedule!TypeOK /\ Schedule!NoBacklog
  BY ScheduleHasNoBacklog
<1>3. ScheduleInv /\ [Schedule!Next]_(Schedule!vars) =>
        [(\E d \in Schedule!Member : Schedule!InitiateFails(d)) => since' <= Grace]_(Schedule!vars)
  BY NoFailure
<1>4. ScheduleInv /\ [Schedule!Next]_(Schedule!vars) =>
        [\A d \in Schedule!Member :
           heard[d] # Schedule!None /\ heard'[d] = Schedule!None /\ since' > Grace =>
             \E s \in Schedule!Member :
               Schedule!InitiateReports(s)
                 /\ Schedule!Answering(Head(inbox[s]), {d}) # {}]_(Schedule!vars)
  BY ListeningIsAnswered
<1>5. ScheduleInv /\ [Schedule!Next]_(Schedule!vars) =>
        [\A d \in Schedule!Member : Schedule!InitiateReports(d) =>
           LET c == Head(inbox[d]) IN
           heard[c.pair[2]] # Schedule!None /\ heard[c.pair[2]].serial = c.serial]_(Schedule!vars)
  BY ReportsThePair
<1>6. Schedule!Spec => Schedule!FailsInTheWake
  BY <1>1, <1>3, PTL DEF Schedule!Spec, Schedule!FailsInTheWake
<1>7. Schedule!Spec => Schedule!HeardInTime
  BY <1>1, <1>4, PTL DEF Schedule!Spec, Schedule!HeardInTime
<1>8. Schedule!Spec => Schedule!SamePair
  BY <1>1, <1>5, PTL DEF Schedule!Spec, Schedule!SamePair
<1> QED BY <1>1, <1>2, <1>6, <1>7, <1>8, PTL DEF DelaysSuffice
=============================================================================
