------------------------------ MODULE Endpoint ------------------------------
(***************************************************************************)
(* The server's endpoint, from the .env file through the build's macros    *)
(* and the firmware's client to a path that the server's route matches. A  *)
(* text is a sequence of pieces: a blank, a slash, "://", or a name, of    *)
(* which "WS" is "ws" in capitals. The server under test has the same text *)
(* as its ADDRESS.                                                         *)
(***************************************************************************)
EXTENDS Integers, Sequences, SequencesExt, FiniteSetsExt

CONSTANTS MaxLength, MaxPort  \* bound of a text's length; the largest port, 65535

EndpointAssumption == MaxLength \in Nat /\ MaxPort \in Nat \ {0}

VARIABLES
  env,      \* .env: [scheme, host, path, port], -1 for a port that is no numeral
  built,    \* whether the loader let the build go on
  at,       \* "build", "setup", "run", "halted"
  request   \* <<scheme, path>> of the connection, <<>> for none

vars == <<env, built, at, request>>

Texts(pieces) == UNION {[1 .. n -> pieces] : n \in 0 .. MaxLength}

(* Without the blanks at both ends.                                        *)
Trim(t) ==
  LET words == {i \in DOMAIN t : t[i] # " "}
  IN  IF words = {} THEN <<>> ELSE SubSeq(t, Min(words), Max(words))

EndsWith(t, p) == t # <<>> /\ t[Len(t)] = p
LowerCase(t) == [i \in DOMAIN t |-> IF t[i] = "WS" THEN "ws" ELSE t[i]]
WithoutEnd(t, p) == IF EndsWith(t, p) THEN Front(t) ELSE t

-----------------------------------------------------------------------------
(* load_env.py. A value was stripped when the file was read, but between   *)
(* quotes it may still begin or end with a blank.                          *)

ReadScheme(t) == WithoutEnd(LowerCase(Trim(t)), "://")
Supported(scheme) == scheme \in {<<"ws">>, <<"wss">>}
ReadPort(n) == IF n \in 1 .. MaxPort THEN n ELSE 0

-----------------------------------------------------------------------------
(* wsclient_impl.cpp.                                                      *)

NormalizeScheme(t) == WithoutEnd(LowerCase(Trim(t)), "://")

NormalizePath(t) ==
  LET n == Trim(t)
  IN  IF n = <<>> THEN <<"/">> ELSE IF n[1] # "/" THEN <<"/">> \o n ELSE n

(* Mutant: a slash is put in always.                                       *)
BuildDevicePath_Slash(path) == path \o <<"/", "id">>

BuildDevicePath(path) == (IF EndsWith(path, "/") THEN path ELSE path \o <<"/">>) \o <<"id">>

-----------------------------------------------------------------------------
(* uwb_server_test.py.                                                     *)

NormalizeAddress(t) ==
  LET n == NormalizePath(t) IN IF Len(n) > 1 THEN WithoutEnd(n, "/") ELSE n
WebsocketRoute(t) ==
  IF NormalizeAddress(t) = <<"/">> THEN <<"/", "id">>
  ELSE NormalizeAddress(t) \o <<"/", "id">>

-----------------------------------------------------------------------------
Init ==
  /\ env \in [scheme : Texts({" ", "://", "ws", "WS", "http"}),
              host : {t \in Texts({" ", "name"}) : Len(t) < 3},
              path : {<<>>}, port : -1 .. MaxPort + 1]
     \cup [scheme : {<<"wss">>}, host : {<<"name">>}, path : Texts({" ", "/", "a"}), port : {1}]
  /\ built = FALSE /\ at = "build" /\ request = <<>>

Build ==
  /\ at = "build"
  /\ built' = (Supported(ReadScheme(env.scheme)) /\ ReadPort(env.port) # 0)
  /\ at' = IF built' THEN "setup" ELSE "halted"
  /\ UNCHANGED <<env, request>>

(* initInfrastructures halts when there is no host or no port.             *)
Setup ==
  /\ at = "setup"
  /\ at' = IF env.host = <<>> \/ env.port % (MaxPort + 1) = 0 THEN "halted" ELSE "run"
  /\ UNCHANGED <<env, built, request>>

(* sendConnectRequest, given the scheme as the loader read it.             *)
Usable == Supported(NormalizeScheme(ReadScheme(env.scheme))) /\ Trim(env.host) # <<>>

Connect ==
  /\ at = "run" /\ request = <<>>
  /\ Usable
  /\ request' = <<NormalizeScheme(ReadScheme(env.scheme)), BuildDevicePath(NormalizePath(env.path))>>
  /\ UNCHANGED <<env, built, at>>

(* It refuses, at every attempt.                                           *)
Refuse ==
  /\ at = "run"
  /\ ~Usable
  /\ UNCHANGED vars

Done == (at = "halted" \/ request # <<>>) /\ UNCHANGED vars

Next == Build \/ Setup \/ Connect \/ Refuse \/ Done

Spec == Init /\ [][Next]_vars /\ WF_vars(Next)

-----------------------------------------------------------------------------
(* Properties.                                                             *)

(* What the loader lets through and setup accepts, the client can use, but *)
(* for a host of blanks: setup finds it not empty, the client does.        *)
BuiltConnects == built /\ Trim(env.host) # <<>> ~> request # <<>>

(* The path that the client asks for is the server's route, but for a path *)
(* of two slashes, which the server takes for one and the client does not. *)
PathsAgree ==
  request # <<>> /\ Trim(env.path) # <<"/", "/">> => request[2] = WebsocketRoute(env.path)

=============================================================================
