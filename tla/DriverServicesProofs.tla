------------------------- MODULE DriverServicesProofs -------------------------
(***************************************************************************)
(* Services of the DW3000 driver. Programming its one-time programmable    *)
(* memory, for words of any width, any addresses of 11 bits, and any number *)
(* of calls and restarts, burns nothing that it was not asked for, though  *)
(* the programming mode ends too early. The diagnostics of a frame, for    *)
(* any masks and any number of frames, are of the frame the host is at:    *)
(* with one buffer because all the words read were written with the last   *)
(* frame, with two because the host and the chip go through the buffers in *)
(* the same order.                                                         *)
(***************************************************************************)
EXTENDS DriverServices, TLAPS

(* The chip has been given the low octet of the address, and the value.    *)
Latched ==
  /\ pc \in {"data", "start", "stop"} => latch.address = arg.address % 256
  /\ pc \in {"start", "stop"} => latch.data = arg.data
  /\ burning => pc = "stop"

(* The supply is raised from the beginning of a call to the end of the     *)
(* programming mode, and what it was is kept.                              *)
Supply ==
  /\ pc = "idle" => ldo = "tuned"
  /\ pc # "idle" => saved = "tuned"
  /\ pc = "verify" => ldo = "tuned"

(* Only bits of the value are added to the word.                           *)
Added ==
  pc # "idle" => otp[arg.address] \subseteq (before[arg.address] \cup arg.data)

Returned ==
  /\ pc # "idle" => result = "none"
  /\ result = "DWT_SUCCESS" => otp[arg.address] = arg.data

OtpInv == TypeOK /\ Latched /\ Supply /\ Added /\ Returned

-----------------------------------------------------------------------------
(* A call reaches the word of its address and that of its low octet.       *)
LEMMA Reached ==
  ASSUME NEW a \in Addresses
  PROVE  a \in Words /\ a % 256 \in Words /\ a % 256 \in 0 .. 255
<1>1. {a, a + 1, a % 256} \subseteq Words
  BY DEF Words
<1>2. a \in 0 .. 2046
  BY OtpAssumption
<1>3. a % 256 \in 0 .. 255
  BY <1>2
<1> QED BY <1>1, <1>3

LEMMA OtpInit == Init => OtpInv
<1> SUFFICES ASSUME Init PROVE OtpInv
  OBVIOUS
<1>1. {} \in Word /\ otp \in [Words -> Word] /\ before = otp
  BY DEF Init, Blank, Word
<1>2. /\ latch \in [address : 0 .. 255, data : Word]
      /\ arg \in [address : Addresses \cup {0}, data : Word]
  BY <1>1 DEF Init
<1>3. TypeOK
  BY <1>1, <1>2, Zenon DEF Init, TypeOK
<1> QED BY <1>3 DEF Init, OtpInv, Latched, Supply, Added, Returned

(* The steps of a call up to the programming mode.                         *)
LEMMA CallSteps ==
  ASSUME OtpInv,
         \/ \E a \in Addresses, v \in Word : Begin(a, v)
         \/ SendAddress \/ SendData \/ Start
  PROVE  OtpInv'
<1> USE DEF OtpInv, chip, call, TypeOK, Latched, Supply, Added, Returned
<1>1. CASE \E a \in Addresses, v \in Word : Begin(a, v)
  <2> PICK a \in Addresses, v \in Word : Begin(a, v)
    BY <1>1
  <2>1. /\ arg' = [address |-> a, data |-> v] /\ before' = otp /\ otp' = otp /\ latch' = latch
        /\ burning' = burning /\ saved' = "tuned" /\ ldo' = "max" /\ cfg' = "program"
        /\ pc' = "address" /\ result' = "none" /\ pc = "idle"
    BY DEF Begin
  <2>2. arg' \in [address : Addresses \cup {0}, data : Word] /\ arg'.address \in Addresses
    BY <2>1
  <2> QED BY <2>1, <2>2
<1>2. CASE SendAddress
  <2>1. arg.address \in Addresses
    BY <1>2 DEF SendAddress
  <2> DEFINE low == arg.address % 256
  <2>2. low \in 0 .. 255
    BY <2>1, Reached
  <2>3. latch' = [latch EXCEPT !.address = low]
    BY <1>2 DEF SendAddress
  <2> HIDE DEF low
  <2>4. latch' \in [address : 0 .. 255, data : Word] /\ latch'.address = low
    BY <2>2, <2>3
  <2> QED BY <1>2, <2>4 DEF SendAddress, low
<1>3. CASE SendData
  BY <1>3, SMTT(30) DEF SendData
<1>4. CASE Start
  BY <1>4, SMTT(30) DEF Start
<1> QED BY <1>1, <1>2, <1>3, <1>4, SMTT(30)

(* The end of the programming mode, and the verification.                  *)
LEMMA LastSteps ==
  ASSUME OtpInv, Stop \/ Verify
  PROVE  OtpInv'
<1> USE DEF OtpInv, call, TypeOK, Latched, Supply, Added, Returned
<1>1. CASE Stop
  BY <1>1, ZenonT(30) DEF Stop
<1>2. CASE Verify
  BY <1>2 DEF Verify, Compare, _dwt_otpread
<1> QED BY <1>1, <1>2, SMTT(30)

(* A bit of the value is burnt in the word at the low octet.               *)
LEMMA BurnStep ==
  ASSUME OtpInv, Burn
  PROVE  /\ OtpInv'
         /\ \A a \in DOMAIN otp : otp'[a] # otp[a] =>
              a = arg.address % 256 /\ otp'[a] \subseteq otp[a] \cup arg.data
<1> USE DEF OtpInv
<1> DEFINE low == arg.address % 256
<1>1. pc = "stop" /\ latch.address = low /\ latch.data = arg.data
      /\ result = "none" /\ arg.address \in Addresses
  BY DEF Burn, TypeOK, Latched, Returned
<1>2. arg.address \in Words /\ low \in Words
  BY <1>1, Reached
<1> HIDE DEF low
<1>3. PICK b \in latch.data \ otp[latch.address] :
        otp' = [otp EXCEPT ![latch.address] = otp[latch.address] \cup {b}]
  BY DEF Burn
<1>4. /\ otp' \in [Words -> Word]
      /\ otp'[low] = otp[low] \cup {b}
      /\ \A a \in DOMAIN otp : otp'[a] # otp[a] => a = low
  <2> DEFINE w == otp[latch.address] \cup {b}
  <2>1. otp \in [Words -> Word] /\ arg.data \in Word
    BY DEF TypeOK
  <2>2. w \in Word
    BY <1>1, <1>2, <1>3, <2>1, SMTT(30) DEF Word
  <2>3. w = otp[low] \cup {b} /\ otp' = [otp EXCEPT ![low] = w]
    BY <1>1, <1>3
  <2> HIDE DEF w
  <2> QED BY <1>1, <1>2, <2>1, <2>2, <2>3
<1>5. TypeOK' /\ Latched' /\ Supply'
  BY <1>4, ZenonT(30) DEF Burn, call, TypeOK, Latched, Supply
<1>6. UNCHANGED <<arg, before, pc, result>> /\ b \in arg.data
  BY <1>1, <1>3 DEF Burn, call
<1>7. \A a \in DOMAIN otp : otp'[a] # otp[a] =>
        a = low /\ otp'[a] \subseteq otp[a] \cup arg.data
  BY <1>4, <1>6, SMTT(30)
<1>8. DOMAIN otp = Words
  BY DEF TypeOK
<1>9. Added' /\ Returned'
  <2>1. otp'[arg.address] \subseteq (before[arg.address] \cup arg.data)
    BY <1>1, <1>2, <1>7, <1>8, SMTT(30) DEF Added
  <2> QED BY <1>1, <1>6, <2>1 DEF Added, Returned
<1> QED BY <1>5, <1>7, <1>9, SMTT(30) DEF low

(* Reading, and a restart.                                                 *)
LEMMA OtherSteps ==
  ASSUME OtpInv,
         \/ \E a \in Addresses, v \in Word : dwt_otpverify(a, v)
         \/ \E a \in Addresses : dwt_otpread(a, 2)
         \/ Restart
  PROVE  OtpInv'
<1> USE DEF OtpInv, call, TypeOK, Latched, Supply, Added, Returned
<1>1. CASE \E a \in Addresses, v \in Word : dwt_otpverify(a, v)
  BY <1>1 DEF dwt_otpverify, Compare, _dwt_otpread
<1>2. CASE \E a \in Addresses : dwt_otpread(a, 2)
  BY <1>2, SMTT(30) DEF dwt_otpread
<1>3. CASE Restart
  <2>1. latch' = [address |-> 0, data |-> {}] /\ {} \in Word
    BY <1>3 DEF Restart, Word
  <2>2. latch' \in [address : 0 .. 255, data : Word]
    BY <2>1
  <2> QED BY <1>3, <2>2 DEF Restart
<1> QED BY <1>1, <1>2, <1>3, SMTT(30)

LEMMA OtpStep == OtpInv /\ [Next]_vars => OtpInv'
<1> SUFFICES ASSUME OtpInv, [Next]_vars PROVE OtpInv'
  OBVIOUS
<1>1. CASE Next
  BY <1>1, CallSteps, LastSteps, BurnStep, OtherSteps, SMTT(30) DEF Next
<1>2. CASE UNCHANGED vars
  BY <1>2 DEF vars, OtpInv, TypeOK, Latched, Supply, Added, Returned
<1> QED BY <1>1, <1>2

LEMMA OtpAlways == Spec => []OtpInv
  BY OtpInit, OtpStep, PTL DEF Spec

-----------------------------------------------------------------------------
(* Between calls the supply is as tuned and nothing is programmed, and     *)
(* success is only returned for a word that holds the value.               *)
THEOREM OtpSafe == Spec => [](AtRest /\ SuccessIsTrue)
<1>1. OtpInv => AtRest /\ SuccessIsTrue
  BY DEF OtpInv, Latched, Supply, Returned, AtRest, SuccessIsTrue
<1> QED BY <1>1, OtpAlways, PTL

(* No word changes but the one at the low octet of the call's address, and *)
(* that one gains only bits of the call's value.                           *)
THEOREM OtpBurnsOnlyAsked == Spec => OnlyAsked
<1>1. OtpInv /\ [Next]_vars =>
        [\A a \in DOMAIN otp : otp'[a] # otp[a] =>
           a = arg.address % 256 /\ otp'[a] \subseteq otp[a] \cup arg.data]_otp
  <2> SUFFICES ASSUME OtpInv, Next, otp' # otp
               PROVE  \A a \in DOMAIN otp : otp'[a] # otp[a] =>
                        a = arg.address % 256 /\ otp'[a] \subseteq otp[a] \cup arg.data
    BY DEF vars
  <2>1. Burn
    BY DEF Next, Begin, SendAddress, SendData, Start, Stop, Verify, dwt_otpverify,
           dwt_otpread, Restart
  <2> QED BY <2>1, BurnStep
<1> QED BY <1>1, OtpAlways, PTL DEF Spec, OnlyAsked

(* What a failed call leaves in a word that had no other bits is part of   *)
(* the value, however early the programming mode ended.                    *)
THEOREM OtpMayBeRepeated == Spec => Repeatable
<1>1. OtpInv /\ [Next]_vars =>
        [Verify /\ result' = "DWT_ERROR" /\ before[arg.address] \subseteq arg.data
           => otp[arg.address] \subseteq arg.data]_vars
  <2> SUFFICES ASSUME OtpInv, Verify, before[arg.address] \subseteq arg.data
               PROVE  otp[arg.address] \subseteq arg.data
    OBVIOUS
  <2>1. pc # "idle"
    BY DEF Verify
  <2> QED BY <2>1 DEF OtpInv, Added
<1> QED BY <1>1, OtpAlways, PTL DEF Spec, Repeatable

(* What a call reports of its word is true, nothing else is burnt, and     *)
(* what is left unfinished can be finished, through every restart.         *)
THEOREM OtpWordsKept == Spec => WordsKept
<1>1. OtpInv => TypeOK
  BY DEF OtpInv
<1> QED
  BY <1>1, OtpAlways, OtpSafe, OtpBurnsOnlyAsked, OtpMayBeRepeated, PTL DEF WordsKept

-----------------------------------------------------------------------------
(* The diagnostics: the words in which the octets of the fields are.       *)
LEMMA CommonPlaces ==
  ASSUME NEW name \in One!Common, NEW i \in DOMAIN One!CommonField(name)
  PROVE  One!WordOf(One!CommonField(name)[i]) \in
           One!Words("TDOA", 0, 1) \cup One!Words("CIA_DIAG", 0, IF name = "ciaDiag1" THEN 1 ELSE 0)
<1>1. CASE name = "tdoa"
  <2>1. One!CommonField(name) = One!At(<<"TDOA", 0>>, <<0, 1, 2, 3, 4, 5>>)
    BY <1>1 DEF One!CommonField
  <2>2. i \in 1 .. 6 /\ One!WordOf(One!CommonField(name)[i]) = <<"TDOA", 0 + (<<0, 1, 2, 3, 4, 5>>[i] \div 4)>>
    BY <2>1 DEF One!At, One!WordOf
  <2>3. <<0, 1, 2, 3, 4, 5>>[i] \div 4 \in 0 .. 1
    BY <2>2
  <2> QED BY <2>2, <2>3 DEF One!Words
<1>2. CASE name = "pdoa"
  BY <1>2 DEF One!CommonField, One!At, One!WordOf, One!Words
<1>3. CASE name = "xtalOffset"
  BY <1>3 DEF One!CommonField, One!At, One!WordOf, One!Words, One!Short
<1>4. CASE name = "ciaDiag1"
  BY <1>4 DEF One!CommonField, One!At, One!WordOf, One!Words, One!Long
<1> QED BY <1>1, <1>2, <1>3, <1>4 DEF One!Common

LEMMA TimedPlaces ==
  ASSUME NEW s \in One!Signals, NEW name \in One!Timed, NEW i \in DOMAIN One!Defined(<<s, name>>)
  PROVE  One!WordOf(One!Defined(<<s, name>>)[i]) \in One!Words(One!TOA(s), 0, 1)
<1> s # "both"
  BY DEF One!Signals
<1>1. CASE name = "RxTime"
  <2>1. One!Defined(<<s, name>>) = One!At(<<One!TOA(s), 0>>, <<0, 1, 2, 3, 4>>)
    BY <1>1 DEF One!Defined, One!RxTime
  <2>2. i \in 1 .. 5 /\ One!WordOf(One!Defined(<<s, name>>)[i]) = <<One!TOA(s), 0 + (<<0, 1, 2, 3, 4>>[i] \div 4)>>
    BY <2>1 DEF One!At, One!WordOf
  <2>3. <<0, 1, 2, 3, 4>>[i] \div 4 \in 0 .. 1
    BY <2>2
  <2> QED BY <2>2, <2>3 DEF One!Words
<1>2. CASE name = "POA"
  <2>1. One!Defined(<<s, name>>) = One!At(<<One!TOA(s), 1>>, <<2, 1>>)
    BY <1>2 DEF One!Defined
  <2> QED BY <2>1 DEF One!At, One!WordOf, One!Words
<1>3. CASE name = "RxStatus"
  <2>1. One!Defined(<<s, name>>) = One!At(<<One!TOA(s), 1>>, IF s = "IP" THEN <<3>> ELSE <<3, 2>>)
    BY <1>3 DEF One!Defined
  <2> QED BY <2>1 DEF One!At, One!WordOf, One!Words
<1> QED BY <1>1, <1>2, <1>3 DEF One!Timed

LEMMA DetailPlaces ==
  ASSUME NEW s \in One!Signals, NEW name \in One!Details \cup {"AccumCount"},
         NEW i \in DOMAIN One!Defined(<<s, name>>)
  PROVE  One!WordOf(One!Defined(<<s, name>>)[i]) \in
           One!Words(One!DIAG(s), IF name = "AccumCount" THEN 12 ELSE 0, 12)
<1> One!Defined(<<s, name>>) = One!Detail(s, name)
  BY DEF One!Defined, One!Signals, One!Details
<1>1. \E k \in (IF name = "AccumCount" THEN 12 ELSE 0) .. 12 :
        One!Detail(s, name) \in {One!At(<<One!DIAG(s), k>>, One!Long), One!At(<<One!DIAG(s), k>>, One!Short)}
  BY DEF One!Detail, One!Details
<1> QED BY <1>1 DEF One!At, One!WordOf, One!Words, One!Long, One!Short

(* The words and the fields do not depend on the number of buffers.        *)
LEMMA SameTables ==
  /\ Two!Registers = One!Registers /\ Two!Reduced = One!Reduced
  /\ Two!SwingingSet = One!SwingingSet /\ Two!MidSet = One!MidSet /\ Two!MinSet = One!MinSet
  /\ Two!Fields = One!Fields /\ Two!Signals = One!Signals /\ Two!Timed = One!Timed
  /\ Two!Common = One!Common /\ Two!Details = One!Details
  BY DEF One!Registers, Two!Registers, One!RegistersC, Two!RegistersC, One!RegistersD,
     Two!RegistersD, One!Reduced, Two!Reduced, One!TimeWords, Two!TimeWords, One!Words,
     Two!Words, One!SwingingSet, Two!SwingingSet, One!MidSet, Two!MidSet, One!MinSet,
     Two!MinSet, One!Fields, Two!Fields, One!Signals, Two!Signals, One!Timed, Two!Timed,
     One!Common, Two!Common, One!Details, Two!Details, One!TOA, Two!TOA

LEMMA SameFields == \A f : Two!Defined(f) = One!Defined(f)
  BY DEF One!Defined, Two!Defined, One!CommonField, Two!CommonField, One!RxTime, Two!RxTime,
     One!Detail, Two!Detail, One!At, Two!At, One!TOA, Two!TOA, One!DIAG, Two!DIAG,
     One!Long, Two!Long, One!Short, Two!Short

LEMMA SameOctets ==
  /\ \A at : Two!WordOf(at) = One!WordOf(at)
  /\ \A n, places : Two!OctetsOf(n, places) = One!OctetsOf(n, places)
  BY DEF One!OctetsOf, Two!OctetsOf, One!WordOf, Two!WordOf

LEMMA WordsBetween ==
  ASSUME NEW name, NEW a, NEW b, NEW c, NEW d, c <= a, b <= d,
         a \in Int, b \in Int, c \in Int, d \in Int
  PROVE  One!Words(name, a, b) \subseteq One!Words(name, c, d)
  BY DEF One!Words

(* Where the words of the fields are among those that are read.            *)
LEMMA FieldRegisters ==
  ASSUME NEW f \in One!Fields, NEW i \in DOMAIN One!Defined(f)
  PROVE  /\ One!WordOf(One!Defined(f)[i]) \in One!Registers
         /\ f \in ({"both"} \X One!Common) \cup (One!Signals \X One!Timed)
              => One!WordOf(One!Defined(f)[i]) \in One!Reduced
<1> DEFINE w == One!WordOf(One!Defined(f)[i])
<1>1. CASE f \in {"both"} \X One!Common
  <2>1. PICK name \in One!Common : f = <<"both", name>>
    BY <1>1
  <2>2. One!Defined(f) = One!CommonField(name)
    <3>1. f[1] = "both" /\ f[2] = name /\ f[2] \notin {"RxTime", "POA", "RxStatus"}
      BY <2>1 DEF One!Common
    <3> QED BY <3>1 DEF One!Defined
  <2>3. w \in One!Words("TDOA", 0, 1) \cup One!Words("CIA_DIAG", 0, IF name = "ciaDiag1" THEN 1 ELSE 0)
    BY <2>2, CommonPlaces
  <2>4. w \in One!Reduced
    BY <2>3, WordsBetween DEF One!Reduced
  <2> QED BY <2>4 DEF One!Registers, One!RegistersC
<1>2. CASE f \in One!Signals \X One!Timed
  <2>1. PICK s \in One!Signals, name \in One!Timed : f = <<s, name>>
    BY <1>2
  <2>2. w \in One!Words(One!TOA(s), 0, 1)
    BY <2>1, TimedPlaces
  <2>3. w \in One!Reduced
    BY <2>2 DEF One!Reduced, One!TimeWords
  <2> QED BY <2>3 DEF One!Registers, One!RegistersC
<1>3. CASE f \in One!Signals \X (One!Details \cup {"AccumCount"})
  <2>1. PICK s \in One!Signals, name \in One!Details \cup {"AccumCount"} : f = <<s, name>>
    BY <1>3
  <2>2. w \in One!Words(One!DIAG(s), 0, 12)
    BY <2>1, DetailPlaces, WordsBetween
  <2>3. w \in One!Registers
    BY <2>2 DEF One!Registers, One!RegistersC, One!RegistersD, One!Words, One!Signals, One!DIAG
  <2>4. f \notin ({"both"} \X One!Common) \cup (One!Signals \X One!Timed)
    BY <2>1 DEF One!Signals, One!Details, One!Timed
  <2> QED BY <2>3, <2>4
<1> QED BY <1>1, <1>2, <1>3 DEF One!Fields

LEMMA FieldSets ==
  ASSUME NEW f \in One!Fields, NEW i \in DOMAIN One!Defined(f)
  PROVE  /\ f \in ({"both"} \X (One!Common \ {"ciaDiag1"})) \cup {<<"IP", "AccumCount">>}
              => One!WordOf(One!Defined(f)[i]) \in One!MinSet
         /\ f \in One!Signals \X One!Timed
              => One!WordOf(One!Defined(f)[i]) \in One!MidSet
         /\ One!WordOf(One!Defined(f)[i]) \in One!SwingingSet
<1> DEFINE w == One!WordOf(One!Defined(f)[i])
<1>0. One!MinSet \subseteq One!MidSet /\ One!MidSet \subseteq One!SwingingSet
  BY DEF One!MidSet, One!SwingingSet
<1>1. CASE f \in {"both"} \X One!Common
  <2>1. PICK name \in One!Common : f = <<"both", name>>
    BY <1>1
  <2>2. One!Defined(f) = One!CommonField(name)
    <3>1. f[1] = "both" /\ f[2] = name /\ f[2] \notin {"RxTime", "POA", "RxStatus"}
      BY <2>1 DEF One!Common
    <3> QED BY <3>1 DEF One!Defined
  <2>3. w \in One!Words("TDOA", 0, 1) \cup One!Words("CIA_DIAG", 0, IF name = "ciaDiag1" THEN 1 ELSE 0)
    BY <2>2, CommonPlaces
  <2>4. name # "ciaDiag1" => w \in One!MinSet
    BY <2>3 DEF One!MinSet
  <2>5. w \in One!SwingingSet
    BY <2>3, <1>0 DEF One!MinSet, One!SwingingSet, One!Words
  <2> QED BY <2>1, <2>4, <2>5 DEF One!Signals
<1>2. CASE f \in One!Signals \X One!Timed
  <2>1. PICK s \in One!Signals, name \in One!Timed : f = <<s, name>>
    BY <1>2
  <2>2. w \in One!Words(One!TOA(s), 0, 1)
    BY <2>1, TimedPlaces
  <2>3. w \in One!MidSet
    BY <2>2 DEF One!MidSet, One!TimeWords
  <2>4. f \notin ({"both"} \X (One!Common \ {"ciaDiag1"})) \cup {<<"IP", "AccumCount">>}
    BY <2>1 DEF One!Signals, One!Timed
  <2> QED BY <2>3, <2>4, <1>0
<1>3. CASE f \in One!Signals \X (One!Details \cup {"AccumCount"})
  <2>1. PICK s \in One!Signals, name \in One!Details \cup {"AccumCount"} : f = <<s, name>>
    BY <1>3
  <2>2. w \in One!Words(One!DIAG(s), 0, 12)
    BY <2>1, DetailPlaces, WordsBetween
  <2>3. w \in One!SwingingSet
    BY <2>2, <1>0 DEF One!SwingingSet, One!MinSet, One!Words, One!Signals, One!DIAG
  <2>4. f = <<"IP", "AccumCount">> => w \in One!MinSet
    <3> SUFFICES ASSUME f = <<"IP", "AccumCount">> PROVE w \in One!MinSet
      OBVIOUS
    <3>1. s = "IP" /\ name = "AccumCount"
      BY <2>1
    <3>2. w \in One!Words("IP_DIAG", 12, 12)
      BY <3>1, <2>1, DetailPlaces DEF One!DIAG
    <3> QED BY <3>2 DEF One!MinSet
  <2>5. f \notin {"both"} \X One!Common /\ f \notin One!Signals \X One!Timed
    BY <2>1 DEF One!Signals, One!Details, One!Timed
  <2> QED BY <2>3, <2>4, <2>5
<1> QED BY <1>1, <1>2, <1>3 DEF One!Fields

-----------------------------------------------------------------------------
(* One receive buffer: the words that are read are all of the last frame.  *)
(* A mask that has more of them written is set only while no frame is      *)
(* held.                                                                   *)
Logged1 == IF "ALL" \in cia_diagnostic THEN One!Registers ELSE One!Reduced
OneInv ==
  /\ One!TypeOK /\ One!FieldsTrue /\ One!ReadingsTrue
  /\ full = {} /\ fills = 0
  /\ DOMAIN file = One!Registers
  /\ held[0] # 0 => \A w \in Logged1 : file[w] = held[0]

LEMMA SingleWidth ==
  ASSUME NEW f \in One!Fields
  PROVE  /\ DOMAIN One!SingleField(f) = DOMAIN One!Defined(f)
         /\ f \notin One!Misread => One!SingleField(f) = One!Defined(f)
<1>1. CASE f = <<"STS1", "RxStatus">>
  <2>1. One!Defined(f) = One!At(<<One!TOA("STS1"), 1>>, <<3, 2>>)
    BY <1>1 DEF One!Defined
  <2> QED BY <1>1, <2>1 DEF One!SingleField, One!Misread, One!At
<1>2. CASE f # <<"STS1", "RxStatus">>
  BY <1>2 DEF One!SingleField
<1> QED BY <1>1, <1>2

LEMMA OneFields ==
  ASSUME OneInv, One!dwt_readdiagnostics
  PROVE  OneInv'
<1> USE DEF OneInv
<1> DEFINE read == IF "ALL" \in cia_diagnostic THEN One!Registers ELSE One!Reduced
<1>1. /\ of' = <<"diag", held[0]>> /\ held[0] # 0
      /\ UNCHANGED <<file, set, held, received, full, fills, pointed, enabled,
                     cia_diagnostic, dblbuffon, got>>
      /\ diag' = [f \in One!Fields |-> IF f \notin One!SingleFilled THEN diag[f] ELSE
                   [i \in DOMAIN One!SingleField(f) |-> One!Octet(read, file, One!SingleField(f)[i])]]
  BY DEF One!dwt_readdiagnostics, One!Valid, One!Now, One!At1, One!chip, One!configured, One!TypeOK
<1>2. One!TypeOK'
  <2>1. of'[2] \in 0 .. received
    BY <1>1 DEF One!TypeOK
  <2>2. ASSUME NEW f \in One!Fields
        PROVE  diag'[f] = <<>> \/ DOMAIN diag'[f] = DOMAIN One!Defined(f)
    <3>1. CASE f \in One!SingleFilled
      <4>1. DOMAIN diag'[f] = DOMAIN One!SingleField(f)
        BY <1>1, <3>1
      <4> QED BY <4>1, SingleWidth
    <3>2. CASE f \notin One!SingleFilled
      BY <1>1, <3>2 DEF One!TypeOK
    <3> QED BY <3>1, <3>2
  <2> QED BY <1>1, <2>1, <2>2 DEF One!TypeOK
<1>3. One!FieldsTrue'
  <2> SUFFICES ASSUME NEW f \in One!Filled \ One!Misread
               PROVE  diag'[f] = One!OctetsOf(held[0], One!Defined(f))
    BY <1>1 DEF One!FieldsTrue, One!Filled, One!SetFilled, One!SingleFilled, One!Misread
  <2>1. f \in One!SingleFilled /\ f \in One!Fields
    BY DEF One!Filled, One!TypeOK, One!SingleFilled, One!Fields
  <2>2. diag'[f] = [i \in DOMAIN One!Defined(f) |-> One!Octet(read, file, One!Defined(f)[i])]
    BY <1>1, <2>1, SingleWidth
  <2>3. ASSUME NEW i \in DOMAIN One!Defined(f)
        PROVE  One!Octet(read, file, One!Defined(f)[i])
                 = <<held[0], One!WordOf(One!Defined(f)[i]), One!Defined(f)[i][2] % 4>>
    <3>1. One!WordOf(One!Defined(f)[i]) \in read
      BY <2>1, FieldRegisters DEF One!SingleFilled
    <3>2. file[One!WordOf(One!Defined(f)[i])] = held[0]
      BY <3>1, <1>1 DEF Logged1
    <3> QED BY <3>1, <3>2 DEF One!Octet
  <2> QED BY <2>2, <2>3 DEF One!OctetsOf
<1> QED
  BY <1>1, <1>2, <1>3 DEF One!ReadingsTrue, One!Reading, Logged1

(* A single reading is a field.                                            *)
LEMMA MeantPlaces ==
  ASSUME NEW r \in DOMAIN One!Reading
  PROVE  /\ One!Meant[r] \in ({"both"} \X (One!Common \ {"ciaDiag1"})) \cup (One!Signals \X One!Timed)
         /\ One!Meant[r] \in One!Fields
         /\ r \in {"clockoffset", "pdoa"} => One!Meant[r] \in {"both"} \X (One!Common \ {"ciaDiag1"})
         /\ One!Reading[r] = One!Defined(One!Meant[r])
<1>1. r \in {"clockoffset", "pdoa", "stsstatus", "sts1status", "rxtimestamp_ipatov", "rxtimestamp_sts"}
  BY DEF One!Reading
<1>2. CASE r = "clockoffset"
  <2>1. One!Reading[r] = One!At(<<"CIA_DIAG", 0>>, One!Short) /\ One!Meant[r] = <<"both", "xtalOffset">>
    BY <1>2 DEF One!Reading, One!Meant
  <2>2. One!Defined(<<"both", "xtalOffset">>) = One!At(<<"CIA_DIAG", 0>>, One!Short)
    BY DEF One!Defined, One!CommonField
  <2> QED BY <2>1, <2>2, <1>2 DEF One!Common, One!Fields
<1>3. CASE r = "pdoa"
  <2>1. One!Reading[r] = One!At(<<"TDOA", 1>>, <<3, 2>>) /\ One!Meant[r] = <<"both", "pdoa">>
    BY <1>3 DEF One!Reading, One!Meant
  <2>2. One!Defined(<<"both", "pdoa">>) = One!At(<<"TDOA", 1>>, <<3, 2>>)
    BY DEF One!Defined, One!CommonField
  <2> QED BY <2>1, <2>2, <1>3 DEF One!Common, One!Fields
<1>4. ASSUME NEW s \in {"STS", "STS1"}
      PROVE  One!Status(s) = One!Defined(<<s, "RxStatus">>)
  BY DEF One!Status, One!Defined
<1>5. ASSUME NEW s \in {"STS", "IP"}
      PROVE  One!RxTime(s) = One!Defined(<<s, "RxTime">>)
  BY DEF One!RxTime, One!Defined
<1>6. ASSUME NEW s \in One!Signals, NEW name \in One!Timed
      PROVE  <<s, name>> \in One!Signals \X One!Timed /\ <<s, name>> \in One!Fields
  BY DEF One!Fields
<1>7. CASE r = "stsstatus"
  <2>1. One!Reading[r] = One!Status("STS") /\ One!Meant[r] = <<"STS", "RxStatus">>
    BY <1>7 DEF One!Reading, One!Meant
  <2> QED BY <2>1, <1>4, <1>6, <1>7 DEF One!Signals, One!Timed
<1>8. CASE r = "sts1status"
  <2>1. One!Reading[r] = One!Status("STS1") /\ One!Meant[r] = <<"STS1", "RxStatus">>
    BY <1>8 DEF One!Reading, One!Meant
  <2> QED BY <2>1, <1>4, <1>6, <1>8 DEF One!Signals, One!Timed
<1>9. CASE r = "rxtimestamp_ipatov"
  <2>1. One!Reading[r] = One!RxTime("IP") /\ One!Meant[r] = <<"IP", "RxTime">>
    BY <1>9 DEF One!Reading, One!Meant
  <2> QED BY <2>1, <1>5, <1>6, <1>9 DEF One!Signals, One!Timed
<1>10. CASE r = "rxtimestamp_sts"
  <2>1. One!Reading[r] = One!RxTime("STS") /\ One!Meant[r] = <<"STS", "RxTime">>
    BY <1>10 DEF One!Reading, One!Meant
  <2> QED BY <2>1, <1>5, <1>6, <1>10 DEF One!Signals, One!Timed
<1> QED BY <1>1, <1>2, <1>3, <1>7, <1>8, <1>9, <1>10

LEMMA OneReadings ==
  ASSUME OneInv, NEW r \in DOMAIN One!Reading, One!Read(r)
  PROVE  OneInv'
<1> USE DEF OneInv
<1>1. /\ of' = <<r, held[0]>> /\ held[0] # 0
      /\ UNCHANGED <<file, set, held, received, full, fills, pointed, enabled,
                     cia_diagnostic, dblbuffon, diag>>
      /\ got' = [i \in DOMAIN One!Reading[r] |-> One!Octet(One!Registers, file, One!Reading[r][i])]
  BY DEF One!Read, One!ReadOne, One!Valid, One!Now, One!At1, One!chip, One!configured, One!TypeOK
<1>2. One!TypeOK'
  BY <1>1 DEF One!TypeOK
<1>3. r # "diag"
  BY DEF One!Reading
<1>4. One!ReadingsTrue'
  <2> SUFFICES got' = One!OctetsOf(held[0], One!Defined(One!Meant[r]))
    BY <1>1 DEF One!ReadingsTrue
  <2> DEFINE f == One!Meant[r]
  <2>1. got' = [i \in DOMAIN One!Defined(f) |-> One!Octet(One!Registers, file, One!Defined(f)[i])]
    BY <1>1, MeantPlaces
  <2>2. ASSUME NEW i \in DOMAIN One!Defined(f)
        PROVE  One!Octet(One!Registers, file, One!Defined(f)[i])
                 = <<held[0], One!WordOf(One!Defined(f)[i]), One!Defined(f)[i][2] % 4>>
    <3>1. One!WordOf(One!Defined(f)[i]) \in One!Reduced /\ One!WordOf(One!Defined(f)[i]) \in One!Registers
      BY MeantPlaces, FieldRegisters
    <3>2. file[One!WordOf(One!Defined(f)[i])] = held[0]
      BY <3>1, <1>1 DEF Logged1
    <3> QED BY <3>1, <3>2 DEF One!Octet
  <2> QED BY <2>1, <2>2 DEF One!OctetsOf
<1> QED BY <1>1, <1>2, <1>3, <1>4 DEF One!FieldsTrue, Logged1

(* Steps that read nothing.                                                *)
LEMMA NoneRead ==
  ASSUME of' = One!NoReading \/ of' = Two!NoReading
  PROVE  (One!FieldsTrue /\ One!ReadingsTrue /\ Two!FieldsTrue /\ Two!ReadingsTrue)'
  BY DEF One!NoReading, One!FieldsTrue, One!ReadingsTrue, One!Reading,
     Two!NoReading, Two!FieldsTrue, Two!ReadingsTrue, Two!Reading

LEMMA OneChip ==
  ASSUME OneInv, MaxFrames \in Nat,
         \/ One!Receive \/ One!Sleep \/ One!dwt_setdblrxbuffmode \/ One!dwt_signal_rx_buff_free
         \/ \E mask \in SingleMasks : One!dwt_configciadiag(mask)
  PROVE  OneInv'
<1> USE DEF OneInv, One!TypeOK
<1>1. CASE One!Receive
  <2> DEFINE n == received + 1
  <2>1. /\ received < MaxFrames /\ received' = n /\ of' = One!NoReading
        /\ UNCHANGED <<full, fills, pointed, enabled, dblbuffon, cia_diagnostic, diag, got>>
        /\ file' = [w \in DOMAIN file |-> IF w \in Logged1 THEN n ELSE file[w]]
        /\ held' = [held EXCEPT ![0] = n]
    BY <1>1 DEF One!Receive, One!Update, Logged1
  <2>2. One!TypeOK'
    <3>1. held' \in [{0, 1} -> 0 .. received'] /\ received' \in 0 .. MaxFrames
      BY <2>1
    <3>2. of'[2] \in 0 .. received'
      BY <2>1, <3>1 DEF One!NoReading
    <3> QED BY <2>1, <3>1, <3>2
  <2>3. \A w \in Logged1 : file'[w] = held'[0]
    BY <2>1 DEF Logged1, One!Registers, One!RegistersC
  <2>4. Logged1' = Logged1
    BY <2>1 DEF Logged1
  <2>5. (One!FieldsTrue /\ One!ReadingsTrue)'
    BY <2>1, NoneRead
  <2> QED BY <2>1, <2>2, <2>3, <2>4, <2>5
<1>2. CASE One!Sleep
  BY <1>2, NoneRead DEF One!Sleep, One!Unwritten, One!None, One!NoReading
<1>3. CASE One!dwt_setdblrxbuffmode
  BY <1>3 DEF One!dwt_setdblrxbuffmode, One!chip, One!host, One!FieldsTrue, One!ReadingsTrue,
     One!Filled, One!SetFilled, One!SingleFilled, Logged1
<1>4. CASE One!dwt_signal_rx_buff_free
  BY <1>4 DEF One!dwt_signal_rx_buff_free
<1>5. CASE \E mask \in SingleMasks : One!dwt_configciadiag(mask)
  BY <1>5, NoneRead DEF One!dwt_configciadiag, One!chip, One!NoReading
<1> QED BY <1>1, <1>2, <1>3, <1>4, <1>5

LEMMA OneStep == ASSUME OneInv, MaxFrames \in Nat, One!Next PROVE OneInv'
  BY OneFields, OneReadings, OneChip DEF One!Next

LEMMA OneInit == ASSUME One!Init, MaxFrames \in Nat PROVE OneInv
<1>1. One!TypeOK
  BY DEF One!Init, One!TypeOK, One!None, One!NoReading
<1>2. One!FieldsTrue /\ One!ReadingsTrue
  BY DEF One!Init, One!FieldsTrue, One!ReadingsTrue, One!NoReading, One!Reading
<1> QED BY <1>1, <1>2 DEF One!Init, OneInv, One!None, One!Unwritten

-----------------------------------------------------------------------------
(* Two receive buffers: the host is at a full one, the older if both are,  *)
(* and the chip fills the one it comes to next. A set is, in the words it  *)
(* is logged with, of the frame in its buffer. What is enabled again after *)
(* a sleep starts anew, with both sides at the first buffer.               *)
HostAt == IF dblbuffon = 3 THEN 1 ELSE 0
TwoBuffers ==
  /\ enabled => dblbuffon \in {1, 3} /\ pointed
  /\ ~enabled => full = {} /\ fills = 0 /\ of = Two!NoReading
  /\ full # {} => HostAt \in full
  /\ enabled => fills = IF full = {} \/ full = {0, 1} THEN HostAt ELSE 1 - HostAt
  /\ full = {0, 1} => held[HostAt] < held[1 - HostAt]
TwoSets ==
  /\ cia_diagnostic \in DoubleMasks
  /\ DOMAIN set = {0, 1} /\ \A b \in {0, 1} : DOMAIN set[b] = Two!SwingingSet
  /\ \A b \in full : held[b] # 0 /\ \A w \in Two!Copied : set[b][w] = held[b]
TwoInv ==
  Two!TypeOK /\ Two!FieldsTrue /\ Two!ReadingsTrue /\ TwoBuffers /\ TwoSets

LEMMA SetWidth ==
  ASSUME NEW f \in Two!Fields
  PROVE  /\ f[2] # "RxStatus" => DOMAIN Two!SetField(f) = DOMAIN Two!Defined(f)
         /\ f \notin Two!Misread => Two!SetField(f) = Two!Defined(f)
<1>1. CASE f[2] = "POA"
  <2>0. f[1] \in Two!Signals
    BY <1>1 DEF Two!Fields, Two!Common, Two!Details
  <2>1. f[1] \in Two!Signals /\ f[1] # "both"
    BY <2>0 DEF Two!Signals
  <2>2. Two!Defined(f) = Two!At(<<Two!TOA(f[1]), 1>>, <<2, 1>>)
    BY <1>1, <2>1 DEF Two!Defined
  <2>3. Two!SetField(f) = Two!At(<<Two!TOA(f[1]), 0>>, <<2, 1>>)
    BY <1>1 DEF Two!SetField
  <2>4. f = <<f[1], f[2]>>
    BY DEF Two!Fields
  <2>5. f \in Two!Misread
    BY <2>1, <2>4, <1>1 DEF Two!Misread
  <2> QED BY <2>2, <2>3, <2>5, <1>1 DEF Two!At
<1>2. CASE f[2] = "RxStatus"
  <2>0. f = <<f[1], f[2]>>
    BY DEF Two!Fields
  <2>1. f[1] \in Two!Signals
    BY <1>2 DEF Two!Fields, Two!Common, Two!Details
  <2>2. f \in Two!Misread
    BY <2>0, <2>1, <1>2 DEF Two!Misread
  <2> QED BY <2>2, <1>2
<1>3. CASE f[2] \notin {"POA", "RxStatus"}
  BY <1>3 DEF Two!SetField
<1> QED BY <1>1, <1>2, <1>3

(* What is filled in is of a word that the set is logged with.             *)
LEMMA FilledIsLogged ==
  ASSUME cia_diagnostic \in DoubleMasks,
         NEW f \in Two!SetFilled, NEW i \in DOMAIN Two!Defined(f)
  PROVE  /\ f \in Two!Fields
         /\ Two!WordOf(Two!Defined(f)[i]) \in Two!Copied
         /\ Two!WordOf(Two!Defined(f)[i]) \in Two!SetRead
<1> DEFINE w == One!WordOf(One!Defined(f)[i])
<1>1. f \in One!Fields
  BY SameTables DEF Two!SetFilled, Two!Fields, Two!Common, Two!Signals, Two!Timed, Two!Details
<1>2. i \in DOMAIN One!Defined(f) /\ w = Two!WordOf(Two!Defined(f)[i])
  BY SameFields, SameOctets
<1>3. One!MinSet \subseteq One!MidSet /\ One!MidSet \subseteq One!SwingingSet
  BY DEF One!MidSet, One!SwingingSet
<1>4. cia_diagnostic \cap {"MIN", "MID", "MAX"} # {}
  BY SetsAreLogged
<1>5. w \in Two!Copied
  <2>1. w \in One!SwingingSet
    BY <1>1, <1>2, FieldSets
  <2>2. CASE "MAX" \in cia_diagnostic
    BY <2>1, <2>2, SameTables DEF Two!Copied
  <2>3. CASE "MAX" \notin cia_diagnostic /\ "MIN" \in cia_diagnostic
    <3>1. f \in ({"both"} \X (One!Common \ {"ciaDiag1"})) \cup {<<"IP", "AccumCount">>}
      BY <2>3, SameTables DEF Two!SetFilled
    <3>2. w \in One!MinSet
      BY <3>1, <1>1, <1>2, FieldSets
    <3> QED BY <3>2, <2>3, <1>3, SameTables DEF Two!Copied
  <2>4. CASE "MAX" \notin cia_diagnostic /\ "MIN" \notin cia_diagnostic
    <3>1. "MID" \in cia_diagnostic
      BY <2>4, <1>4
    <3>2. f \in (({"both"} \X (One!Common \ {"ciaDiag1"})) \cup {<<"IP", "AccumCount">>})
                  \cup (One!Signals \X One!Timed)
      BY <2>4, <3>1, SameTables DEF Two!SetFilled
    <3>3. w \in One!MidSet
      BY <3>2, <1>1, <1>2, <1>3, FieldSets
    <3> QED BY <3>1, <3>3, <2>4, SameTables DEF Two!Copied
  <2> QED BY <2>2, <2>3, <2>4
<1>6. Two!SetRead = Two!Copied
  BY DEF Two!SetRead, Two!Copied
<1> QED BY <1>1, <1>2, <1>5, <1>6, SameTables

(* The set that the host reads is that of the buffer it is at.             *)
LEMMA HostSet ==
  ASSUME TwoInv, full # {}
  PROVE  /\ enabled /\ dblbuffon # 0 /\ HostAt \in full /\ HostAt \in {0, 1}
         /\ Two!Now = held[HostAt] /\ Two!SetFrom = set[HostAt]
         /\ held[HostAt] \in 1 .. received
         /\ \A w \in Two!Copied : Two!SetFrom[w] = held[HostAt]
<1>1. enabled /\ dblbuffon \in {1, 3} /\ pointed /\ HostAt \in full
  BY DEF TwoInv, TwoBuffers, Two!TypeOK
<1>2. Two!Now = held[HostAt] /\ Two!SetFrom = set[HostAt]
  BY <1>1 DEF Two!Now, Two!SetFrom, Two!At1, HostAt
<1>3. HostAt \in {0, 1} /\ held[HostAt] \in 0 .. received /\ held[HostAt] # 0 /\ received \in Nat
  BY <1>1 DEF TwoInv, TwoSets, Two!TypeOK, HostAt
<1>4. \A w \in Two!Copied : set[HostAt][w] = held[HostAt]
  BY <1>1 DEF TwoInv, TwoSets
<1> QED BY <1>1, <1>2, <1>3, <1>4

LEMMA TwoFields ==
  ASSUME TwoInv, Two!dwt_readdiagnostics
  PROVE  TwoInv'
<1>0. full # {}
  BY DEF Two!dwt_readdiagnostics, Two!Valid
<1>1. /\ of' = <<"diag", held[HostAt]>>
      /\ UNCHANGED <<file, set, held, received, full, fills, pointed, enabled,
                     cia_diagnostic, dblbuffon, got>>
      /\ diag' = [f \in Two!Fields |-> IF f \notin Two!SetFilled THEN diag[f] ELSE
                   [i \in DOMAIN Two!SetField(f) |-> Two!Octet(Two!SetRead, Two!SetFrom, Two!SetField(f)[i])]]
  BY <1>0, HostSet DEF Two!dwt_readdiagnostics, Two!chip, Two!configured
<1>2. Two!TypeOK'
  <2>1. of'[2] \in 0 .. received
    BY <1>0, <1>1, HostSet
  <2>2. ASSUME NEW f \in Two!Fields
        PROVE  diag'[f] = <<>> \/ DOMAIN diag'[f] = DOMAIN Two!Defined(f) \/ f[2] = "RxStatus"
    <3>1. CASE f \in Two!SetFilled
      <4>1. DOMAIN diag'[f] = DOMAIN Two!SetField(f)
        BY <1>1, <3>1
      <4> QED BY <4>1, SetWidth
    <3>2. CASE f \notin Two!SetFilled
      BY <1>1, <3>2 DEF TwoInv, Two!TypeOK
    <3> QED BY <3>1, <3>2
  <2> QED BY <1>1, <2>1, <2>2 DEF Two!TypeOK, TwoInv
<1>3. Two!FieldsTrue'
  <2> SUFFICES ASSUME NEW f \in Two!SetFilled \ Two!Misread
               PROVE  diag'[f] = Two!OctetsOf(held[HostAt], Two!Defined(f))
    BY <1>0, <1>1, HostSet DEF Two!FieldsTrue, Two!Filled, Two!SetFilled, Two!SingleFilled, Two!Misread
  <2>1. f \in Two!Fields /\ cia_diagnostic \in DoubleMasks
    BY DEF TwoInv, TwoSets, Two!SetFilled, Two!Fields, Two!Common, Two!Signals, Two!Timed, Two!Details
  <2>2. diag'[f] = [i \in DOMAIN Two!Defined(f) |-> Two!Octet(Two!SetRead, Two!SetFrom, Two!Defined(f)[i])]
    BY <1>1, <2>1, SetWidth
  <2>3. ASSUME NEW i \in DOMAIN Two!Defined(f)
        PROVE  Two!Octet(Two!SetRead, Two!SetFrom, Two!Defined(f)[i])
                 = <<held[HostAt], Two!WordOf(Two!Defined(f)[i]), Two!Defined(f)[i][2] % 4>>
    <3>1. /\ Two!WordOf(Two!Defined(f)[i]) \in Two!SetRead
          /\ Two!WordOf(Two!Defined(f)[i]) \in Two!Copied
      BY <2>1, FilledIsLogged
    <3>2. Two!SetFrom[Two!WordOf(Two!Defined(f)[i])] = held[HostAt]
      BY <3>1, <1>0, HostSet
    <3> QED BY <3>1, <3>2 DEF Two!Octet
  <2> QED BY <2>2, <2>3 DEF Two!OctetsOf
<1>4. Two!ReadingsTrue'
  BY <1>1 DEF Two!ReadingsTrue, Two!Reading
<1>5. TwoBuffers' /\ TwoSets'
  BY <1>0, <1>1, HostSet DEF TwoInv, TwoBuffers, TwoSets, HostAt, Two!Copied
<1> QED
  BY <1>2, <1>3, <1>4, <1>5 DEF TwoInv

LEMMA SameReadings ==
  /\ DOMAIN Two!Reading = DOMAIN One!Reading
  /\ \A r \in DOMAIN One!Reading : Two!Reading[r] = One!Reading[r] /\ Two!Meant[r] = One!Meant[r]
  BY DEF One!Reading, Two!Reading, One!Meant, Two!Meant, One!At, Two!At, One!Short, Two!Short,
     One!Status, Two!Status, One!RxTime, Two!RxTime, One!TOA, Two!TOA

LEMMA TwoReadings ==
  ASSUME TwoInv, NEW r \in DOMAIN Two!Reading, Two!Read(r)
  PROVE  TwoInv'
<1>0. full # {} /\ Two!Logged(r)
  BY DEF Two!Read, Two!Valid
<1>1. /\ of' = <<r, held[HostAt]>>
      /\ UNCHANGED <<file, set, held, received, full, fills, pointed, enabled,
                     cia_diagnostic, dblbuffon, diag>>
      /\ got' = [i \in DOMAIN Two!Reading[r] |-> Two!Octet(Two!SwingingSet, Two!SetFrom, Two!Reading[r][i])]
  BY <1>0, HostSet DEF Two!Read, Two!ReadOne, Two!chip, Two!configured
<1>2. Two!TypeOK'
  BY <1>0, <1>1, HostSet DEF TwoInv, Two!TypeOK
<1>3. r # "diag"
  BY DEF Two!Reading
<1>4. Two!ReadingsTrue'
  <2> SUFFICES got' = Two!OctetsOf(held[HostAt], Two!Defined(Two!Meant[r]))
    BY <1>1 DEF Two!ReadingsTrue
  <2> DEFINE f == One!Meant[r]
  <2>0. r \in DOMAIN One!Reading
    BY SameReadings
  <2>1. /\ Two!Reading[r] = Two!Defined(f) /\ f \in One!Fields /\ Two!Meant[r] = f
        /\ Two!Defined(f) = One!Defined(f)
    BY <2>0, MeantPlaces, SameFields, SameReadings
  <2>2. ASSUME NEW i \in DOMAIN Two!Defined(f)
        PROVE  Two!Octet(Two!SwingingSet, Two!SetFrom, Two!Defined(f)[i])
                 = <<held[HostAt], Two!WordOf(Two!Defined(f)[i]), Two!Defined(f)[i][2] % 4>>
    <3> DEFINE w == One!WordOf(One!Defined(f)[i])
    <3>0. w = Two!WordOf(Two!Defined(f)[i]) /\ i \in DOMAIN One!Defined(f)
      BY <2>1, SameOctets
    <3>1. w \in One!SwingingSet
      BY <2>1, <3>0, FieldSets
    <3>2. w \in Two!Copied
      <4>0. One!MinSet \subseteq One!MidSet /\ One!MidSet \subseteq One!SwingingSet
        BY DEF One!MidSet, One!SwingingSet
      <4>1. r \in {"clockoffset", "pdoa"} => w \in One!MinSet
        BY <2>0, <2>1, <3>0, MeantPlaces, FieldSets
      <4>2. w \in One!MidSet
        BY <2>0, <2>1, <3>0, <4>0, MeantPlaces, FieldSets
      <4>3. r \in {"clockoffset", "pdoa"} \/ "MID" \in cia_diagnostic \/ "MAX" \in cia_diagnostic
        BY <1>0 DEF Two!Logged
      <4> QED BY <3>1, <4>0, <4>1, <4>2, <4>3, SameTables DEF Two!Copied
    <3>3. Two!SetFrom[w] = held[HostAt]
      BY <3>2, <1>0, HostSet
    <3> QED BY <3>0, <3>1, <3>3, SameTables DEF Two!Octet
  <2> QED BY <1>1, <2>1, <2>2 DEF Two!OctetsOf
<1>5. Two!FieldsTrue'
  BY <1>1, <1>3 DEF Two!FieldsTrue
<1>6. TwoBuffers' /\ TwoSets'
  BY <1>0, <1>1, HostSet DEF TwoInv, TwoBuffers, TwoSets, HostAt, Two!Copied
<1> QED BY <1>2, <1>4, <1>5, <1>6 DEF TwoInv

(* The chip fills the buffers in turn.                                     *)
LEMMA TwoReceive ==
  ASSUME TwoInv, MaxFrames \in Nat, Two!Receive
  PROVE  TwoInv'
<1> DEFINE n == received + 1
<1>1. /\ enabled /\ received < MaxFrames /\ fills \notin full
      /\ received' = n /\ of' = Two!NoReading /\ held' = [held EXCEPT ![fills] = n]
      /\ set' = [set EXCEPT ![fills] = Two!Update(Two!Copied, n, @)]
      /\ full' = full \cup {fills} /\ fills' = 1 - fills
      /\ UNCHANGED <<pointed, enabled, dblbuffon, cia_diagnostic, diag, got>>
  BY DEF Two!Receive
<1>2. /\ received \in Nat /\ n \in Nat /\ held \in [{0, 1} -> 0 .. received]
      /\ fills \in {0, 1} /\ full \subseteq {0, 1}
      /\ held'[fills] = n /\ \A b \in {0, 1} : b # fills => held'[b] = held[b]
      /\ held' \in [{0, 1} -> 0 .. n]
  BY <1>1 DEF TwoInv, Two!TypeOK
<1>3. Two!TypeOK'
  <2>1. received' \in 0 .. MaxFrames /\ of'[2] \in 0 .. received'
    BY <1>1, <1>2 DEF Two!NoReading
  <2> QED BY <1>1, <1>2, <2>1 DEF TwoInv, Two!TypeOK
<1>4. TwoBuffers'
  <2>1. HostAt' = HostAt /\ HostAt \in {0, 1} /\ dblbuffon \in {1, 3} /\ pointed
    BY <1>1 DEF HostAt, TwoInv, TwoBuffers
  <2>2. CASE full = {}
    <3>1. fills = HostAt /\ full' = {HostAt}
      BY <1>1, <2>2 DEF TwoInv, TwoBuffers
    <3>2. full' # {} /\ full' # {0, 1}
      BY <3>1, <2>1
    <3> QED BY <1>1, <2>1, <3>1, <3>2 DEF TwoBuffers
  <2>3. CASE full # {}
    <3>1. HostAt \in full /\ full # {0, 1}
      BY <1>1, <1>2, <2>3 DEF TwoInv, TwoBuffers
    <3>2. fills = 1 - HostAt
      BY <1>1, <2>3, <3>1 DEF TwoInv, TwoBuffers
    <3>3. full' = {0, 1} /\ fills' = HostAt
      <4>1. 0 \in full' /\ 1 \in full' /\ full' \subseteq {0, 1}
        BY <1>1, <1>2, <2>1, <3>1, <3>2
      <4>2. full' = {0, 1}
        BY <4>1
      <4>3. fills' = HostAt
        BY <1>1, <2>1, <3>2
      <4> QED BY <4>2, <4>3
    <3>4. held'[HostAt] = held[HostAt] /\ held[HostAt] < n /\ held'[1 - HostAt] = n
      BY <1>2, <2>1, <3>2
    <3> QED BY <1>1, <2>1, <3>1, <3>3, <3>4 DEF TwoBuffers
  <2> QED BY <2>2, <2>3
<1>5. TwoSets'
  <2>1. Two!Copied' = Two!Copied /\ Two!Copied \subseteq Two!SwingingSet
    BY <1>1 DEF Two!Copied, Two!SwingingSet, Two!MidSet
  <2>2. /\ DOMAIN set' = {0, 1} /\ set'[fills] = Two!Update(Two!Copied, n, set[fills])
        /\ \A b \in {0, 1} : b # fills => set'[b] = set[b]
    BY <1>1, <1>2 DEF TwoInv, TwoSets
  <2>3. /\ DOMAIN set'[fills] = Two!SwingingSet
        /\ \A w \in Two!Copied : set'[fills][w] = n
    BY <2>1, <2>2, <1>2 DEF Two!Update, TwoInv, TwoSets
  <2>4. ASSUME NEW b \in {0, 1} PROVE DOMAIN set'[b] = Two!SwingingSet
    BY <2>2, <2>3 DEF TwoInv, TwoSets
  <2>5. ASSUME NEW b \in full' PROVE held'[b] # 0 /\ \A w \in Two!Copied : set'[b][w] = held'[b]
    BY <1>1, <1>2, <2>2, <2>3 DEF TwoInv, TwoSets
  <2> QED BY <1>1, <2>1, <2>2, <2>4, <2>5 DEF TwoInv, TwoSets
<1> QED BY <1>1, <1>3, <1>4, <1>5, NoneRead DEF TwoInv

LEMMA TwoFree ==
  ASSUME TwoInv, Two!dwt_signal_rx_buff_free
  PROVE  TwoInv'
<1>1. /\ full # {} /\ full' = full \ {HostAt} /\ dblbuffon' = (IF dblbuffon = 3 THEN 1 ELSE 3)
      /\ of' = Two!NoReading
      /\ UNCHANGED <<file, set, held, received, fills, pointed, enabled, cia_diagnostic, diag, got>>
  BY DEF Two!dwt_signal_rx_buff_free, Two!chip, Two!configured, Two!At1, HostAt
<1>2. enabled /\ dblbuffon \in {1, 3} /\ HostAt \in full /\ HostAt \in {0, 1} /\ HostAt' = 1 - HostAt
  BY <1>1, HostSet DEF HostAt, TwoInv, TwoBuffers
<1>3. Two!TypeOK'
  BY <1>1, <1>2 DEF TwoInv, Two!TypeOK, Two!NoReading
<1>4. TwoBuffers'
  <2>1. full \subseteq {0, 1} /\ pointed
    BY <1>2 DEF TwoInv, Two!TypeOK, TwoBuffers
  <2>2. CASE full = {0, 1}
    <3>1. fills = HostAt /\ full' = {1 - HostAt}
      BY <1>1, <1>2, <2>2 DEF TwoInv, TwoBuffers
    <3>2. full' # {} /\ full' # {0, 1} /\ HostAt' \in full' /\ fills' = 1 - HostAt'
      BY <1>1, <1>2, <3>1
    <3> QED BY <1>1, <1>2, <2>1, <3>2 DEF TwoBuffers
  <2>3. CASE full # {0, 1}
    <3>1. fills = 1 - HostAt /\ full' = {}
      BY <1>1, <1>2, <2>1, <2>3 DEF TwoInv, TwoBuffers
    <3> QED BY <1>1, <1>2, <2>1, <3>1 DEF TwoBuffers
  <2> QED BY <2>2, <2>3
<1>5. TwoSets'
  BY <1>1 DEF TwoInv, TwoSets, Two!Copied
<1> QED BY <1>1, <1>3, <1>4, <1>5, NoneRead DEF TwoInv

LEMMA TwoRest ==
  ASSUME TwoInv,
         \/ Two!Sleep \/ Two!dwt_setdblrxbuffmode
         \/ \E mask \in DoubleMasks : Two!dwt_configciadiag(mask)
  PROVE  TwoInv'
<1>1. CASE Two!Sleep
  <2>1. /\ full' = {} /\ fills' = 0 /\ ~enabled' /\ of' = Two!NoReading
        /\ held' = [b \in {0, 1} |-> 0] /\ set' = [b \in {0, 1} |-> [w \in Two!SwingingSet |-> 0]]
        /\ UNCHANGED <<received, dblbuffon, cia_diagnostic, diag, got>>
    BY <1>1 DEF Two!Sleep, Two!None, Two!Unwritten
  <2>2. Two!TypeOK'
    BY <2>1 DEF TwoInv, Two!TypeOK, Two!NoReading
  <2>3. TwoBuffers' /\ TwoSets'
    BY <2>1 DEF TwoInv, TwoBuffers, TwoSets
  <2> QED BY <2>1, <2>2, <2>3, NoneRead DEF TwoInv
<1>2. CASE Two!dwt_setdblrxbuffmode
  <2>1. /\ ~enabled /\ enabled' /\ dblbuffon' = 1 /\ pointed'
        /\ UNCHANGED <<file, set, held, received, full, fills, cia_diagnostic, diag, got, of>>
    BY <1>2 DEF Two!dwt_setdblrxbuffmode, Two!chip, Two!host
  <2>2. full = {} /\ fills = 0 /\ of = Two!NoReading
    BY <2>1 DEF TwoInv, TwoBuffers
  <2>3. TwoBuffers' /\ TwoSets'
    BY <2>1, <2>2 DEF TwoInv, TwoBuffers, TwoSets, HostAt
  <2>4. Two!TypeOK'
    BY <2>1 DEF TwoInv, Two!TypeOK
  <2> QED BY <2>1, <2>2, <2>3, <2>4, NoneRead DEF TwoInv
<1>3. ASSUME NEW mask \in DoubleMasks, Two!dwt_configciadiag(mask) PROVE TwoInv'
  <2>1. /\ full = {} /\ cia_diagnostic' = mask /\ of' = Two!NoReading
        /\ UNCHANGED <<file, set, held, received, full, fills, pointed, enabled, dblbuffon, diag, got>>
    BY <1>3 DEF Two!dwt_configciadiag, Two!chip
  <2>2. Two!TypeOK'
    BY <2>1 DEF TwoInv, Two!TypeOK, Two!NoReading
  <2>3. TwoBuffers' /\ TwoSets'
    BY <2>1 DEF TwoInv, TwoBuffers, TwoSets, HostAt
  <2> QED BY <2>1, <2>2, <2>3, NoneRead DEF TwoInv
<1> QED BY <1>1, <1>2, <1>3

LEMMA TwoStep == ASSUME TwoInv, MaxFrames \in Nat, Two!Next PROVE TwoInv'
  BY TwoFields, TwoReadings, TwoReceive, TwoFree, TwoRest DEF Two!Next

LEMMA TwoInit == ASSUME Two!Init, MaxFrames \in Nat PROVE TwoInv
<1>1. Two!TypeOK
  BY DEF Two!Init, Two!TypeOK, Two!None, Two!NoReading
<1>2. Two!FieldsTrue /\ Two!ReadingsTrue
  BY DEF Two!Init, Two!FieldsTrue, Two!ReadingsTrue, Two!NoReading, Two!Reading
<1>3. TwoBuffers /\ TwoSets
  BY DEF Two!Init, TwoBuffers, TwoSets, Two!Unwritten, Two!NoReading
<1> QED BY <1>1, <1>2, <1>3 DEF TwoInv

(* The host is at the older of two frames.                                 *)
LEMMA TwoOldest == ASSUME TwoInv PROVE Two!OldestFirst
<1> SUFFICES ASSUME full # {}
             PROVE  held[HostAt] = CHOOSE n \in {held[b] : b \in full} : \A b \in full : n <= held[b]
  BY DEF Two!OldestFirst, Two!At1, HostAt
<1>1. /\ HostAt \in full /\ HostAt \in {0, 1} /\ full \subseteq {0, 1}
      /\ \A b \in full : held[b] \in Int
  BY HostSet DEF TwoInv, Two!TypeOK
<1>2. \A b \in full : b # HostAt => held[HostAt] < held[b]
  <2> SUFFICES ASSUME NEW b \in full, b # HostAt PROVE held[HostAt] < held[b]
    OBVIOUS
  <2>1. full = {0, 1} /\ b = 1 - HostAt
    <3>1. b \in {0, 1} /\ b = 1 - HostAt
      BY <1>1
    <3>2. 0 \in full /\ 1 \in full
      BY <1>1, <3>1
    <3>3. full = {0, 1}
      BY <1>1, <3>2
    <3> QED BY <3>1, <3>3
  <2> QED BY <2>1 DEF TwoInv, TwoBuffers
<1>3. \A n \in {held[b] : b \in full} : (\A b \in full : n <= held[b]) <=> n = held[HostAt]
  BY <1>1, <1>2
<1> QED BY <1>1, <1>3

-----------------------------------------------------------------------------
DiagInv ==
  /\ part = "one buffer" => OneInv
  /\ part = "two buffers" => TwoInv

(* For any masks and any number of frames, with one receive buffer and     *)
(* with two, and whatever sleeps come in between: what dwt_readdiagnostics *)
(* fills in and every single reading is of the frame the host is at, and   *)
(* made of the octets of its register, but for the fields that are misread *)
(* (Misread); and two frames are read in the order they came in. With two  *)
(* buffers a flag has to choose what their sets are logged with            *)
(* (SetsAreLogged).                                                        *)
THEOREM DiagnosticsAreTrue == MCSpec => []DiagnosticsTrue
<1> USE PartAssumptions DEF One!MasksAreFlags
<1>1. MCInit => DiagInv
  BY OneInit, TwoInit DEF MCInit, DiagInv
<1>2. DiagInv /\ [MCNext]_allVars => DiagInv'
  <2> SUFFICES ASSUME DiagInv, [MCNext]_allVars PROVE DiagInv'
    OBVIOUS
  <2>1. CASE UNCHANGED allVars
    BY <2>1 DEF DiagInv, allVars, diagVars, OneInv, TwoInv, TwoBuffers, TwoSets, HostAt, Logged1,
       One!TypeOK, One!FieldsTrue, One!ReadingsTrue, One!Filled, One!SetFilled, One!SingleFilled,
       Two!TypeOK, Two!FieldsTrue, Two!ReadingsTrue, Two!Filled, Two!SetFilled, Two!SingleFilled, Two!Copied
  <2>2. CASE part = "otp" /\ UNCHANGED part
    BY <2>2 DEF DiagInv
  <2>3. CASE part = "one buffer" /\ One!Next /\ UNCHANGED part
    BY <2>3, OneStep DEF DiagInv
  <2>4. CASE part = "two buffers" /\ Two!Next /\ UNCHANGED part
    BY <2>4, TwoStep DEF DiagInv
  <2> QED BY <2>1, <2>2, <2>3, <2>4 DEF MCNext
<1>3. DiagInv => DiagnosticsTrue
  BY TwoOldest DEF DiagInv, DiagnosticsTrue, OneInv, TwoInv
<1> QED BY <1>1, <1>2, <1>3, PTL DEF MCSpec
=============================================================================
