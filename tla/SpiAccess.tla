----------------------------- MODULE SpiAccess ------------------------------
(***************************************************************************)
(* How the driver reaches the registers of the DW3000 over SPI: the header *)
(* of a transfer, values of one, two and four octets and their masked      *)
(* modification, data buffers longer than a register file can address, and *)
(* fast commands.  The chip's reading of a header is external.             *)
(*                                                                         *)
(* The port's spiSelect, which every program calls first, comes from a     *)
(* library for the DW1000 and builds the headers of that chip.             *)
(*                                                                         *)
(* An octet of data is one bit here: what matters is which octet is where. *)
(***************************************************************************)
EXTENDS Integers, Sequences

CONSTANTS HardReset,    \* spiBegin was given a reset pin
          Cells,        \* octets of the register file that is followed: 0 .. Cells - 1
          Registers,    \* register files a program reads and writes
          BaseOffsets,  \* offsets of registers in their files
          Indexes,      \* the further offsets within a register
          BufferOffsets \* offsets in the buffers

SpiAssumption ==
    /\ HardReset \in BOOLEAN
    /\ Cells \in Nat /\ Cells >= 4
    /\ Registers \subseteq 0 .. 28
    /\ BaseOffsets \subseteq 0 .. 127
    /\ Indexes \subseteq Nat /\ BufferOffsets \subseteq Nat

VARIABLES mem,      \* the chip's register file
          word,     \* what the callers have made of it: the value of its octets
          got,      \* the value read last and the one that was there
          asked,    \* the access the caller meant
          seen,     \* the access the chip has carried out
          indirect, \* INDIRECT_ADDR_A and ADDR_OFFSET_A
          crc,      \* SPI_CRC in SYS_CFG, and spicrc of the driver
          bare,     \* a write without a check octet went out while crc was on
          step      \* the next access of spiSelect

vars == <<mem, word, got, asked, seen, indirect, crc, bare, step>>

Files == 0 .. 31
Modes == {"read", "write", "modify8", "modify16", "modify32"}

Access(op, file, off) == [op |-> op, file |-> file, off |-> off]
Command(n) == [op |-> "command", file |-> n, off |-> 0]
Nothing == Access("none", 0, 0)

RxBuffer0 == 18   RxBuffer1 == 19   TxBuffer == 20
PointerA == 29
DirectMax == 127
RxBufferMax == 1023
TxBufferMax == 1024

----------------------------------------------------------------------------
(* Headers.                                                                *)

ModeBits(op) == CASE op = "modify8" -> 1 [] op = "modify16" -> 2 [] op = "modify32" -> 3 [] OTHER -> 0
Direction(op) == IF op = "read" THEN 0 ELSE 128

(* dwt_xfer3000: a transfer of nothing is a fast command, one at the start *)
(* of a file takes one octet, any other two.                               *)
Header(op, file, base, index, len) ==
    LET off == (base + index) % 128 IN
    CASE len = 0 -> <<128 + ((2 * base) % 128) + 1>>
      [] len > 0 /\ off = 0 /\ ModeBits(op) = 0 -> <<Direction(op) + 2 * file>>
      [] OTHER -> <<Direction(op) + 64 + 2 * file + (off \div 64), 4 * (off % 64) + ModeBits(op)>>

(* What the DW3000 reads in a header.                                      *)
Decoded(header) ==
    LET first == header[1]
        file == (first % 64) \div 2
        write == first >= 128 IN
    IF first % 128 >= 64
    THEN Access(IF write THEN <<"write", "modify8", "modify16", "modify32">>[(header[2] % 4) + 1]
                ELSE "read",
                file, 64 * (first % 2) + header[2] \div 4)
    ELSE IF write /\ first % 2 = 1 THEN Command(file)
    ELSE Access(IF write THEN "write" ELSE "read", file, 0)

(* An access through the indirect pointer is one to the place it points to.*)
Resolved(access, pointer) ==
    IF access.op # "command" /\ access.file = PointerA
    THEN Access(access.op, pointer.file, pointer.off + access.off)
    ELSE access

Transfer(op, file, base, index, len, pointer) ==
    seen' = Resolved(Decoded(Header(op, file, base, index, len)), pointer)

----------------------------------------------------------------------------
(* Accesses by the driver.                                                 *)

Init ==
    /\ mem = [c \in 0 .. Cells - 1 |-> 0]
    /\ word = [c \in 0 .. Cells - 1 |-> 0]
    /\ got = [read |-> 0, was |-> 0]
    /\ asked = Nothing /\ seen = Nothing
    /\ indirect = [file |-> 0, off |-> 0]
    /\ bare = FALSE /\ crc = FALSE
    /\ step = 1

Contents == <<mem, word, got>>

(* Any register, read, written or modified.                                *)
AccessRegister ==
    \E op \in Modes, file \in Registers, base \in BaseOffsets, index \in Indexes :
      /\ base + index <= DirectMax
      /\ asked' = Access(op, file, base + index)
      /\ Transfer(op, file, base, index, 1, indirect)
      /\ bare' = (bare \/ (crc /\ op # "read"))
      /\ UNCHANGED <<Contents, indirect, crc, step>>

(* dwt_writefastCMD.                                                       *)
FastCommand ==
    \E cmd \in 0 .. 19 :
      /\ asked' = Command(cmd)
      /\ Transfer("write", 0, cmd, 0, 0, indirect)
      /\ UNCHANGED <<Contents, indirect, bare, crc, step>>

(* A place in a buffer: beyond the offsets of a header the indirect        *)
(* pointer is set first.                                                   *)
Buffer(op, file, offset, len) ==
    /\ asked' = Access(op, file, offset)
    /\ indirect' = IF offset <= DirectMax THEN indirect ELSE [file |-> file, off |-> offset]
    /\ IF offset <= DirectMax THEN Transfer(op, file, 0, offset, len, indirect')
       ELSE Transfer(op, PointerA, 0, 0, len, indirect')

Refused == asked' = Nothing /\ seen' = Nothing /\ UNCHANGED indirect

(* dwt_writetxdata returns an error for data that does not fit.            *)
WriteTxData ==
    \E offset \in BufferOffsets, len \in {1, 12, 1022} :
      /\ IF offset + len < TxBufferMax THEN Buffer("write", TxBuffer, offset, len) ELSE Refused
      /\ bare' = (bare \/ (crc /\ asked' # Nothing))
      /\ UNCHANGED <<Contents, crc, step>>

(* dwt_readrxdata, of the buffer the driver is at; it reads nothing, and   *)
(* says nothing, when the data would end beyond the buffer.                *)
ReadRxData ==
    \E offset \in BufferOffsets, len \in {1, 12, 1022}, file \in {RxBuffer0, RxBuffer1} :
      /\ IF offset + len <= RxBufferMax THEN Buffer("read", file, offset, len) ELSE Refused
      /\ UNCHANGED <<Contents, bare, crc, step>>

(* dwt_enablespicrccheck.  The transfers stay as they are: none of them    *)
(* carries a check octet.                                                  *)
EnableCrc ==
    /\ crc' \in BOOLEAN
    /\ asked' = Nothing /\ seen' = Nothing
    /\ UNCHANGED <<Contents, indirect, bare, step>>

----------------------------------------------------------------------------
(* Values.  An octet holds one bit, a register of n octets a number below  *)
(* 2^n; the least octet comes first.                                       *)

Weight(i) == <<1, 2, 4, 8>>[i + 1]
Octet(v, i) == (v \div Weight(i)) % 2
Octets(v, n) == [i \in 1 .. n |-> Octet(v, i - 1)]

(* The number with these bits.                                             *)
Sum(bits) ==
    LET part(i) == IF i \in bits THEN Weight(i) ELSE 0 IN part(0) + part(1) + part(2) + part(3)

(* What the chip makes of the octets of a write, and of a modification,    *)
(* whose first half is the mask to keep and whose second half is to set.   *)
Written(at, octets) ==
    [c \in DOMAIN mem |-> IF c - at \in 0 .. Len(octets) - 1 THEN octets[c - at + 1] ELSE mem[c]]
Modified(at, octets) ==
    LET n == Len(octets) \div 2 IN
    [c \in DOMAIN mem |->
       IF c - at \in 0 .. n - 1
       THEN LET kept == mem[c] * octets[c - at + 1]
                set == octets[n + c - at + 1] IN IF kept + set > 0 THEN 1 ELSE 0
       ELSE mem[c]]

Value(cells, at, n) == Sum({i \in 0 .. n - 1 : cells[at + i] = 1})
NoAccess == asked' = Nothing /\ seen' = Nothing /\ UNCHANGED <<indirect, crc, bare, step>>
Places(n) == 0 .. Cells - n

(* dwt_read8, 16, 32bitoffsetreg.                                          *)
ReadValue ==
    \E n \in {1, 2, 4} : \E at \in Places(n) :
      /\ got' = [read |-> Value(mem, at, n), was |-> Value(word, at, n)]
      /\ UNCHANGED <<mem, word>> /\ NoAccess

(* The caller's view of a register that is given the value v.              *)
Becomes(at, n, v) ==
    word' = [c \in DOMAIN word |-> IF c - at \in 0 .. n - 1 THEN Octet(v, c - at) ELSE word[c]]

(* dwt_write8, 16, 32bitoffsetreg.                                         *)
WriteValue ==
    \E n \in {1, 2, 4} : \E at \in Places(n), v \in 0 .. 2^n - 1 :
      /\ mem' = Written(at, Octets(v, n))
      /\ Becomes(at, n, v)
      /\ UNCHANGED got /\ NoAccess

(* The octets of dwt_modify8, 16, 32bitoffsetreg.                          *)
Masks(n, and, or) == Octets(and, n) \o Octets(or, n)

(* Setting one bit, as the macros do, clearing one, or replacing a field:  *)
(* every bit outside the mask keeps its value.                             *)
ModifyValue ==
    \E n \in {1, 2, 4} : \E at \in Places(n), field \in SUBSET (0 .. n - 1), v \in 0 .. 2^n - 1 :
      LET or == Sum({i \in field : Octet(v, i) = 1}) IN
      /\ mem' = Modified(at, Masks(n, Sum((0 .. n - 1) \ field), or))
      /\ Becomes(at, n, Sum({i \in 0 .. n - 1 : IF i \in field THEN Octet(v, i) = 1
                                                 ELSE word[at + i] = 1}))
      /\ UNCHANGED got /\ NoAccess

----------------------------------------------------------------------------
(* spiSelect of the port.                                                  *)

PMSC == 54  SYS_CTRL == 13  PANADR == 3  SYS_CFG == 4  SYS_MASK == 14  OTP_IF == 45
NO_SUB == 255

(* The header readBytes and writeBytes make.                               *)
PortHeader(a) ==
    IF a.off = NO_SUB THEN <<Direction(a.op) + a.file>>
    ELSE <<Direction(a.op) + 64 + a.file, a.off>>

R(reg, sub) == Access("read", reg, sub)
W(reg, sub) == Access("write", reg, sub)
EnableClock == <<R(PMSC, 0), W(PMSC, 0)>>
Idle == <<W(SYS_CTRL, NO_SUB)>>
Reset == (IF HardReset THEN <<>> ELSE <<R(PMSC, 0), W(PMSC, 0), W(PMSC, 0), W(PMSC, 0)>>) \o Idle
ReadBytesOtp == <<W(OTP_IF, 4), W(OTP_IF, 6), W(OTP_IF, 6), R(OTP_IF, 10), W(OTP_IF, 6)>>
ManageLde == ReadBytesOtp \o <<R(PMSC, 0), R(OTP_IF, 6), W(PMSC, 0), W(OTP_IF, 6), W(PMSC, 0)>>
SpiSelect ==
    EnableClock \o Reset \o <<W(PANADR, NO_SUB), W(SYS_CFG, NO_SUB), W(SYS_MASK, NO_SUB)>>
    \o EnableClock \o ManageLde \o EnableClock \o ReadBytesOtp \o ReadBytesOtp

SelectStep ==
    /\ step <= Len(SpiSelect)
    /\ LET a == SpiSelect[step] IN
       /\ asked' = [a EXCEPT !.op = "port"]
       /\ seen' = Decoded(PortHeader(a))
    /\ step' = step + 1
    /\ UNCHANGED <<Contents, indirect, bare, crc>>

Selected == step > Len(SpiSelect)

(* What a program does with the registers, after spiSelect.                *)
NextAccess ==
    \/ SelectStep
    \/ /\ Selected
       /\ \/ AccessRegister \/ FastCommand \/ WriteTxData \/ ReadRxData \/ EnableCrc

(* Values of one register file, wherever it is.                            *)
NextValue == ReadValue \/ WriteValue \/ ModifyValue

Next == NextAccess \/ NextValue

Spec == Init /\ [][Next]_vars

----------------------------------------------------------------------------
(* Properties.                                                             *)

TypeOK ==
    /\ mem \in [0 .. Cells - 1 -> 0 .. 1] /\ word \in [0 .. Cells - 1 -> 0 .. 1]
    /\ got.read \in 0 .. 15 /\ got.was \in 0 .. 15
    /\ indirect.file \in Files /\ indirect.off \in 0 .. TxBufferMax
    /\ seen.file \in Files
    /\ bare \in BOOLEAN /\ crc \in BOOLEAN
    /\ step \in 1 .. Len(SpiSelect) + 1

(* The chip carries out the access the caller means: the same kind, the    *)
(* same file and the same place in it, with headers of one and of two      *)
(* octets, with commands, and through the indirect pointer.                *)
Reaches == asked.op # "port" => seen = asked

(* Writes and modifications of one, two and four octets that overlap in    *)
(* any way leave in each octet what their callers made of it, and a value  *)
(* read is the value that was there.                                       *)
RegisterValues == mem = word /\ got.read = got.was

(* "force into idle mode": the access of idle() is the command that turns  *)
(* transmitter and receiver off.                                           *)
ForcesIdle == asked = Access("port", SYS_CTRL, NO_SUB) => seen = Command(0)

(* While the check is enabled, every write carries its check octet.        *)
CrcOfWrites == ~bare
=============================================================================
