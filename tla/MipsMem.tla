------------------------------ MODULE MipsMem ------------------------------
(* The memory interface of mips_mem.h as the RAM device implements it: which  *)
(* transactions it accepts, and what an accepted one does to its bytes.       *)
EXTENDS MipsWord

CONSTANT CbMem                     \* the device's length in bytes

RamAddress == 0 .. CbMem - 1
RamData == [RamAddress -> Byte]

(* mips_mem_create_ram gives no more than 512MB of the 4GB address space.     *)
ASSUME RamAssumption == CbMem \in Nat /\ CbMem <= WordSize \div 8

NULL == "NULL"
Handle == {NULL, "ram"}            \* what a mips_mem_h can be

Success == "mips_Success"
InvalidHandle == "mips_ErrorInvalidHandle"
InvalidLength == "mips_ExceptionInvalidLength"
InvalidAlignment == "mips_ExceptionInvalidAlignment"
InvalidAddress == "mips_ExceptionInvalidAddress"

mips_mem_read_write_NoAlignment(mem, cbMem, address, length) ==
  IF mem = NULL THEN InvalidHandle
  ELSE IF length \notin {1, 2, 4} THEN InvalidLength
  ELSE IF Plus(address, length) > cbMem \/ address > WordSize - 1 - length
       THEN InvalidAddress
  ELSE Success

(* The result of mips_mem_read_write on a device of cbMem bytes; the sum      *)
(* address + length wraps, and the second comparison is there to catch that.  *)
mips_mem_read_write(mem, cbMem, address, length) ==
  IF mem = NULL THEN InvalidHandle
  ELSE IF length \notin {1, 2, 4} THEN InvalidLength
  ELSE IF address % length # 0 THEN InvalidAlignment
  ELSE IF \/ Plus(address, length) > cbMem
          \/ address > WordSize - 1 - length
       THEN InvalidAddress
  ELSE Success

(* The bytes an accepted transaction moves.                                   *)
mips_mem_read(data, address, length) ==
  [k \in 0 .. length - 1 |-> data[address + k]]

mips_mem_write(data, address, length, bytes) ==
  [a \in DOMAIN data |->
     IF a \in address .. address + length - 1 THEN bytes[a - address] ELSE data[a]]
=============================================================================
