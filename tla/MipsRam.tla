------------------------------ MODULE MipsRam ------------------------------
(* The life of RAM devices: mips_mem_ram.cpp on a heap whose malloc may fail, *)
(* for a client that keeps to mips_mem.h: it uses and frees the handles it    *)
(* has, each at most once, and NULL.                                          *)
EXTENDS MipsMem

CONSTANTS
  Blocks,            \* addresses malloc returns
  Sizes,             \* what clients ask for besides CbMem bytes
  Garbage,           \* bytes malloc leaves in a block
  Addresses, Lengths,            \* the transactions of the client, good and bad
  Payloads           \* the bytes it writes, those of a shorter transaction first

(* 0x20000000, an eighth of the address space.                                *)
MaxRam == WordSize \div 8

ASSUME HeapAssumption ==
  /\ NULL \notin Blocks
  /\ Sizes \subseteq Nat
  /\ Garbage \subseteq Byte /\ Payloads \subseteq [0 .. 3 -> Byte]
  /\ Addresses \subseteq Word /\ Lengths \subseteq Word

VARIABLES
  providers,   \* the allocated blocks that hold a struct mips_mem_provider ...
  arrays,      \* ... and those that hold bytes
  handles,     \* the devices the client holds
  result       \* what the last call returned

vars == << providers, arrays, handles, result >>

Result(err, handle, bytes) == [err |-> err, handle |-> handle, bytes |-> bytes]
Returns(handle, bytes) == result' = Result(Success, handle, bytes)

Init ==
  /\ providers = << >>
  /\ arrays = << >>
  /\ handles = {}
  /\ result = Result(Success, NULL, << >>)

Unused == Blocks \ (DOMAIN providers \cup DOMAIN arrays)
malloc(blocks, block, content) ==
  [b \in DOMAIN blocks \cup {block} |-> IF b = block THEN content ELSE blocks[b]]
free(blocks, block) == [b \in DOMAIN blocks \ {block} |-> blocks[b]]

TooLarge_Never(cbMem) == FALSE
TooLarge(cbMem) == cbMem > MaxRam

(* No device: too much is asked for, or one of the two mallocs fails.         *)
NoDevice(cbMem) ==
  /\ UNCHANGED << providers, arrays, handles >>
  /\ Returns(NULL, << >>)

OnNoProvider_Leaks(blocks, data) == blocks
OnNoProvider(blocks, data) == free(blocks, data)

NoProvider(cbMem) ==
  /\ ~TooLarge(cbMem)
  /\ \E data \in Unused, bytes \in [0 .. cbMem - 1 -> Garbage] :
       arrays' = OnNoProvider(malloc(arrays, data, bytes), data)
  /\ UNCHANGED << providers, handles >>
  /\ Returns(NULL, << >>)

Creates(cbMem) ==
  /\ ~TooLarge(cbMem)
  /\ \E data, mem \in Unused, bytes \in [0 .. cbMem - 1 -> Garbage] :
       /\ data # mem
       /\ arrays' = malloc(arrays, data, bytes)
       /\ providers' = malloc(providers, mem, [length |-> cbMem, data |-> data])
       /\ handles' = handles \cup {mem}
       /\ Returns(mem, << >>)

mips_mem_create_ram(cbMem) == NoDevice(cbMem) \/ NoProvider(cbMem) \/ Creates(cbMem)

mips_mem_free(mem) ==
  /\ arrays' = IF mem = NULL THEN arrays ELSE free(arrays, providers[mem].data)
  /\ providers' = IF mem = NULL THEN providers ELSE free(providers, mem)
  /\ handles' = handles \ {mem}
  /\ Returns(NULL, << >>)

(* The result of mips_mem_read_write on a handle of the client.               *)
Check(mem, address, length) ==
  mips_mem_read_write(mem, IF mem = NULL THEN 0 ELSE providers[mem].length, address, length)

Refused(mem, address, length) ==
  /\ Check(mem, address, length) # Success
  /\ result' = Result(Check(mem, address, length), NULL, << >>)
  /\ UNCHANGED << providers, arrays, handles >>

(* mips_mem_read and mips_mem_write.                                          *)
ram_read(mem, address, length) ==
  \/ Refused(mem, address, length)
  \/ /\ Check(mem, address, length) = Success
     /\ Returns(NULL, mips_mem_read(arrays[providers[mem].data], address, length))
     /\ UNCHANGED << providers, arrays, handles >>

ram_write(mem, address, length, bytes) ==
  \/ Refused(mem, address, length)
  \/ /\ Check(mem, address, length) = Success
     /\ arrays' = [arrays EXCEPT ![providers[mem].data] =
                     mips_mem_write(@, address, length, bytes)]
     /\ Returns(NULL, [k \in 0 .. length - 1 |-> bytes[k]])
     /\ UNCHANGED << providers, handles >>

Next ==
  \/ \E cbMem \in Sizes \cup {CbMem} : mips_mem_create_ram(cbMem)
  \/ \E mem \in handles \cup {NULL} : mips_mem_free(mem)
  \/ \E mem \in handles \cup {NULL}, address \in Addresses, length \in Lengths :
       \/ ram_read(mem, address, length)
       \/ \E bytes \in Payloads : ram_write(mem, address, length, bytes)

Spec == Init /\ [][Next]_vars
----------------------------------------------------------------------------
(* Every device keeps the length and the array it was created with.           *)
TypeOK ==
  /\ DOMAIN providers \cup DOMAIN arrays \subseteq Blocks
  /\ handles \subseteq DOMAIN providers
  /\ \A mem \in handles :
       /\ providers[mem].length \in 0 .. MaxRam
       /\ providers[mem].data \in DOMAIN arrays
       /\ arrays[providers[mem].data] \in [0 .. providers[mem].length - 1 -> Byte]

(* Nothing leaks, whichever malloc fails: every block on the heap is a device *)
(* the client can still free, or the array of one.                            *)
NoLeak ==
  /\ DOMAIN providers = handles
  /\ DOMAIN arrays = {providers[mem].data : mem \in handles}

(* The devices are what mips_mem.h promises: arrays of bytes of their own.    *)
Contents == [mem \in handles |-> arrays[providers[mem].data]]
Store == INSTANCE ByteStore WITH Handles <- Blocks, memory <- Contents
DevicesAreArrays == Store!Spec
=============================================================================
