---------------------------- MODULE MipsRamProofs ----------------------------
(* RAM devices for every size, heap and transaction: they do not overlap,     *)
(* nothing leaks, and they implement the arrays of bytes of ByteStore.        *)
EXTENDS MipsRam, MipsExecProofs

(* Two devices never share an array.                                          *)
Separate ==
  \A m, n \in handles : providers[m].data = providers[n].data => m = n

IInv == TypeOK /\ NoLeak /\ Separate

LEMMA MaxRamFacts == MaxRam \in Nat /\ MaxRam < WordSize
BY SizeFacts DEF MaxRam

(* What free leaves of the blocks of one kind.                                *)
LEMMA FreeFacts ==
  ASSUME NEW blocks, NEW block
  PROVE  /\ DOMAIN free(blocks, block) = DOMAIN blocks \ {block}
         /\ \A b \in DOMAIN blocks \ {block} : free(blocks, block)[b] = blocks[b]
BY DEF free

(* The transactions a device of any length accepts, although address + length *)
(* wraps around in the comparison that says so.                               *)
LEMMA CheckExact ==
  ASSUME NEW mem, NEW cbMem \in 0 .. MaxRam, NEW address \in Word, NEW length \in Word
  PROVE  mips_mem_read_write(mem, cbMem, address, length) = Success
           <=> /\ mem # NULL
               /\ length \in {1, 2, 4}
               /\ address % length = 0
               /\ address + length <= cbMem
<1>1. CASE mem = NULL \/ length \notin {1, 2, 4} \/ address % length # 0
  BY <1>1 DEF mips_mem_read_write, Success, InvalidHandle, InvalidLength, InvalidAlignment
<1>2. CASE mem # NULL /\ length \in {1, 2, 4} /\ address % length = 0
  <2>1. address \in Int /\ address >= 0 /\ address < WordSize /\ WordSize \in Nat
    BY SizeFacts DEF Word
  <2>2. cbMem \in Nat /\ cbMem < WordSize
    BY MaxRamFacts, <2>1
  <2>3. CASE address + length >= WordSize
    <3>1. address > WordSize - 1 - length /\ ~(address + length <= cbMem)
      BY <1>2, <2>1, <2>2, <2>3
    <3> QED BY <1>2, <3>1 DEF mips_mem_read_write, Success, InvalidAddress
  <2>4. CASE address + length < WordSize
    <3>1. Plus(address, length) = address + length /\ ~(address > WordSize - 1 - length)
      BY <1>2, <2>1, <2>4 DEF Plus
    <3>2. mips_mem_read_write(mem, cbMem, address, length) =
            IF address + length > cbMem THEN InvalidAddress ELSE Success
      BY <1>2, <3>1 DEF mips_mem_read_write
    <3>3. address + length > cbMem <=> ~(address + length <= cbMem)
      BY <1>2, <2>1, <2>2
    <3> QED BY <1>2, <3>2, <3>3 DEF Success, InvalidAddress
  <2> QED BY <1>2, <2>1, <2>3, <2>4
<1> QED BY <1>1, <1>2

(* The same of a handle of the client, in the words of ByteStore.             *)
LEMMA AcceptedExactly ==
  ASSUME IInv, NEW mem \in handles \cup {NULL}, NEW address \in Addresses, NEW length \in Lengths
  PROVE  Check(mem, address, length) = Success <=> Store!Accepts(mem, address, length)
<1>1. address \in Word /\ length \in Word /\ address \in Int /\ address >= 0
  BY HeapAssumption, WordIsInt
<1>2. DOMAIN Contents = handles /\ NULL \notin handles
  BY HeapAssumption DEF Contents, IInv, TypeOK
<1>3. CASE mem = NULL
  BY <1>2, <1>3 DEF Check, mips_mem_read_write, Store!Accepts, Success, InvalidHandle
<1>4. CASE mem \in handles
  <2> DEFINE cb == providers[mem].length
  <2>1. mem # NULL /\ cb \in 0 .. MaxRam /\ DOMAIN Contents[mem] = 0 .. cb - 1
    BY <1>2, <1>4 DEF IInv, TypeOK, Contents
  <2>2. Check(mem, address, length) = mips_mem_read_write(mem, cb, address, length)
    BY <2>1 DEF Check
  <2> HIDE DEF cb
  <2>3. Check(mem, address, length) = Success
          <=> length \in {1, 2, 4} /\ address % length = 0 /\ address + length <= cb
    BY <1>1, <2>1, <2>2, CheckExact
  <2>4. ASSUME length \in {1, 2, 4}
        PROVE  address + length <= cb
                 <=> Store!Span(address, length) \subseteq DOMAIN Contents[mem]
    <3>1. cb \in Int
      BY <2>1, MaxRamFacts
    <3>2. address + length - 1 \in Store!Span(address, length)
      BY <1>1, <2>4 DEF Store!Span
    <3>3. \A a \in Store!Span(address, length) : a \in Int /\ a >= 0 /\ a <= address + length - 1
      BY <1>1, <2>4 DEF Store!Span
    <3> QED BY <1>1, <2>1, <2>4, <3>1, <3>2, <3>3
  <2> QED BY <1>2, <1>4, <2>3, <2>4 DEF Store!Accepts
<1> QED BY <1>3, <1>4

----------------------------------------------------------------------------
(* Each step keeps the invariant and is one of ByteStore's, or none.          *)
Preserved == IInv' /\ (Store!Next \/ UNCHANGED Store!vars)

(* A call that touches no block.                                              *)
LEMMA Untouched ==
  ASSUME IInv, UNCHANGED << providers, arrays, handles >>
  PROVE  IInv' /\ Contents' = Contents
<1>1. IInv'
  BY DEF IInv, TypeOK, NoLeak, Separate
<1> QED BY <1>1 DEF Contents

LEMMA NoDeviceKept == ASSUME IInv, NEW cbMem, NoDevice(cbMem) PROVE Preserved
<1>1. IInv' /\ Contents' = Contents
  BY Untouched DEF NoDevice
<1>2. result' = Store!Result(Store!Success, NULL, << >>)
  BY DEF NoDevice, Returns, Result, Store!Result, Success, Store!Success
<1>3. Store!CreateNone
  BY <1>1, <1>2 DEF Store!CreateNone
<1> QED BY <1>1, <1>3 DEF Preserved, Store!Next

(* The data block is back before the caller knows.                            *)
LEMMA NoProviderKept ==
  ASSUME IInv, NEW cbMem, NoProvider(cbMem)
  PROVE  Preserved
<1>1. /\ DOMAIN arrays' = DOMAIN arrays
      /\ \A b \in DOMAIN arrays : arrays'[b] = arrays[b]
  <2>1. PICK data \in Unused, bytes \in [0 .. cbMem - 1 -> Garbage] :
          arrays' = OnNoProvider(malloc(arrays, data, bytes), data)
    BY DEF NoProvider
  <2>2. data \notin DOMAIN arrays
    BY DEF Unused
  <2>3. arrays' = free(malloc(arrays, data, bytes), data)
    BY <2>1 DEF OnNoProvider
  <2> DEFINE grown == malloc(arrays, data, bytes)
  <2>4. /\ DOMAIN grown = DOMAIN arrays \cup {data}
        /\ \A b \in DOMAIN arrays : grown[b] = arrays[b]
    BY <2>2 DEF malloc
  <2> HIDE DEF grown
  <2>5. /\ DOMAIN free(grown, data) = DOMAIN grown \ {data}
        /\ \A b \in DOMAIN grown \ {data} : free(grown, data)[b] = grown[b]
    BY FreeFacts
  <2>6. arrays' = free(grown, data)
    BY <2>3 DEF grown
  <2> QED BY <2>2, <2>4, <2>5, <2>6
<1>2. UNCHANGED << providers, handles >>
  BY DEF NoProvider
<1>3. IInv'
  BY <1>1, <1>2 DEF IInv, TypeOK, NoLeak, Separate
<1>4. Contents' = Contents
  BY <1>1, <1>2 DEF Contents, IInv, TypeOK
<1>5. result' = Store!Result(Store!Success, NULL, << >>)
  BY DEF NoProvider, Returns, Result, Store!Result, Success, Store!Success
<1>6. Store!CreateNone
  BY <1>4, <1>5 DEF Store!CreateNone
<1> QED BY <1>3, <1>6 DEF Preserved, Store!Next

LEMMA CreatesKept ==
  ASSUME IInv, NEW cbMem \in Sizes \cup {CbMem}, Creates(cbMem)
  PROVE  Preserved
<1>1. PICK data \in Unused, mem \in Unused, bytes \in [0 .. cbMem - 1 -> Garbage] :
        /\ data # mem
        /\ arrays' = malloc(arrays, data, bytes)
        /\ providers' = malloc(providers, mem, [length |-> cbMem, data |-> data])
        /\ handles' = handles \cup {mem}
        /\ Returns(mem, << >>)
  BY DEF Creates
<1>2. data \notin DOMAIN arrays /\ mem \notin DOMAIN providers /\ mem \in Blocks /\ data \in Blocks
  BY DEF Unused
<1>3. /\ DOMAIN arrays' = DOMAIN arrays \cup {data}
      /\ arrays'[data] = bytes
      /\ \A b \in DOMAIN arrays : arrays'[b] = arrays[b]
  <2>1. /\ DOMAIN malloc(arrays, data, bytes) = DOMAIN arrays \cup {data}
        /\ malloc(arrays, data, bytes)[data] = bytes
        /\ \A b \in DOMAIN arrays : b # data => malloc(arrays, data, bytes)[b] = arrays[b]
    BY DEF malloc
  <2> QED BY <1>1, <1>2, <2>1
<1>4. /\ DOMAIN providers' = DOMAIN providers \cup {mem}
      /\ providers'[mem].length = cbMem /\ providers'[mem].data = data
      /\ \A b \in DOMAIN providers : providers'[b] = providers[b]
  <2> DEFINE new == [length |-> cbMem, data |-> data]
  <2>1. /\ DOMAIN malloc(providers, mem, new) = DOMAIN providers \cup {mem}
        /\ malloc(providers, mem, new)[mem] = new
        /\ \A b \in DOMAIN providers : b # mem => malloc(providers, mem, new)[b] = providers[b]
    BY DEF malloc
  <2>2. providers' = malloc(providers, mem, new) /\ new.length = cbMem /\ new.data = data
    BY <1>1
  <2> HIDE DEF new
  <2> QED BY <1>2, <2>1, <2>2
<1>5. cbMem \in 0 .. MaxRam
  <2>1. cbMem \in Nat
    BY HeapAssumption, RamAssumption
  <2> QED BY <2>1, MaxRamFacts DEF Creates, TooLarge
<1>6. bytes \in [0 .. cbMem - 1 -> Byte]
  BY HeapAssumption
<1>7. TypeOK'
  BY <1>1, <1>2, <1>3, <1>4, <1>5, <1>6 DEF TypeOK, IInv
<1>8. NoLeak'
  BY <1>1, <1>2, <1>3, <1>4 DEF NoLeak, TypeOK, IInv
<1>9. Separate'
  BY <1>1, <1>2, <1>3, <1>4 DEF Separate, NoLeak, TypeOK, IInv
<1>10. Store!Create(mem)
  <2>1. DOMAIN Contents = handles /\ DOMAIN Contents' = handles \cup {mem} /\ mem \notin handles
    BY <1>1, <1>2 DEF Contents, IInv, TypeOK
  <2>2. \A other \in handles : Contents'[other] = Contents[other]
    BY <1>1, <1>3, <1>4 DEF Contents, IInv, TypeOK
  <2>3. result' = Store!Result(Store!Success, mem, << >>)
    BY <1>1 DEF Returns, Result, Store!Result, Success, Store!Success
  <2> QED BY <2>1, <2>2, <2>3 DEF Store!Create
<1> QED BY <1>2, <1>7, <1>8, <1>9, <1>10 DEF Preserved, IInv, Store!Next

LEMMA FreeKept ==
  ASSUME IInv, NEW mem \in handles \cup {NULL}, mips_mem_free(mem)
  PROVE  Preserved
<1>1. NULL \notin handles
  BY HeapAssumption DEF IInv, TypeOK
<1>2. result' = Store!Result(Store!Success, NULL, << >>)
  BY DEF mips_mem_free, Returns, Result, Store!Result, Success, Store!Success
<1>3. CASE mem = NULL
  <2>1. UNCHANGED << providers, arrays, handles >>
    BY <1>1, <1>3 DEF mips_mem_free
  <2>2. IInv' /\ Contents' = Contents
    BY <2>1, Untouched
  <2> QED BY <1>2, <2>2 DEF Preserved, Store!Next, Store!CreateNone
<1>4. CASE mem \in handles
  <2> DEFINE data == providers[mem].data
  <2>1. /\ DOMAIN arrays' = DOMAIN arrays \ {data}
        /\ \A b \in DOMAIN arrays \ {data} : arrays'[b] = arrays[b]
    BY <1>1, <1>4, FreeFacts DEF mips_mem_free
  <2>2. /\ DOMAIN providers' = DOMAIN providers \ {mem}
        /\ \A b \in DOMAIN providers \ {mem} : providers'[b] = providers[b]
    BY <1>1, <1>4, FreeFacts DEF mips_mem_free
  <2>3. handles' = handles \ {mem}
    BY DEF mips_mem_free
  <2>4. \A other \in handles \ {mem} : providers[other].data \in DOMAIN arrays \ {data}
    BY <1>4 DEF IInv, TypeOK, Separate
  <2> HIDE DEF data
  <2>5. TypeOK'
    BY <2>1, <2>2, <2>3, <2>4 DEF TypeOK, IInv
  <2>6. NoLeak'
    BY <1>4, <2>1, <2>2, <2>3, <2>4 DEF NoLeak, IInv, data
  <2>7. Separate'
    BY <2>2, <2>3 DEF Separate, NoLeak, IInv
  <2>8. Store!Free(mem)
    <3>1. mem \in DOMAIN Contents
      BY <1>4 DEF Contents
    <3>2. Contents' = [other \in DOMAIN Contents \ {mem} |-> Contents[other]]
      BY <2>1, <2>2, <2>3, <2>4 DEF Contents, IInv, TypeOK
    <3> QED BY <1>2, <3>1, <3>2 DEF Store!Free
  <2>9. mem \in Blocks
    BY <1>4 DEF IInv, TypeOK
  <2> QED BY <2>5, <2>6, <2>7, <2>8, <2>9 DEF Preserved, IInv, Store!Next
<1> QED BY <1>3, <1>4

(* A transaction is refused by the device and by ByteStore, or by neither.    *)
LEMMA RefusedKept ==
  ASSUME IInv, NEW mem \in handles \cup {NULL}, NEW address \in Addresses, NEW length \in Lengths,
         Refused(mem, address, length)
  PROVE  Preserved
<1>1. IInv' /\ Contents' = Contents
  BY Untouched DEF Refused
<1>2. ~Store!Accepts(mem, address, length)
  BY AcceptedExactly DEF Refused
<1>3. result'.err # Store!Success
  BY DEF Refused, Result, Success, Store!Success
<1>4. Store!Refuse(mem, address, length) /\ mem \in Blocks \cup {NULL}
  BY <1>1, <1>2, <1>3 DEF Store!Refuse, IInv, TypeOK
<1> QED BY <1>1, <1>4 DEF Preserved, Store!Next

(* What an accepted transaction can rely on.                                  *)
LEMMA AcceptedFacts ==
  ASSUME IInv, NEW mem \in handles \cup {NULL}, NEW address \in Addresses, NEW length \in Lengths,
         Check(mem, address, length) = Success
  PROVE  /\ Store!Accepts(mem, address, length)
         /\ mem \in handles /\ mem \in Blocks
         /\ address \in Nat /\ length \in {1, 2, 4}
         /\ address + length <= providers[mem].length
         /\ providers[mem].length \in Nat
<1>1. Store!Accepts(mem, address, length)
  BY AcceptedExactly
<1>2. address \in Word /\ length \in Word /\ address \in Nat
  BY HeapAssumption, WordIsInt
<1>3. mem \in handles /\ length \in {1, 2, 4}
  BY <1>1 DEF Store!Accepts, Contents
<1>4. mem # NULL /\ mem \in Blocks /\ providers[mem].length \in 0 .. MaxRam
  BY <1>3, HeapAssumption DEF IInv, TypeOK
<1> DEFINE cb == providers[mem].length
<1>5. mips_mem_read_write(mem, cb, address, length) = Success /\ cb \in 0 .. MaxRam
  BY <1>4 DEF Check
<1> HIDE DEF cb
<1>6. address + length <= cb /\ cb \in Nat
  BY <1>2, <1>5, CheckExact, MaxRamFacts
<1> QED BY <1>1, <1>2, <1>3, <1>4, <1>6 DEF cb

LEMMA ReadKept ==
  ASSUME IInv, NEW mem \in handles \cup {NULL}, NEW address \in Addresses, NEW length \in Lengths,
         ram_read(mem, address, length)
  PROVE  Preserved
<1>1. CASE Refused(mem, address, length)
  BY <1>1, RefusedKept
<1>2. CASE ~Refused(mem, address, length)
  <2>1. /\ Check(mem, address, length) = Success
        /\ Returns(NULL, mips_mem_read(arrays[providers[mem].data], address, length))
        /\ UNCHANGED << providers, arrays, handles >>
    BY <1>2 DEF ram_read
  <2>2. IInv' /\ Contents' = Contents
    BY <2>1, Untouched
  <2>3. Store!Accepts(mem, address, length) /\ mem \in handles /\ mem \in Blocks
    BY <2>1, AcceptedFacts
  <2>4. Contents[mem] = arrays[providers[mem].data]
    BY <2>3 DEF Contents
  <2>5. Store!Read(mem, address, length)
    BY <2>1, <2>2, <2>3, <2>4
      DEF Store!Read, Returns, Result, Store!Result, Success, Store!Success, mips_mem_read
  <2> QED BY <2>2, <2>3, <2>5 DEF Preserved, Store!Next
<1> QED BY <1>1, <1>2

LEMMA WriteKept ==
  ASSUME IInv, NEW mem \in handles \cup {NULL}, NEW address \in Addresses, NEW length \in Lengths,
         NEW bytes \in Payloads, ram_write(mem, address, length, bytes)
  PROVE  Preserved
<1>1. CASE Refused(mem, address, length)
  BY <1>1, RefusedKept
<1>2. CASE ~Refused(mem, address, length)
  <2> DEFINE data == providers[mem].data
             cb == providers[mem].length
             new == mips_mem_write(arrays[data], address, length, bytes)
  <2>1. /\ Check(mem, address, length) = Success
        /\ arrays' = [arrays EXCEPT ![data] = new]
        /\ Returns(NULL, [k \in 0 .. length - 1 |-> bytes[k]])
        /\ UNCHANGED << providers, handles >>
    BY <1>2 DEF ram_write
  <2>2. /\ Store!Accepts(mem, address, length)
        /\ mem \in handles /\ mem \in Blocks
        /\ address \in Nat /\ length \in {1, 2, 4}
        /\ address + length <= cb
        /\ cb \in Nat
    BY <2>1, AcceptedFacts
  <2>3. data \in DOMAIN arrays /\ arrays[data] \in [0 .. cb - 1 -> Byte]
    BY <2>2 DEF IInv, TypeOK
  <2>4. /\ new \in [0 .. cb - 1 -> Byte]
        /\ \A a \in 0 .. cb - 1 : a \notin address .. address + length - 1 => new[a] = arrays[data][a]
        /\ \A k \in 0 .. length - 1 : new[address + k] = bytes[k]
    <3> DEFINE old == arrays[data]
    <3>1. old \in [0 .. cb - 1 -> Byte] /\ cb \in Nat /\ address + length <= cb
      BY <2>2, <2>3
    <3>2. \A k \in 0 .. 3 : bytes[k] \in Byte
      BY HeapAssumption
    <3> HIDE DEF old, cb
    <3>3. new = [a \in 0 .. cb - 1 |->
                   IF a \in address .. address + length - 1 THEN bytes[a - address] ELSE old[a]]
      BY <3>1 DEF mips_mem_write, old
    <3> HIDE DEF new
    <3>4. \A a \in address .. address + length - 1 : a - address \in 0 .. 3
      BY <2>2
    <3>5. \A k \in 0 .. length - 1 :
            /\ address + k \in address .. address + length - 1
            /\ address + k \in 0 .. cb - 1
            /\ (address + k) - address = k
      BY <2>2, <3>1
    <3> QED BY <3>1, <3>2, <3>3, <3>4, <3>5 DEF old
  <2> HIDE DEF new
  <2>5. /\ DOMAIN arrays' = DOMAIN arrays
        /\ arrays'[data] = new
        /\ \A b \in DOMAIN arrays : b # data => arrays'[b] = arrays[b]
    BY <2>1, <2>3
  <2>6. TypeOK'
    <3>1. providers' = providers /\ handles' = handles
      BY <2>1
    <3>2. \A m \in handles : arrays'[providers[m].data] \in [0 .. providers[m].length - 1 -> Byte]
      <4> TAKE m \in handles
      <4>1. CASE m = mem
        BY <2>4, <2>5, <4>1
      <4>2. CASE m # mem
        <5>1. providers[m].data # data /\ providers[m].data \in DOMAIN arrays
          BY <2>2, <4>2 DEF IInv, Separate, TypeOK
        <5>2. arrays'[providers[m].data] = arrays[providers[m].data]
          BY <2>5, <5>1
        <5> QED BY <5>2 DEF IInv, TypeOK
      <4> QED BY <4>1, <4>2
    <3> QED BY <2>5, <3>1, <3>2 DEF IInv, TypeOK
  <2>7. NoLeak' /\ Separate'
    BY <2>1, <2>5 DEF IInv, NoLeak, Separate
  <2>8. Store!Write(mem, address, length)
    <3>1. DOMAIN Contents = handles /\ DOMAIN Contents' = handles
      BY <2>1 DEF Contents
    <3>2. Contents[mem] = arrays[data] /\ Contents'[mem] = new
      BY <2>1, <2>2, <2>5 DEF Contents
    <3>3. \A other \in handles \ {mem} : Contents'[other] = Contents[other]
      <4> TAKE other \in handles \ {mem}
      <4>1. providers[other].data # data /\ providers[other].data \in DOMAIN arrays
        BY <2>2 DEF IInv, Separate, TypeOK
      <4> QED BY <2>1, <2>5, <4>1 DEF Contents
    <3>4. DOMAIN new = 0 .. cb - 1 /\ DOMAIN Contents[mem] = 0 .. cb - 1
      BY <2>3, <2>4, <3>2
    <3>5. \A a \in DOMAIN Contents[mem] \ Store!Span(address, length) :
            Contents'[mem][a] = Contents[mem][a]
      BY <2>4, <3>2, <3>4 DEF Store!Span
    <3>6. result' = Store!Result(Store!Success, NULL, [k \in 0 .. length - 1 |-> Contents'[mem][address + k]])
      BY <2>1, <2>4, <3>2 DEF Returns, Result, Store!Result, Success, Store!Success
    <3> QED BY <2>2, <3>1, <3>2, <3>3, <3>4, <3>5, <3>6 DEF Store!Write
  <2> QED BY <2>2, <2>6, <2>7, <2>8 DEF Preserved, IInv, Store!Next
<1> QED BY <1>1, <1>2

----------------------------------------------------------------------------
LEMMA InitKept == Init => IInv /\ Store!Init
<1> SUFFICES ASSUME Init PROVE IInv /\ Store!Init
  OBVIOUS
<1>1. DOMAIN providers = {} /\ DOMAIN arrays = {} /\ handles = {}
  BY DEF Init
<1>2. Contents = << >>
  BY <1>1 DEF Contents
<1>3. result = Store!Result(Store!Success, NULL, << >>)
  BY DEF Init, Result, Store!Result, Success, Store!Success
<1>4. IInv
  BY <1>1 DEF IInv, TypeOK, NoLeak, Separate
<1> QED BY <1>2, <1>3, <1>4 DEF Store!Init

LEMMA StepKept == IInv /\ [Next]_vars => IInv' /\ [Store!Next]_Store!vars
<1> SUFFICES ASSUME IInv, [Next]_vars PROVE IInv' /\ [Store!Next]_Store!vars
  OBVIOUS
<1>1. CASE UNCHANGED vars
  <2>1. IInv' /\ Contents' = Contents
    BY <1>1, Untouched DEF vars
  <2> QED BY <1>1, <2>1 DEF vars, Store!vars
<1>2. ASSUME NEW cbMem \in Sizes \cup {CbMem}, mips_mem_create_ram(cbMem) PROVE Preserved
  BY <1>2, NoDeviceKept, NoProviderKept, CreatesKept DEF mips_mem_create_ram
<1>3. ASSUME NEW mem \in handles \cup {NULL}, mips_mem_free(mem) PROVE Preserved
  BY <1>3, FreeKept
<1>4. ASSUME NEW mem \in handles \cup {NULL}, NEW address \in Addresses, NEW length \in Lengths,
             ram_read(mem, address, length)
      PROVE  Preserved
  BY <1>4, ReadKept
<1>5. ASSUME NEW mem \in handles \cup {NULL}, NEW address \in Addresses, NEW length \in Lengths,
             NEW bytes \in Payloads, ram_write(mem, address, length, bytes)
      PROVE  Preserved
  BY <1>5, WriteKept
<1> QED BY <1>1, <1>2, <1>3, <1>4, <1>5 DEF Next, Preserved

LEMMA Inductive == Spec => []IInv
BY InitKept, StepKept, PTL DEF Spec

(* Every device keeps its length and its array of bytes (mips_mem_ram.cpp).   *)
THEOREM RamTypes == Spec => []TypeOK
BY Inductive, PTL DEF IInv

(* Whichever malloc fails, every block is a live device's (lines 25 to 33),   *)
(* and freeing a device gives back both of its blocks (lines 108 to 115).     *)
THEOREM RamNeverLeaks == Spec => []NoLeak
BY Inductive, PTL DEF IInv

(* Devices of every size implement the arrays of bytes of mips_mem.h, which   *)
(* do not overlap and whose bounds are stated on integers that do not wrap.   *)
THEOREM RamImplementsByteStore == Spec => DevicesAreArrays
BY InitKept, StepKept, Inductive, PTL DEF Spec, DevicesAreArrays, Store!Spec
=============================================================================
