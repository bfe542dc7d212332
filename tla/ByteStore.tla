----------------------------- MODULE ByteStore -----------------------------
(* What mips_mem.h promises of its devices, without blocks on a heap: each is *)
(* an array of bytes of its own, read and written in aligned transactions     *)
(* that lie within it, from its creation to the one time it is freed.         *)
EXTENDS Integers

CONSTANTS
  Handles, NULL,
  Addresses, Lengths           \* those the users of the devices try

VARIABLES
  memory,      \* the bytes of each live device
  result       \* of the last call

vars == << memory, result >>

Success == "mips_Success"
Result(err, handle, bytes) == [err |-> err, handle |-> handle, bytes |-> bytes]

Init == memory = << >> /\ result = Result(Success, NULL, << >>)

(* A new device holds anything; none of the live ones changes.                *)
Create(h) ==
  /\ h \notin DOMAIN memory
  /\ DOMAIN memory' = DOMAIN memory \cup {h}
  /\ \A other \in DOMAIN memory : memory'[other] = memory[other]
  /\ result' = Result(Success, h, << >>)

CreateNone == memory' = memory /\ result' = Result(Success, NULL, << >>)

Free(h) ==
  /\ h \in DOMAIN memory
  /\ memory' = [other \in DOMAIN memory \ {h} |-> memory[other]]
  /\ result' = Result(Success, NULL, << >>)

Span(address, length) == address .. address + length - 1

(* Stated on integers, which do not wrap.                                     *)
Accepts(h, address, length) ==
  /\ h \in DOMAIN memory
  /\ length \in {1, 2, 4}
  /\ address % length = 0
  /\ Span(address, length) \subseteq DOMAIN memory[h]

Read(h, address, length) ==
  /\ Accepts(h, address, length)
  /\ memory' = memory
  /\ result' = Result(Success, NULL, [k \in 0 .. length - 1 |-> memory[h][address + k]])

Write(h, address, length) ==
  /\ Accepts(h, address, length)
  /\ \A other \in DOMAIN memory \ {h} : memory'[other] = memory[other]
  /\ \A a \in DOMAIN memory[h] \ Span(address, length) : memory'[h][a] = memory[h][a]
  /\ DOMAIN memory' = DOMAIN memory
  /\ DOMAIN memory'[h] = DOMAIN memory[h]
  /\ result' = Result(Success, NULL, [k \in 0 .. length - 1 |-> memory'[h][address + k]])

Refuse(h, address, length) ==
  /\ ~Accepts(h, address, length)
  /\ memory' = memory
  /\ result'.err # Success
Next ==
  \/ \E h \in Handles : Create(h) \/ Free(h)
  \/ CreateNone
  \/ \E h \in Handles \cup {NULL}, address \in Addresses, length \in Lengths :
       Read(h, address, length) \/ Write(h, address, length) \/ Refuse(h, address, length)

Spec == Init /\ [][Next]_vars
=============================================================================
