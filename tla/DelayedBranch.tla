--------------------------- MODULE DelayedBranch ---------------------------
(* What the CPU promises about the order of execution, without saying how it  *)
(* keeps it: the instruction after a branch (its delay slot) is executed      *)
(* before the branch's target, and everything else runs in address order.     *)
EXTENDS MipsWord

VARIABLES
  pc,          \* address of the next instruction
  pending,     \* where the last executed instruction jumped, or None
  last         \* what happened last: "executed" an instruction, "placed" the
               \* pc by the client's hand, or "still": neither

vars == << pc, pending, last >>

None == -1                         \* not an address

Aligned == {a \in Word : a % 4 = 0}

Init == pc = 0 /\ pending = None /\ last = "still"

(* An instruction runs: the pc goes where the instruction before it decided.  *)
Follow ==
  /\ last' = "executed"
  /\ pc' = IF pending = None THEN Plus(pc, 4) ELSE pending

(* An instruction that does not jump, and one that does.                      *)
Sequential == Follow /\ pending' = None
Branch == Follow /\ pending' \in Word

(* The client places the pc; a pending jump is forgotten.                     *)
Seek == last' = "placed" /\ pc' \in Aligned /\ pending' = None

(* Anything else, a step that fails among it, moves nothing.                  *)
Still == last' = "still" /\ UNCHANGED << pc, pending >>

Next == Sequential \/ Branch \/ Seek \/ Still

Spec == Init /\ [][Next]_vars
=============================================================================
