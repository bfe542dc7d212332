----------------------------- MODULE TestLedger -----------------------------
(* What mips_test.h promises its users, without ids, statuses or a list of    *)
(* tests: at most one test is open, a test that closes is counted once under  *)
(* its instruction, and the report at the end is that count.                  *)
EXTENDS Integers

CONSTANT Instructions

VARIABLES
  open,        \* the instruction under test, or None
  tally,       \* closed tests of each instruction, and how many passed
  report,      \* the last statistics printed, all zero before the first
  stopped      \* a client broke the protocol and was stopped

vars == << open, tally, report, stopped >>

None == "none"
Blank == [i \in Instructions |-> [total |-> 0, passed |-> 0]]

Init ==
  /\ open = None
  /\ tally = Blank
  /\ report = Blank
  /\ stopped = FALSE

Open(i) ==
  /\ ~stopped
  /\ open = None
  /\ open' = i
  /\ UNCHANGED << tally, report, stopped >>

Close(passed) ==
  /\ ~stopped
  /\ open # None
  /\ tally' = [tally EXCEPT ![open] = [total |-> @.total + 1, passed |-> @.passed + passed]]
  /\ open' = None
  /\ UNCHANGED << report, stopped >>

Publish ==
  /\ ~stopped
  /\ open = None
  /\ report' = tally
  /\ UNCHANGED << open, tally, stopped >>

Stop ==
  /\ ~stopped
  /\ stopped' = TRUE
  /\ UNCHANGED << open, tally, report >>

Next ==
  \/ \E i \in Instructions : Open(i)
  \/ \E passed \in {0, 1} : Close(passed)
  \/ Publish
  \/ Stop

Spec == Init /\ [][Next]_vars
=============================================================================
