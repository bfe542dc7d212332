------------------------------ MODULE MipsTest ------------------------------
(* The test framework of mips_test.h: a suite is begun, tests are begun and   *)
(* ended one at a time, and the end of the suite prints statistics.  It keeps *)
(* every test in a list and calls exit(1) on a client that does not alternate.*)
EXTENDS Integers, Sequences, FiniteSets

CONSTANTS
  Names,             \* instruction names as clients spell them
  Upper,             \* ::toupper over those
  Messages,          \* what a client may say about a test
  MaxTests           \* bound on the length of sg_tests

Instructions == {Upper[n] : n \in Names}
NoMessage == "NULL"
None == "none"

ASSUME NamesAssumption ==
  /\ Upper \in [Names -> STRING]
  /\ None \notin Instructions
  /\ MaxTests \in Nat

VARIABLES
  process,           \* "running", or "exited" by exit(1)
  sg_started,
  sg_tests,          \* the tests so far, the last one begun at the end
  report             \* the statistics printed last, all zero before the first

vars == << process, sg_started, sg_tests, report >>

test_info_t ==
  [testId : Nat, instruction : Instructions, status : {-1, 0, 1},
   message : Messages \cup {NoMessage}]

back == sg_tests[Len(sg_tests)]
Unfinished == Len(sg_tests) > 0 /\ back.status = -1

Init ==
  /\ process = "running"
  /\ sg_started = FALSE
  /\ sg_tests = << >>
  /\ report = [i \in Instructions |-> [total |-> 0, passed |-> 0]]

(* exit(1), with a message that names the mistake.                            *)
Exit ==
  /\ process' = "exited"
  /\ UNCHANGED << sg_started, sg_tests, report >>

mips_test_begin_suite ==
  /\ process = "running"
  /\ \/ sg_started /\ Exit
     \/ /\ ~sg_started
        /\ sg_started' = TRUE
        /\ UNCHANGED << process, sg_tests, report >>

(* The id handed to the client is the place in the list, counted from 0.      *)
NewTest_LowerCase(name) ==
  [testId |-> Len(sg_tests), instruction |-> name, status |-> -1, message |-> NoMessage]
NewTest(name) ==
  [testId |-> Len(sg_tests), instruction |-> Upper[name], status |-> -1,
   message |-> NoMessage]

mips_test_begin_test_Nested(name) ==
  /\ process = "running"
  /\ \/ ~sg_started /\ Exit
     \/ /\ sg_started
        /\ Len(sg_tests) < MaxTests
        /\ sg_tests' = Append(sg_tests, NewTest(name))
        /\ UNCHANGED << process, sg_started, report >>

(* A name that is not a known instruction only earns a warning.               *)
mips_test_begin_test(name) ==
  /\ process = "running"
  /\ \/ (~sg_started \/ Unfinished) /\ Exit
     \/ /\ sg_started
        /\ ~Unfinished
        /\ Len(sg_tests) < MaxTests
        /\ sg_tests' = Append(sg_tests, NewTest(name))
        /\ UNCHANGED << process, sg_started, report >>

(* The last test with its verdict, and with the message if there is one.      *)
Finished(passed, msg) ==
  [back EXCEPT !.status = IF passed = 0 THEN 0 ELSE 1,
               !.message = IF msg = NoMessage THEN @ ELSE msg]

mips_test_end_test_Again(testId, passed, msg) ==
  /\ process = "running"
  /\ IF sg_started /\ Len(sg_tests) > 0 /\ back.testId = testId
     THEN /\ sg_tests' = [sg_tests EXCEPT ![Len(sg_tests)] = Finished(passed, msg)]
          /\ UNCHANGED << process, sg_started, report >>
     ELSE Exit

mips_test_end_test(testId, passed, msg) ==
  /\ process = "running"
  /\ IF sg_started /\ Unfinished /\ back.testId = testId
     THEN /\ sg_tests' = [sg_tests EXCEPT ![Len(sg_tests)] = Finished(passed, msg)]
          /\ UNCHANGED << process, sg_started, report >>
     ELSE Exit

(* The tests of an instruction that have one of these statuses, and how many  *)
(* tests of each instruction there are and have passed.                       *)
TestsOf(i, statuses) ==
  {k \in DOMAIN sg_tests : sg_tests[k].instruction = i /\ sg_tests[k].status \in statuses}
statistics(statuses) ==
  [i \in Instructions |->
     [total |-> Cardinality(TestsOf(i, statuses)),
      passed |-> Cardinality(TestsOf(i, statuses \cap {1}))]]

mips_test_end_suite_AnyStatus ==
  /\ process = "running"
  /\ IF sg_started /\ Len(sg_tests) > 0
     THEN /\ report' = statistics({-1, 0, 1})
          /\ UNCHANGED << process, sg_started, sg_tests >>
     ELSE Exit

(* The suite stays started and its tests stay in the list.                    *)
mips_test_end_suite ==
  /\ process = "running"
  /\ IF sg_started /\ Len(sg_tests) > 0 /\ ~Unfinished
     THEN /\ report' = statistics({-1, 0, 1})
          /\ UNCHANGED << process, sg_started, sg_tests >>
     ELSE Exit

(* A client that calls in any order, with any id.                             *)
Next ==
  \/ mips_test_begin_suite
  \/ \E name \in Names : mips_test_begin_test(name)
  \/ \E testId \in 0 .. MaxTests, passed \in {0, 1}, msg \in Messages \cup {NoMessage} :
       mips_test_end_test(testId, passed, msg)
  \/ mips_test_end_suite

Spec == Init /\ [][Next]_vars
----------------------------------------------------------------------------
TypeOK ==
  /\ process \in {"running", "exited"}
  /\ sg_started \in BOOLEAN
  /\ sg_tests \in Seq(test_info_t)
  /\ report \in [Instructions -> [total : Nat, passed : Nat]]

(* Whatever the client calls, only the test begun last can be unfinished, and *)
(* an id names the one test it was handed out for: begin_test looks only at   *)
(* the last entry of the list, which has to stand for all of them.            *)
OneTestOpen ==
  \A k \in DOMAIN sg_tests :
    /\ sg_tests[k].testId = k - 1
    /\ k < Len(sg_tests) => sg_tests[k].status # -1

(* A verdict once given stands: a test that is ended is never ended again,    *)
(* relabelled or dropped, not even by a client that repeats an old id.        *)
VerdictsStand ==
  [][\A k \in DOMAIN sg_tests :
       /\ k \in DOMAIN sg_tests'
       /\ sg_tests[k].status # -1 => sg_tests'[k] = sg_tests[k]]_vars

(* Seen from outside the framework is a ledger: every test that closes counts *)
(* once, under one spelling of its instruction, and the report agrees with    *)
(* that count although it is only computed at the end.                        *)
Ledger ==
  INSTANCE TestLedger WITH
    open <- IF Unfinished THEN back.instruction ELSE None,
    tally <- statistics({0, 1}),
    stopped <- process = "exited"
KeepsTheLedger == Ledger!Spec
=============================================================================
