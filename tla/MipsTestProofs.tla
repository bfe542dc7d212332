--------------------------- MODULE MipsTestProofs ---------------------------
(* The test framework for any names, messages and length of the list.  The    *)
(* invariant is TypeOK with OneTestOpen: begin_test and end_suite look only   *)
(* at the last test, and it is OneTestOpen that makes that enough.            *)
EXTENDS MipsTest, SequenceTheorems, FiniteSetTheorems, TLAPS

IInv == TypeOK /\ OneTestOpen

LEMMA ListFacts ==
  ASSUME TypeOK
  PROVE  /\ Len(sg_tests) \in Nat
         /\ DOMAIN sg_tests = 1 .. Len(sg_tests)
         /\ \A k \in 1 .. Len(sg_tests) : sg_tests[k] \in test_info_t
<1>1. sg_tests \in Seq(test_info_t)
  BY DEF TypeOK
<1> QED BY <1>1, LenProperties, ElementOfSeq

(* Sets of tests are finite, whatever is asked of their tests.                *)
LEMMA TestsFinite ==
  ASSUME TypeOK, NEW i, NEW statuses
  PROVE  IsFiniteSet(TestsOf(i, statuses)) /\ Cardinality(TestsOf(i, statuses)) \in Nat
<1>1. IsFiniteSet(DOMAIN sg_tests)
  BY ListFacts, FS_Interval
<1>2. TestsOf(i, statuses) \subseteq DOMAIN sg_tests
  BY DEF TestsOf
<1>3. IsFiniteSet(TestsOf(i, statuses))
  BY <1>1, <1>2, FS_Subset
<1> QED BY <1>3, FS_CardinalityType

LEMMA StatisticsType ==
  ASSUME TypeOK, NEW statuses
  PROVE  statistics(statuses) \in [Instructions -> [total : Nat, passed : Nat]]
<1>1. \A i \in Instructions :
        /\ Cardinality(TestsOf(i, statuses)) \in Nat
        /\ Cardinality(TestsOf(i, statuses \cap {1})) \in Nat
  BY TestsFinite
<1> QED BY <1>1 DEF statistics

(* Statistics over the same sets of tests are the same.                       *)
LEMMA SameStatistics ==
  ASSUME NEW S, NEW T,
         \A i \in Instructions : TestsOf(i, S) = TestsOf(i, T) /\ TestsOf(i, S \cap {1}) = TestsOf(i, T \cap {1})
  PROVE  statistics(S) = statistics(T)
BY DEF statistics

----------------------------------------------------------------------------
(* A step keeps the invariant, lets verdicts stand, and is one of the ledger. *)
LedgerOpen == IF Unfinished THEN back.instruction ELSE None
Stands ==
  \A k \in DOMAIN sg_tests :
    /\ k \in DOMAIN sg_tests'
    /\ sg_tests[k].status # -1 => sg_tests'[k] = sg_tests[k]
Kept == IInv' /\ Stands /\ (Ledger!Next \/ UNCHANGED Ledger!vars)

(* The list does not change, and what the ledger sees of it neither.          *)
LEMMA SameList ==
  ASSUME IInv, UNCHANGED sg_tests, process' \in {"running", "exited"},
         sg_started' \in BOOLEAN, report' \in [Instructions -> [total : Nat, passed : Nat]]
  PROVE  /\ IInv' /\ Stands
         /\ LedgerOpen' = LedgerOpen
         /\ statistics({0, 1})' = statistics({0, 1})
<1>1. IInv'
  BY DEF IInv, TypeOK, OneTestOpen
<1>2. LedgerOpen' = LedgerOpen
  BY DEF LedgerOpen, Unfinished, back
<1>3. statistics({0, 1})' = statistics({0, 1})
  BY DEF statistics, TestsOf
<1> QED BY <1>1, <1>2, <1>3 DEF Stands

LEMMA ExitKept == ASSUME IInv, process = "running", Exit PROVE Kept
<1>1. /\ IInv' /\ Stands
      /\ LedgerOpen' = LedgerOpen
      /\ statistics({0, 1})' = statistics({0, 1})
  BY SameList DEF Exit, IInv, TypeOK
<1>2. Ledger!Stop
  BY <1>1 DEF Ledger!Stop, Exit, LedgerOpen
<1> QED BY <1>1, <1>2 DEF Kept, Ledger!Next

LEMMA BeginSuiteKept == ASSUME IInv, mips_test_begin_suite PROVE Kept
<1>1. CASE Exit
  BY <1>1, ExitKept DEF mips_test_begin_suite
<1>2. CASE sg_started' = TRUE /\ UNCHANGED << process, sg_tests, report >>
  <2>1. /\ IInv' /\ Stands
        /\ LedgerOpen' = LedgerOpen
        /\ statistics({0, 1})' = statistics({0, 1})
    BY <1>2, SameList DEF IInv, TypeOK
  <2> QED BY <1>2, <2>1 DEF Kept, Ledger!vars, LedgerOpen
<1> QED BY <1>1, <1>2 DEF mips_test_begin_suite

(* A new test stands last, unfinished, and is in no set of finished tests.    *)
LEMMA BeginTestKept == ASSUME IInv, NEW name \in Names, mips_test_begin_test(name) PROVE Kept
<1>1. CASE Exit
  BY <1>1, ExitKept DEF mips_test_begin_test
<1>2. CASE ~Exit
  <2> DEFINE n == Len(sg_tests)
             new == NewTest(name)
  <2>1. /\ process = "running" /\ ~Unfinished
        /\ sg_tests' = Append(sg_tests, new)
        /\ UNCHANGED << process, sg_started, report >>
    BY <1>2 DEF mips_test_begin_test
  <2>2. /\ n \in Nat /\ DOMAIN sg_tests = 1 .. n
        /\ \A k \in 1 .. n : sg_tests[k] \in test_info_t
    BY ListFacts DEF IInv
  <2>3. /\ new \in test_info_t /\ new.testId = n /\ new.status = -1
        /\ new.instruction = Upper[name] /\ Upper[name] \in Instructions
    BY <2>2 DEF NewTest, test_info_t, Instructions
  <2> HIDE DEF new
  <2>4. /\ sg_tests' \in Seq(test_info_t)
        /\ Len(sg_tests') = n + 1 /\ DOMAIN sg_tests' = 1 .. n + 1
        /\ sg_tests'[n + 1] = new
        /\ \A k \in 1 .. n : sg_tests'[k] = sg_tests[k]
    <3>1. sg_tests \in Seq(test_info_t)
      BY DEF IInv, TypeOK
    <3> QED BY <2>1, <2>2, <2>3, <3>1
  <2> HIDE DEF n
  <2>5. TypeOK'
    BY <2>1, <2>4 DEF IInv, TypeOK
  <2>6. \A k \in 1 .. n : sg_tests[k].status # -1
    BY <2>1, <2>2 DEF IInv, OneTestOpen, Unfinished, back, n
  <2>7. OneTestOpen'
    <3> SUFFICES ASSUME NEW k \in 1 .. n + 1
                 PROVE  /\ sg_tests'[k].testId = k - 1
                        /\ k < n + 1 => sg_tests'[k].status # -1
      BY <2>4 DEF OneTestOpen
    <3>1. CASE k \in 1 .. n
      BY <2>2, <2>4, <2>6, <3>1 DEF IInv, OneTestOpen
    <3>2. CASE k = n + 1
      BY <2>2, <2>3, <2>4, <3>2
    <3> QED BY <2>2, <3>1, <3>2
  <2>8. Stands
    BY <2>2, <2>4 DEF Stands
  <2>9. Unfinished' /\ back'.instruction = Upper[name]
    BY <2>2, <2>3, <2>4 DEF Unfinished, back
  <2>10. statistics({0, 1})' = statistics({0, 1})
    <3>1. ASSUME NEW i, NEW S, -1 \notin S PROVE TestsOf(i, S)' = TestsOf(i, S)
      BY <2>2, <2>3, <2>4, <3>1 DEF TestsOf
    <3>2. \A i \in Instructions :
            /\ TestsOf(i, {0, 1})' = TestsOf(i, {0, 1})
            /\ TestsOf(i, {0, 1} \cap {1})' = TestsOf(i, {0, 1} \cap {1})
      BY <3>1
    <3> QED BY <3>2 DEF statistics
  <2>11. Ledger!Open(Upper[name])
    BY <2>1, <2>9, <2>10 DEF Ledger!Open, Ledger!None, None
  <2> QED BY <2>3, <2>5, <2>7, <2>8, <2>11 DEF Kept, IInv, Ledger!Next
<1> QED BY <1>1, <1>2

(* The verdict moves the open test into the sets of finished tests, and no    *)
(* other test in or out of one.                                               *)
LEMMA EndTestKept ==
  ASSUME IInv, NEW testId, NEW passed \in {0, 1}, NEW msg \in Messages \cup {NoMessage},
         mips_test_end_test(testId, passed, msg)
  PROVE  Kept
<1>1. CASE ~(sg_started /\ Unfinished /\ back.testId = testId)
  BY <1>1, ExitKept DEF mips_test_end_test
<1>2. CASE sg_started /\ Unfinished /\ back.testId = testId
  <2> DEFINE n == Len(sg_tests)
             done == Finished(passed, msg)
             inst == back.instruction
  <2>1. /\ process = "running"
        /\ sg_tests' = [sg_tests EXCEPT ![n] = done]
        /\ UNCHANGED << process, sg_started, report >>
    BY <1>2 DEF mips_test_end_test
  <2>2. /\ n \in Nat /\ n > 0 /\ DOMAIN sg_tests = 1 .. n
        /\ \A k \in 1 .. n : sg_tests[k] \in test_info_t
        /\ sg_tests[n].status = -1
    BY <1>2, ListFacts DEF IInv, Unfinished, back
  <2>3. /\ done \in test_info_t /\ done.status = passed
        /\ done.testId = sg_tests[n].testId /\ done.instruction = inst
        /\ inst = sg_tests[n].instruction
    <3>1. back \in test_info_t
      BY <2>2 DEF back
    <3> QED BY <3>1 DEF Finished, test_info_t, back
  <2> HIDE DEF done
  <2>4. /\ sg_tests' \in Seq(test_info_t)
        /\ Len(sg_tests') = n /\ DOMAIN sg_tests' = 1 .. n
        /\ sg_tests'[n] = done
        /\ \A k \in 1 .. n - 1 : sg_tests'[k] = sg_tests[k]
    <3>1. sg_tests \in Seq(test_info_t) /\ n \in 1 .. Len(sg_tests)
      BY <2>2 DEF IInv, TypeOK
    <3>2. /\ sg_tests' \in Seq(test_info_t)
          /\ Len(sg_tests') = n
          /\ \A k \in 1 .. n : sg_tests'[k] = IF k = n THEN done ELSE sg_tests[k]
      <4> DEFINE new == [sg_tests EXCEPT ![n] = done]
      <4>1. /\ new \in Seq(test_info_t) /\ Len(new) = Len(sg_tests)
            /\ \A k \in 1 .. Len(sg_tests) : new[k] = IF k = n THEN done ELSE sg_tests[k]
        <5> HIDE DEF n
        <5> QED BY <2>3, <3>1, ExceptSeq
      <4> QED BY <2>1, <4>1
    <3>3. DOMAIN sg_tests' = 1 .. Len(sg_tests')
      BY <3>2, LenProperties
    <3>4. n \in 1 .. n /\ \A k \in 1 .. n - 1 : k \in 1 .. n /\ k # n
      <4>1. n \in Nat /\ n > 0
        BY <2>2
      <4> HIDE DEF n
      <4> QED BY <4>1
    <3> HIDE DEF n
    <3> QED BY <3>2, <3>3, <3>4
  <2> HIDE DEF n, inst
  <2>5. TypeOK'
    BY <2>1, <2>4 DEF IInv, TypeOK
  <2>6. \A k \in 1 .. n : k = n \/ k \in 1 .. n - 1
    BY <2>2
  <2>7. OneTestOpen'
    <3> SUFFICES ASSUME NEW k \in 1 .. n
                 PROVE  /\ sg_tests'[k].testId = k - 1
                        /\ k < n => sg_tests'[k].status # -1
      BY <2>4 DEF OneTestOpen
    <3>1. sg_tests[k].testId = k - 1 /\ (k < n => sg_tests[k].status # -1)
      BY <2>2 DEF IInv, OneTestOpen, n
    <3>2. CASE k = n
      BY <2>2, <2>3, <2>4, <3>1, <3>2
    <3>3. CASE k \in 1 .. n - 1
      BY <2>4, <3>1, <3>3
    <3> QED BY <2>6, <3>2, <3>3
  <2>8. Stands
    BY <2>2, <2>4, <2>6 DEF Stands
  <2>9. ~Unfinished'
    BY <2>2, <2>3, <2>4 DEF Unfinished, back
  <2>10. inst \in Instructions /\ LedgerOpen = inst
    BY <1>2, <2>2, <2>3 DEF test_info_t, LedgerOpen, inst
  <2>11. ASSUME NEW i, NEW S, -1 \notin S
         PROVE  TestsOf(i, S)' = TestsOf(i, S) \cup (IF i = inst /\ passed \in S THEN {n} ELSE {})
    <3>1. ASSUME NEW k \in 1 .. n
          PROVE  k \in TestsOf(i, S)'
                   <=> k \in TestsOf(i, S) \/ (k = n /\ i = inst /\ passed \in S)
      <4>1. CASE k = n
        BY <2>2, <2>3, <2>4, <2>11, <4>1 DEF TestsOf
      <4>2. CASE k \in 1 .. n - 1
        BY <2>2, <2>4, <4>2 DEF TestsOf
      <4> QED BY <2>6, <4>1, <4>2
    <3>2. TestsOf(i, S)' \subseteq 1 .. n /\ TestsOf(i, S) \subseteq 1 .. n /\ n \in 1 .. n
      BY <2>2, <2>4 DEF TestsOf
    <3> QED BY <3>1, <3>2
  <2>12. ASSUME NEW i, NEW S, -1 \notin S
         PROVE  Cardinality(TestsOf(i, S))' =
                  Cardinality(TestsOf(i, S)) + (IF i = inst /\ passed \in S THEN 1 ELSE 0)
    <3>1. n \notin TestsOf(i, S)
      BY <2>2, <2>12 DEF TestsOf
    <3>2. IsFiniteSet(TestsOf(i, S)) /\ Cardinality(TestsOf(i, S)) \in Nat
      BY TestsFinite DEF IInv
    <3>3. Cardinality(TestsOf(i, S) \cup {n}) = Cardinality(TestsOf(i, S)) + 1
      BY <3>1, <3>2, FS_AddElement
    <3> QED BY <2>11, <2>12, <3>2, <3>3
  <2>13. Ledger!Close(passed)
    <3> DEFINE tally == statistics({0, 1})
    <3>1. tally' = [tally EXCEPT ![inst] = [total |-> @.total + 1, passed |-> @.passed + passed]]
      <4>1. ASSUME NEW i \in Instructions
            PROVE  /\ Cardinality(TestsOf(i, {0, 1}))' =
                        Cardinality(TestsOf(i, {0, 1})) + (IF i = inst THEN 1 ELSE 0)
                   /\ Cardinality(TestsOf(i, {0, 1} \cap {1}))' =
                        Cardinality(TestsOf(i, {0, 1} \cap {1})) + (IF i = inst THEN passed ELSE 0)
        <5>1. {0, 1} \cap {1} = {1}
          OBVIOUS
        <5>2. /\ Cardinality(TestsOf(i, {0, 1}))' =
                    Cardinality(TestsOf(i, {0, 1})) + (IF i = inst /\ passed \in {0, 1} THEN 1 ELSE 0)
              /\ Cardinality(TestsOf(i, {1}))' =
                    Cardinality(TestsOf(i, {1})) + (IF i = inst /\ passed \in {1} THEN 1 ELSE 0)
          BY <2>12
        <5> QED BY <5>1, <5>2
      <4> DEFINE total(i) == Cardinality(TestsOf(i, {0, 1}))
                 won(i) == Cardinality(TestsOf(i, {0, 1} \cap {1}))
      <4>2. /\ tally = [i \in Instructions |-> [total |-> total(i), passed |-> won(i)]]
            /\ tally' = [i \in Instructions |-> [total |-> total(i)', passed |-> won(i)']]
        BY DEF statistics
      <4>3. \A i \in Instructions : /\ total(i)' = total(i) + (IF i = inst THEN 1 ELSE 0)
                                    /\ won(i)' = won(i) + (IF i = inst THEN passed ELSE 0)
                                    /\ total(i) \in Nat /\ won(i) \in Nat
        BY <4>1, TestsFinite DEF IInv
      <4> HIDE DEF tally, total, won
      <4> QED BY <2>10, <4>2, <4>3
    <3> HIDE DEF tally
    <3>2. inst # None
      BY <2>10, NamesAssumption
    <3>3. Ledger!None = None
      BY DEF Ledger!None, None
    <3> QED BY <2>1, <2>9, <2>10, <3>1, <3>2, <3>3 DEF Ledger!Close, LedgerOpen, tally
  <2> QED BY <2>5, <2>7, <2>8, <2>13 DEF Kept, IInv, Ledger!Next
<1> QED BY <1>1, <1>2

(* All tests are finished, so the report on all is the tally of those that are. *)
LEMMA EndSuiteKept == ASSUME IInv, mips_test_end_suite PROVE Kept
<1>1. CASE ~(sg_started /\ Len(sg_tests) > 0 /\ ~Unfinished)
  BY <1>1, ExitKept DEF mips_test_end_suite
<1>2. CASE sg_started /\ Len(sg_tests) > 0 /\ ~Unfinished
  <2>1. /\ process = "running"
        /\ report' = statistics({-1, 0, 1})
        /\ UNCHANGED << process, sg_started, sg_tests >>
    BY <1>2 DEF mips_test_end_suite
  <2>2. statistics({-1, 0, 1}) = statistics({0, 1})
    <3>1. \A k \in DOMAIN sg_tests : sg_tests[k].status # -1
      BY <1>2, ListFacts DEF IInv, OneTestOpen, Unfinished, back
    <3>2. \A i \in Instructions :
            /\ TestsOf(i, {-1, 0, 1}) = TestsOf(i, {0, 1})
            /\ TestsOf(i, {-1, 0, 1} \cap {1}) = TestsOf(i, {0, 1} \cap {1})
      BY <3>1 DEF TestsOf
    <3> QED BY <3>2, SameStatistics
  <2>3. /\ IInv' /\ Stands
        /\ LedgerOpen' = LedgerOpen
        /\ statistics({0, 1})' = statistics({0, 1})
    BY <2>1, StatisticsType, SameList DEF IInv, TypeOK
  <2>4. Ledger!Publish
    BY <1>2, <2>1, <2>2, <2>3 DEF Ledger!Publish, LedgerOpen, Ledger!None, None
  <2> QED BY <2>3, <2>4 DEF Kept, Ledger!Next
<1> QED BY <1>1, <1>2

----------------------------------------------------------------------------
LEMMA InitKept == Init => IInv /\ Ledger!Init
<1> SUFFICES ASSUME Init PROVE IInv /\ Ledger!Init
  OBVIOUS
<1>1. sg_tests = << >> /\ Len(sg_tests) = 0 /\ DOMAIN sg_tests = {}
  BY EmptySeq DEF Init
<1>2. TypeOK
  BY <1>1, EmptySeq DEF Init, TypeOK
<1>3. OneTestOpen
  BY <1>1 DEF OneTestOpen
<1>4. statistics({0, 1}) = Ledger!Blank
  <2>1. \A i, S : TestsOf(i, S) = {}
    BY <1>1 DEF TestsOf
  <2> QED BY <2>1, FS_EmptySet DEF statistics, Ledger!Blank
<1>5. ~Unfinished
  BY <1>1 DEF Unfinished
<1> QED BY <1>2, <1>3, <1>4, <1>5 DEF IInv, Init, Ledger!Init, Ledger!Blank, Ledger!None, None

LEMMA StepKept == IInv /\ [Next]_vars => IInv' /\ (Stands \/ UNCHANGED vars) /\ [Ledger!Next]_Ledger!vars
<1> SUFFICES ASSUME IInv, [Next]_vars
             PROVE  IInv' /\ (Stands \/ UNCHANGED vars) /\ [Ledger!Next]_Ledger!vars
  OBVIOUS
<1>1. CASE UNCHANGED vars
  <2>1. IInv'
    BY <1>1 DEF vars, IInv, TypeOK, OneTestOpen
  <2>2. UNCHANGED Ledger!vars
    BY <1>1 DEF vars, Ledger!vars, Unfinished, back, statistics, TestsOf
  <2> QED BY <1>1, <2>1, <2>2
<1>2. CASE mips_test_begin_suite
  BY <1>2, BeginSuiteKept DEF Kept
<1>3. CASE \E name \in Names : mips_test_begin_test(name)
  BY <1>3, BeginTestKept DEF Kept
<1>4. CASE \E testId \in 0 .. MaxTests, passed \in {0, 1}, msg \in Messages \cup {NoMessage} :
             mips_test_end_test(testId, passed, msg)
  BY <1>4, EndTestKept DEF Kept
<1>5. CASE mips_test_end_suite
  BY <1>5, EndSuiteKept DEF Kept
<1> QED BY <1>1, <1>2, <1>3, <1>4, <1>5 DEF Next

LEMMA Inductive == Spec => []IInv
BY InitKept, StepKept, PTL DEF Spec

(* The framework's list and its statistics stay well formed whatever a client *)
(* calls (mips_test_begin_suite to mips_test_end_suite).                      *)
THEOREM TestTypes == Spec => []TypeOK
BY Inductive, PTL DEF IInv

(* Only the test begun last can be unfinished, and ids are positions: what    *)
(* begin_test and end_test rely on when they look at sg_tests.back() alone.   *)
THEOREM OnlyLastIsOpen == Spec => []OneTestOpen
BY Inductive, PTL DEF IInv

(* No call changes the verdict of a finished test or drops a test.            *)
THEOREM VerdictsNeverChange == Spec => VerdictsStand
<1>1. IInv /\ [Next]_vars => [Stands]_vars
  BY StepKept
<1> QED BY <1>1, Inductive, PTL DEF Spec, VerdictsStand, Stands

(* The framework implements the ledger of mips_test.h: each test that closes  *)
(* is counted once and the printed report is that count.                      *)
THEOREM ImplementsLedger == Spec => KeepsTheLedger
BY InitKept, StepKept, Inductive, PTL DEF Spec, KeepsTheLedger, Ledger!Spec
=============================================================================
