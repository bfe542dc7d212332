SPECIFICATION Spec
CONSTANTS
  Names <- MCNames
  Upper <- MCUpper
  Messages <- MCMessages
  MaxTests <- MCMaxTests
INVARIANTS TypeOK OneTestOpen
PROPERTIES VerdictsStand KeepsTheLedger
\* A client that was stopped makes no further call.
CHECK_DEADLOCK FALSE
