SPECIFICATION Spec
CONSTANT Rows <- MCRows
INVARIANTS TypeOK FieldsArrive ImmediateIsRead OpcodeComesFirst
\* A behaviour is one instruction.
CHECK_DEADLOCK FALSE
