------------------------------ MODULE MCDriver ------------------------------
(* The files of MCTestDriver that the driver is meant to survive.             *)
EXTENDS MCTestDriver

ASSUME SafeAssumption == FilesAreSafe
ASSUME AloneAssumption == RowsStandAlone
=============================================================================
