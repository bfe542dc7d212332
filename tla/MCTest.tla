------------------------------- MODULE MCTest -------------------------------
(* Two spellings of one instruction, another one, and lists of four tests.    *)
EXTENDS MipsTest

MCNames == {"add", "ADD", "<internal>"}
MCUpper == [n \in MCNames |-> CASE n = "add" -> "ADD" [] n = "ADD" -> "ADD"
                                [] n = "<internal>" -> "<INTERNAL>"]
MCMessages == {"3+7=10"}
MCMaxTests == 4
=============================================================================
