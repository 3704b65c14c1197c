---------------------------- MODULE MCTestSelection ----------------------------
(* A small instance of TestSelection for TLC: every call graph on three     *)
(* functions, one of them a test, and every import relation on two files.   *)
EXTENDS TestSelection

MCFunction == {"f", "g", "test_f"}
MCTest == {"test_f"}
MCOwner == [x \in MCFunction |-> IF x = "test_f" THEN "tests" ELSE "helper"]
=============================================================================
