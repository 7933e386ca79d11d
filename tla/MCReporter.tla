------------------------------ MODULE MCReporter ------------------------------
(* Small instances of Reporter for TLC. *)
EXTENDS Reporter

MCResults == 1..4
MCFailing == {2, 3}
MCSampled == {1, 2}
=============================================================================
