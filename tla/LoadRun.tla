------------------------------- MODULE LoadRun -------------------------------
(***************************************************************************)
(* What a run of the load tester promises its caller                       *)
(* (runner/requester.go, Run: "It blocks until all work is done"):         *)
(* requests are issued in order, each one finishes, and the report is made *)
(* when no request is outstanding; nothing is issued once the end of the   *)
(* run has been decided.  A run whose connections cannot be opened is      *)
(* abandoned before its first request.                                     *)
(***************************************************************************)
EXTENDS Integers, FiniteSets

CONSTANT Total      \* the largest number of requests of a run

VARIABLES
    phase,          \* "issuing", "draining" or "reported"
    issued,         \* the requests that were handed to a worker
    finished        \* those that are counted, or known to have no result

runVars == <<phase, issued, finished>>

RunInit == phase = "issuing" /\ issued = {} /\ finished = {}

Issue(r) ==
    /\ phase = "issuing" /\ r \notin issued
    /\ \A q \in 1..Total : q < r => q \in issued
    /\ issued' = issued \cup {r}
    /\ UNCHANGED <<phase, finished>>

Complete(r) ==
    /\ phase # "reported" /\ r \in issued \ finished
    /\ finished' = finished \cup {r}
    /\ UNCHANGED <<phase, issued>>

EndOfRun ==
    /\ phase = "issuing"
    /\ phase' = "draining"
    /\ UNCHANGED <<issued, finished>>

MakeReport ==
    /\ phase = "draining" /\ issued = finished
    /\ phase' = "reported"
    /\ UNCHANGED <<issued, finished>>

Abandon ==
    /\ phase = "issuing" /\ issued = {}
    /\ phase' = "reported"
    /\ UNCHANGED <<issued, finished>>

RunNext == \/ \E r \in 1..Total : Issue(r) \/ Complete(r)
           \/ EndOfRun \/ MakeReport \/ Abandon

RunSpec == RunInit /\ [][RunNext]_runVars
=============================================================================
