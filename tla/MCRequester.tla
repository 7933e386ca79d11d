----------------------------- MODULE MCRequester -----------------------------
(* Small instances of Requester for TLC: the values of Ticks. *)
EXTENDS Requester

\* ConstWorkerTicker with N = 2.
ConstTicks == <<[delta |-> 2, done |-> TRUE]>>

\* A schedule that steps up, and then retires every worker: 1, 2, 0.
UpDownTicks == <<[delta |-> 1, done |-> FALSE], [delta |-> 1, done |-> FALSE],
                 [delta |-> -2, done |-> TRUE]>>

\* A schedule that retires every worker and goes up again: 2, -2, 1.
DownUpTicks == <<[delta |-> 2, done |-> FALSE], [delta |-> -2, done |-> FALSE],
                 [delta |-> 1, done |-> TRUE]>>
=============================================================================
