---------------------------- MODULE MCStreamCalls ----------------------------
(* Small instances of StreamCalls for TLC. *)
EXTENDS StreamCalls

All == [kind: {"client", "server", "bidi"}, duration: BOOLEAN, timeout: BOOLEAN,
        count: {0, 2}, interval: BOOLEAN, intercept: BOOLEAN]

\* An interceptor is called for what is received, an interval is one of sending.
Distinct(c) == (c.kind = "client" => ~c.intercept) /\ (c.kind = "server" => ~c.interval)

\* A silent server needs a timeout to end a server streaming call.
Ends(c) == c.kind = "server" => c.timeout

Both(c) == c.kind = "bidi" /\ c.duration /\ c.intercept

MCCalls == {c \in All : Distinct(c) /\ Ends(c) /\ ~Both(c)}

\* Bidirectional calls with a duration and an interceptor.
MCBoth == {c \in All : Both(c) /\ c.interval /\ c.timeout}
=============================================================================
