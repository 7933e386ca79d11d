------------------------------ MODULE MCRequests ------------------------------
(* Small instances of Requests for TLC: the metadata is varied for one shape of *)
(* data, and everything else for plain metadata.                               *)
EXTENDS Requests

MCCalls == 1..3
\* Two calls for one item, one for the item the provider is preseeded with.
MCNumber == [c \in MCCalls |-> <<1, 1, 3>>[c]]

Setup(m, o, i, d, s, md) == [method |-> m, own |-> o, interceptor |-> i, dynamic |-> d,
                             shape |-> s, metadata |-> md]

\* Data for client streams is a stream, an object or nothing.
Possible(m, s) == IF m \in {"client", "bidi"} THEN s \in {"stream", "single", "empty"}
                                              ELSE s # "stream"

MCSetups ==
    {Setup("unary", FALSE, FALSE, FALSE, "single", md) :
        md \in {"text", "action", "branch", "nil"}}
    \cup {Setup(m, FALSE, FALSE, d, s, "none") :
        m \in {"unary", "client"}, d \in BOOLEAN, s \in Shapes}
    \cup {Setup(m, o, i, FALSE, "empty", "none") : m \in Methods, o \in BOOLEAN, i \in BOOLEAN}

\* NewConfig refuses dynamic messages with binary data.
MCPossible == {s \in MCSetups : /\ Possible(s.method, s.shape)
                                /\ ~(s.dynamic /\ s.shape \in {"binary", "func"})}
=============================================================================
