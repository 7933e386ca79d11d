------------------------------ MODULE MCTestRun ------------------------------
(***************************************************************************)
(* Small instances of TestRun: two tests one after the other with two      *)
(* calls each, a test of two calls of a type at the same time, and tests   *)
(* of one method lookup and no call.                                       *)
(***************************************************************************)
EXTENDS TestRun

LOCAL INSTANCE SequencesExt

MCCalls == 1..6
MCTypeOf == [c \in MCCalls |-> CASE c \in {1, 5, 6} -> "unary" [] c = 2 -> "bidi"
                                 [] c = 3 -> "cs" [] c = 4 -> "ss"]
MCConnOf == [c \in MCCalls |-> IF c \in {2, 6} THEN 2 ELSE 1]

Greeting == [dot |-> FALSE, service |-> "Greeter", separator |-> "/", method |-> "SayHello"]

\* What a file declares.
Declares(name, deps, services, messages) ==
    [name |-> name, deps |-> deps, services |-> services, messages |-> messages]
Nothing == [s \in {} |-> {}]
GreeterNow == [s \in {"Greeter"} |-> {"SayHello", "SayHellos"}]
OlderGreeter == [s \in {"Greeter"} |-> {"SayHellos"}]

Single == <<Declares("a", <<>>, GreeterNow, {"HelloRequest"})>>

TwoTests ==
    <<[lookup |-> [source |-> "protoset", call |-> Greeting, files |-> Single],
       calls |-> {1, 2}, stops |-> TRUE, timeouts |-> TRUE],
      [lookup |-> [source |-> "reflect", call |-> Greeting, files |-> Single],
       calls |-> {3, 4}, stops |-> FALSE, timeouts |-> FALSE]>>

OneType ==
    <<[lookup |-> [source |-> "reflect", call |-> Greeting, files |-> Single],
       calls |-> {5, 6}, stops |-> FALSE, timeouts |-> FALSE]>>

\* Two files, in both orders, with any imports, one of them maybe missing, the
\* service in either or both, of which one may lack the method.
FileSets ==
    {<<Declares("a", i, s, {"HelloRequest"}), Declares("b", j, t, {})>> :
        i \in BoundedSeq({"a", "b", "missing"}, 2), j \in BoundedSeq({"a", "missing"}, 1),
        s \in {GreeterNow, Nothing}, t \in {OlderGreeter, GreeterNow, Nothing}}

\* The four kinds of valid call, two that are not, and one that names no service.
LookupCalls ==
    {[Greeting EXCEPT !.dot = d, !.separator = s] : d \in BOOLEAN, s \in {".", "/"}}
    \cup {[Greeting EXCEPT !.separator = s] : s \in {"none", "many"}}
    \cup {[Greeting EXCEPT !.service = "HelloRequest"]}

\* The lookup of every call from every source is compared before one is made, so that
\* one source is enough for all calls.
Lookups ==
    {<<[lookup |-> [source |-> sc[1], call |-> sc[2], files |-> f],
        calls |-> {}, stops |-> FALSE, timeouts |-> FALSE]>> :
        sc \in ({"reflect"} \X LookupCalls) \cup ({"proto", "protoset"} \X {Greeting}),
        f \in FileSets \cup {Reverse(g) : g \in FileSets}}

MCTestLists == {TwoTests, OneType} \cup Lookups
=============================================================================
