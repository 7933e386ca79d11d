------------------------------- MODULE Requests -------------------------------
(***************************************************************************)
(* makeRequest (runner/worker.go) up to the call it makes: every request   *)
(* takes its metadata (CallMetadata) and its data (DataProvider), a        *)
(* streaming call chooses where its messages come from, and a request that *)
(* has nothing to send is refused.  Requests of several workers share both *)
(* providers.  One of the client streaming calls is followed through its   *)
(* message provider (MessageProvider) while the others go on.              *)
(***************************************************************************)
EXTENDS DataProvider

CONSTANTS
    Setups,     \* the runs: [method, own, interceptor, dynamic, shape, metadata] records
    MaxCount    \* bound on streamCallCount

Methods == {"unary", "client", "server", "bidi"}

ASSUME RequestsAssumption ==
    /\ Setups \subseteq [method: Methods, own: BOOLEAN, interceptor: BOOLEAN,
                         dynamic: BOOLEAN, shape: Shapes,
                         metadata: {"none", "text", "action", "branch", "nil"}]
    \* The data of a client stream is a stream, one object, or nothing.
    /\ \A s \in Setups : s.method \in {"client", "bidi"} =>
                             s.shape \in {"stream", "single", "empty"}
    /\ MaxCount \in Nat

VARIABLES
    setup,      \* the run's configuration
    metadata, compress, preseed, step, reqMD, own, crashed,     \* of CallMetadata
    kind, items, streamCallCount, counter, indexCounter, given, last,   \* of MessageProvider
    outcome     \* per call: "none" yet, "refused" or "called"

meta == <<metadata, compress, preseed, step, reqMD, own>>
stream == <<kind, items, streamCallCount, counter, indexCounter, given, last>>
requestVars == <<vars, setup, meta, crashed, stream, outcome>>

Meta == INSTANCE CallMetadata
Stream == INSTANCE MessageProvider

RequestsInit ==
    /\ setup \in Setups
    /\ Init /\ shape = setup.shape
    /\ Meta!MdInit /\ metadata = setup.metadata
    /\ Stream!Init
    /\ outcome = [c \in Calls |-> "none"]

ClientStreaming == setup.method \in {"client", "bidi"}

\* Metadata comes first, then the data.
TakeMetadata(c) ==
    /\ Meta!GetMetadata(c) \/ Meta!BeginSet(c) \/ Meta!EndSet(c)
    /\ UNCHANGED <<vars, setup, stream, outcome>>

GetData(c) ==
    /\ step[c] = "ready" /\ crashed = "no"
    /\ Look(c) \/ Create(c) \/ Fill(c) \/ Pick(c)
    /\ UNCHANGED <<setup, meta, crashed, stream, outcome>>

\* Where the messages of a call come from: the caller's function goes before the
\* interceptor, and both before the default providers of client streams.
Provider ==
    IF setup.own THEN "own"
    ELSE IF setup.interceptor /\ setup.method # "unary" THEN "interceptor"
    ELSE IF ~ClientStreaming THEN "none"
    ELSE IF setup.dynamic THEN "dynamic" ELSE "static"

\* Mutant of Refused: the number of messages is not looked at.
RefusedDynamic(c) == Provider = "dynamic" /\ ~hasActions

\* No data for a call that needs one, or dynamic messages without an action.
Refused(c) == \/ Provider = "dynamic" /\ ~hasActions
              \/ Provider = "none" /\ result[c] = <<>>

\* inputs[0] of a call that is not client streaming: the check above lets one
\* without inputs pass when it has a message provider.
NoInput(c) == ~ClientStreaming /\ result[c] = <<>>

\* The followed call gets a message provider: the static one on the messages of
\* the call, the dynamic one on the configured data.
NewMessageProvider(c) ==
    \/ Provider = "static" /\ Stream!New("static", result[c])
    \/ Provider = "dynamic" /\ Stream!New("dynamic", IF shape = "single" THEN <<>> ELSE Items)

Dispatch(c) ==
    /\ pc[c] = "done" /\ outcome[c] = "none" /\ crashed = "no"
    /\ outcome' = [outcome EXCEPT ![c] = IF Refused(c) THEN "refused" ELSE "called"]
    /\ crashed' = IF ~Refused(c) /\ NoInput(c) THEN "inputs" ELSE crashed
    /\ \/ ~Refused(c) /\ NewMessageProvider(c)
       \/ UNCHANGED stream
    /\ UNCHANGED <<vars, setup, meta>>

MakeCall(c) ==
    /\ outcome[c] = "called"
    /\ Meta!BeginSend(c) \/ Meta!EndSend(c)
    /\ UNCHANGED <<vars, setup, stream, outcome>>

GetStreamMessage ==
    /\ crashed = "no"
    /\ Stream!GetStreamMessage
    /\ UNCHANGED <<vars, setup, meta, crashed, outcome>>

RequestsNext ==
    \/ \E c \in Calls : TakeMetadata(c) \/ GetData(c) \/ Dispatch(c) \/ MakeCall(c)
    \/ GetStreamMessage

RequestsSpec == RequestsInit /\ [][RequestsNext]_requestVars

-----------------------------------------------------------------------------
(* Properties *)

\* Every call that was made carries its own metadata; see CallMetadata.
CallGetsItsMetadata == Meta!CallGetsItsMetadata

\* The messages of a static stream are the configured items in order, again from
\* the first when streamCallCount asks for more than there are, whether the call
\* decoded them or shares them with the other calls through the cache.  A dynamic
\* stream is in order once, and goes on with the first item alone.
InTurn ==
    \A k \in DOMAIN given :
        given[k] = IF kind = "static" THEN Items[((k - 1) % Len(Items)) + 1]
                   ELSE IF shape # "single" /\ k <= Len(Items) THEN Items[k] ELSE 0

\* A stream is given its items in turn, up to the one that is announced as last:
\* "ErrLastMessage ... the returned payload is the last one of the stream".  The
\* message it comes with is followed by ErrEndStream, and no stream ends without
\* it but the empty one.
StreamTakesInTurn ==
    [][/\ InTurn'
       /\ last \in {"last", "end"} => last' = "end"
       /\ last = "message" => last' # "end"]_<<given, last>>

\* The process survives but for three combinations: compression writes to the one
\* metadata map that all calls share, or to the metadata a caller's provider did
\* not give; and a call that is not client streaming has no data, but a message
\* provider, which hides that.
CrashesAreKnown ==
    CASE crashed = "no" -> TRUE
      [] crashed = "maps" -> compress /\ metadata \in {"text", "branch"}
      [] crashed = "nil" -> compress /\ metadata = "nil"
      [] crashed = "inputs" -> /\ shape = "empty" /\ ~ClientStreaming
                               /\ setup.own \/ setup.interceptor
=============================================================================
