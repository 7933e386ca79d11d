---------------------------- MODULE MessageProvider ----------------------------
(***************************************************************************)
(* The default providers of stream messages (runner/data.go):              *)
(* staticMessageProvider and dynamicMessageProvider, one per streaming     *)
(* call, asked for one message at a time until ErrEndStream.  Item k of    *)
(* the data is represented by k - 1.  A call makes its provider from what  *)
(* the data provider gave it (see Requests).                             *)
(***************************************************************************)
EXTENDS Integers, Sequences

CONSTANT MaxCount   \* bound on streamCallCount

VARIABLES
    kind,           \* "none" before it is made, "static" or "dynamic"
    items,          \* inputs or arrayJSONData; empty for a dynamic provider of
                    \* an object
    streamCallCount,
    counter,
    indexCounter,
    given,          \* the items returned so far
    last            \* "none", "message", "last" (ErrLastMessage), "end"
                    \* (ErrEndStream) or "panic"

provider == <<kind, items, streamCallCount>>
vars == <<provider, counter, indexCounter, given, last>>

Init ==
    /\ kind = "none" /\ items = <<>>
    /\ streamCallCount \in 0..MaxCount
    /\ counter = 0 /\ indexCounter = 0
    /\ given = <<>> /\ last = "none"

\* newStaticMessageProvider, newDynamicMessageProvider
New(k, in) ==
    /\ kind = "none"
    /\ kind' = k /\ items' = in
    /\ UNCHANGED <<streamCallCount, counter, indexCounter, given, last>>

len == Len(items)

\* How many messages the provider has before it ends the stream.
Limit == IF streamCallCount > 0 THEN streamCallCount ELSE len

\* Mutant of StaticIndex: compares with the last index.
StaticIndexShort == IF streamCallCount > 0 /\ indexCounter = len - 1 THEN 0 ELSE indexCounter

\* m.indexCounter before the payload is taken.
StaticIndex == IF streamCallCount > 0 /\ indexCounter = len THEN 0 ELSE indexCounter

DynamicIndex == IF counter >= len THEN 0 ELSE indexCounter
ItemIndex == IF kind = "static" THEN StaticIndex ELSE DynamicIndex

\* The dynamic provider of an object makes its messages from the whole data;
\* otherwise an item is taken, which must be there.
Whole == kind = "dynamic" /\ len = 0
InRange == Whole \/ ItemIndex + 1 \in DOMAIN items
Payload == IF Whole THEN 0 ELSE items[ItemIndex + 1]

\* The provider exists and has not panicked.
Asked == kind # "none" /\ last # "panic"

\* GetStreamMessage: a message, the last one if it is at the limit.
Get ==
    /\ Asked /\ counter < Limit /\ InRange
    /\ given' = Append(given, Payload)
    /\ counter' = counter + 1
    /\ indexCounter' = ItemIndex + 1
    /\ last' = IF counter = Limit - 1 THEN "last" ELSE "message"
    /\ UNCHANGED provider

EndStream ==
    /\ Asked /\ counter >= Limit
    /\ last' = "end"
    /\ UNCHANGED <<provider, counter, indexCounter, given>>

\* The index is out of range: m.inputs[0] for a count without any input.
GetNothing ==
    /\ Asked /\ counter < Limit /\ ~InRange
    /\ last' = "panic"
    /\ UNCHANGED <<provider, counter, indexCounter, given>>

GetStreamMessage == Get \/ EndStream \/ GetNothing

-----------------------------------------------------------------------------
(* Properties *)

TypeOK ==
    /\ kind \in {"none", "static", "dynamic"}
    /\ items \in Seq(Nat)
    /\ streamCallCount \in 0..MaxCount
    /\ counter \in 0..Limit
    /\ indexCounter \in 0..len + 1
    /\ given \in Seq(Nat)
    /\ last \in {"none", "message", "last", "end", "panic"}
=============================================================================
