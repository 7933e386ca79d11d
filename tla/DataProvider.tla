----------------------------- MODULE DataProvider -----------------------------
(***************************************************************************)
(* The default data provider (runner/data.go, dataProvider): concurrent    *)
(* calls share a cache of messages, filled by whoever misses it.           *)
(*                                                                         *)
(* The configured data is a sequence of items, represented by 0, 1, ...    *)
(* Six shapes of it take different paths through the code:                 *)
(*   "array"    a JSON array for a method that is not client streaming     *)
(*   "single"   a JSON object (one item)                                   *)
(*   "stream"   a JSON array for a client streaming method                 *)
(*   "empty"    an empty JSON array                                        *)
(*   "binary"   binary data for a method that is not client streaming      *)
(*   "func"     the same made by BinaryDataFunc, never cached              *)
(* External: decoding and template execution, which depend on the item and *)
(* the call alone and are taken to succeed.                                *)
(***************************************************************************)
EXTENDS Integers, Sequences

CONSTANTS
    NumItems,   \* how many items the data has
    Calls,      \* the concurrent calls
    Number      \* their request numbers (CallData.RequestNumber)

ASSUME DataProviderAssumption ==
    /\ NumItems \in Nat \ {0}
    /\ Number \in [Calls -> Nat]

Shapes == {"array", "single", "stream", "empty", "binary", "func"}

Nil == -1       \* a message that is not there yet

VARIABLES
    shape,      \* the data that is configured
    hasActions, \* it has template actions
    cached,     \* dp.cachedMessages: <<>> when nil, else the messages
    pc,         \* per call: "start", "create", "fill", "pick", "done"
    inputs,     \* per call: what getMessages decodes
    alias,      \* per call: getMessages returns the cache itself
    result      \* per call: the messages for the request

data == <<shape, hasActions>>
vars == <<data, cached, pc, inputs, alias, result>>

NItems == CASE shape = "single" -> 1 [] shape = "empty" -> 0 [] OTHER -> NumItems
Items == [k \in 1..NItems |-> k - 1]

\* The index i of getMessages, -1 for the whole of the data.
Index(c) == IF shape = "array" THEN Number[c] % NumItems ELSE -1

\* What is decoded on a miss.
Decoded(c) == IF Index(c) >= 0 THEN <<Index(c)>> ELSE Items

\* Mutant of Hit: the cache is looked at as a whole, not at the item.
HitWhole(c) == cached # <<>> /\ cached[1] # Nil

\* Filled: the element getMessages looks at before it returns the cache.
Hit(c) == /\ cached # <<>>
          /\ cached[IF Index(c) < 0 THEN 1 ELSE Index(c) + 1] # Nil
Caches == ~hasActions /\ shape # "func"

\* The cache after a fill with the messages in.
Filled(c, in) == IF Index(c) < 0 THEN in
                 ELSE [cached EXCEPT ![Index(c) + 1] = in[1]]

\* newDataProvider: the array is allocated, and the first call is made with
\* request number 0, unless there are actions.
Init ==
    /\ shape \in Shapes
    /\ hasActions \in (IF shape \in {"empty", "binary", "func"} THEN {FALSE} ELSE BOOLEAN)
    /\ cached = IF ~Caches THEN <<>>
                ELSE IF shape = "array" THEN [k \in 1..NumItems |-> IF k = 1 THEN 0 ELSE Nil]
                ELSE Items
    /\ pc = [c \in Calls |-> "start"]
    /\ inputs = [c \in Calls |-> <<>>]
    /\ alias = [c \in Calls |-> FALSE]
    /\ result = [c \in Calls |-> <<>>]

\* The look into the cache under RLock.
Look(c) ==
    /\ pc[c] = "start"
    /\ \/ Hit(c) /\ alias' = [alias EXCEPT ![c] = TRUE]
          /\ pc' = [pc EXCEPT ![c] = "pick"]
       \/ ~Hit(c) /\ alias' = alias
          /\ pc' = [pc EXCEPT ![c] = "create"]
    /\ UNCHANGED <<data, cached, inputs, result>>

\* Decode, outside the lock.
Create(c) ==
    /\ pc[c] = "create"
    /\ inputs' = [inputs EXCEPT ![c] = Decoded(c)]
    /\ pc' = [pc EXCEPT ![c] = IF Caches THEN "fill" ELSE "pick"]
    /\ UNCHANGED <<data, cached, alias, result>>

\* Store under Lock.
Fill(c) ==
    /\ pc[c] = "fill"
    /\ cached' = Filled(c, inputs[c])
    /\ pc' = [pc EXCEPT ![c] = "pick"]
    /\ UNCHANGED <<data, inputs, alias, result>>

\* What getMessages returns to the call: the cache, as it is when the call reads
\* it, or the messages it has decoded itself.
Messages(c) == IF alias[c] THEN cached ELSE inputs[c]

\* getDataForCall: one message, chosen by the request number again, or all of
\* them for a client streaming method.  No lock is held.
Pick(c) ==
    /\ pc[c] = "pick"
    /\ result' = [result EXCEPT ![c] =
           IF shape \in {"stream", "empty"} THEN Messages(c)
           ELSE <<Messages(c)[(Number[c] % Len(Messages(c))) + 1]>>]
    /\ pc' = [pc EXCEPT ![c] = "done"]
    /\ UNCHANGED <<data, cached, inputs, alias>>

Terminated == (\A c \in Calls : pc[c] = "done") /\ UNCHANGED vars

Next == \/ \E c \in Calls : Look(c) \/ Create(c) \/ Fill(c) \/ Pick(c)
        \/ Terminated

Spec == Init /\ [][Next]_vars

-----------------------------------------------------------------------------
(* Properties *)

TypeOK ==
    /\ shape \in Shapes /\ hasActions \in BOOLEAN
    /\ cached \in Seq({Nil} \cup 0..NumItems - 1)
    /\ pc \in [Calls -> {"start", "create", "fill", "pick", "done"}]
    /\ inputs \in [Calls -> Seq(0..NumItems - 1)]
    /\ alias \in [Calls -> BOOLEAN]
    /\ result \in [Calls -> Seq({Nil} \cup 0..NumItems - 1)]

\* A request takes the item its number stands for, and a client stream all of
\* them, whichever items were cached by whom: a hit returns the whole cache, a
\* miss one message, and the same request number picks from either.  No request
\* gets a message that is not there yet.
CallGetsItsData ==
    \A c \in Calls : pc[c] = "done" =>
        result[c] = IF shape \in {"stream", "empty"} THEN Items
                    ELSE <<Number[c] % NItems>>
=============================================================================
