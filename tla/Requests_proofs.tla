---------------------------- MODULE Requests_proofs ----------------------------
(***************************************************************************)
(* Proofs about concurrent requests, for any calls, request numbers, items *)
(* and setups: the shared cache of messages, the data and the metadata     *)
(* each call goes out with, and how the process can end.                   *)
(***************************************************************************)
EXTENDS Requests, SequenceTheorems, TLAPS

-----------------------------------------------------------------------------
(* The data provider *)

\* An entry of the cache is missing or the item of its index.  Only an array
\* is cached item by item.
CacheOK ==
    /\ ~Caches => cached = <<>>
    /\ Caches /\ shape # "array" => cached = Items
    /\ Caches /\ shape = "array" =>
          /\ cached \in [1..NumItems -> {Nil} \cup 0..NumItems - 1]
          /\ \A k \in 1..NumItems : cached[k] \in {Nil, k - 1}

\* A call that was promised an entry of the cache still finds it, one that was
\* not has decoded its own, and one that is done has what it asked for.
CallOK(c) ==
    /\ pc[c] \in {"start", "create", "fill"} => ~alias[c]
    /\ pc[c] = "pick" /\ alias[c] => Hit(c)
    /\ pc[c] \in {"fill", "pick"} /\ ~alias[c] => inputs[c] = Decoded(c)
    /\ pc[c] = "fill" => Caches
    /\ pc[c] = "done" =>
          result[c] = IF shape \in {"stream", "empty"} THEN Items
                      ELSE <<Number[c] % NItems>>

DataInv ==
    /\ shape \in Shapes
    /\ pc \in [Calls -> {"start", "create", "fill", "pick", "done"}]
    /\ inputs \in [Calls -> Seq(Int)]
    /\ alias \in [Calls -> BOOLEAN]
    /\ result \in [Calls -> Seq(Int)]
    /\ CacheOK
    /\ \A c \in Calls : CallOK(c)

-----------------------------------------------------------------------------
(* Facts about the data *)

\* A request number stands for one of n items.
LEMMA ModRange ==
    ASSUME NEW r \in Nat, NEW n \in Nat \ {0}
    PROVE  r % n \in 0..n - 1
  OBVIOUS

\* The items are a sequence of the length the data has.
LEMMA ItemsSeq ==
    ASSUME shape \in Shapes
    PROVE  /\ NItems \in Nat
           /\ shape # "empty" => NItems \in Nat \ {0}
           /\ shape \notin {"single", "empty"} => NItems = NumItems
           /\ Items \in Seq(Int)
           /\ Len(Items) = NItems
           /\ \A k \in 1..NItems : Items[k] = k - 1
  <1>1. /\ NItems \in Nat
        /\ shape # "empty" => NItems \in Nat \ {0}
        /\ shape \notin {"single", "empty"} => NItems = NumItems
    BY DataProviderAssumption DEF DataProviderAssumption, NItems, Shapes
  <1>2. \A k \in 1..NItems : k - 1 \in Int
    BY <1>1
  <1>3. Items \in Seq(Int) /\ Len(Items) = NItems
    BY <1>1, <1>2, IsASeq DEF Items
  <1> QED  BY <1>1, <1>3 DEF Items

\* The index of a call is that of an item of an array, and -1 for other data.
LEMMA IndexRange ==
    ASSUME NEW c \in Calls
    PROVE  /\ shape = "array" => Index(c) = Number[c] % NumItems
                                 /\ Index(c) \in 0..NumItems - 1
           /\ shape # "array" => Index(c) = -1
  <1>1. Number[c] \in Nat /\ NumItems \in Nat \ {0}
    BY DataProviderAssumption DEF DataProviderAssumption
  <1>2. Number[c] % NumItems \in 0..NumItems - 1
    BY <1>1, ModRange
  <1> QED  BY <1>2 DEF Index

\* What a call decodes: its item of an array, or all of the data.
LEMMA DecodedIs ==
    ASSUME NEW c \in Calls, shape \in Shapes
    PROVE  /\ shape = "array" => Decoded(c) = <<Index(c)>>
           /\ shape # "array" => Decoded(c) = Items
           /\ Decoded(c) \in Seq(Int)
  BY IndexRange, ItemsSeq, DataProviderAssumption DEF Decoded, DataProviderAssumption

\* A promised entry is there: the cache of an array has the item of the call, and
\* any other cache is the data.
LEMMA HitHolds ==
    ASSUME NEW c \in Calls, shape \in Shapes, CacheOK, Hit(c)
    PROVE  /\ shape = "array" => /\ cached \in Seq(Int) /\ Len(cached) = NumItems
                                 /\ cached[Index(c) + 1] = Index(c)
           /\ shape # "array" => cached = Items
  <1>1. Caches
    BY DEF CacheOK, Hit
  <1>2. CASE shape = "array"
    <2>1. /\ NumItems \in Nat
          /\ cached \in [1..NumItems -> {Nil} \cup 0..NumItems - 1]
          /\ Index(c) \in 0..NumItems - 1
      BY <1>1, <1>2, IndexRange, DataProviderAssumption DEF CacheOK, DataProviderAssumption
    <2>2. cached \in Seq(Int) /\ Len(cached) = NumItems
      <3>1. /\ cached = [k \in 1..NumItems |-> cached[k]]
            /\ \A k \in 1..NumItems : cached[k] \in Int
        BY <2>1 DEF Nil
      <3> QED  BY <2>1, <3>1, IsASeq
    <2>3. cached[Index(c) + 1] \in {Nil, Index(c)}
      BY <1>1, <1>2, <2>1 DEF CacheOK
    <2>4. cached[Index(c) + 1] # Nil
      BY <2>1 DEF Hit
    <2> QED  BY <1>2, <2>2, <2>3, <2>4
  <1> QED  BY <1>1, <1>2 DEF CacheOK

-----------------------------------------------------------------------------
(* The invariant *)

\* The first call of newDataProvider leaves a cache that is as it should be.
LEMMA DataInit == Init => DataInv
  <1> SUFFICES ASSUME Init  PROVE DataInv
    OBVIOUS
  <1>1. /\ shape \in Shapes
        /\ pc \in [Calls -> {"start", "create", "fill", "pick", "done"}]
        /\ inputs \in [Calls -> Seq(Int)] /\ alias \in [Calls -> BOOLEAN]
        /\ result \in [Calls -> Seq(Int)]
    BY DEF Init
  <1>2. CacheOK
    BY DataProviderAssumption DEF Init, CacheOK, DataProviderAssumption, Nil
  <1>3. \A c \in Calls : CallOK(c)
    BY DEF Init, CallOK
  <1> QED  BY <1>1, <1>2, <1>3 DEF DataInv

\* A fill keeps the cache, and what other calls were promised.
LEMMA FillKeepsCache ==
    ASSUME DataInv, NEW c \in Calls, Fill(c)
    PROVE  /\ CacheOK'
           /\ \A d \in Calls : Hit(d) => Hit(d)'
  <1>1. Caches /\ inputs[c] = Decoded(c) /\ UNCHANGED <<shape, hasActions>>
        /\ Caches' = Caches /\ Items' = Items /\ \A d \in Calls : Index(d)' = Index(d)
        /\ cached' = Filled(c, inputs[c])
    BY DEF DataInv, CallOK, Fill, Caches, Items, NItems, Index, data
  <1>2. CASE shape = "array"
    <2> DEFINE i == Index(c)
    <2>1. /\ NumItems \in Nat /\ i \in 0..NumItems - 1 /\ inputs[c][1] = i
          /\ cached' = [cached EXCEPT ![i + 1] = i]
      BY <1>1, <1>2, IndexRange, DecodedIs, DataProviderAssumption
      DEF DataInv, Filled, DataProviderAssumption
    <2>2. /\ cached \in [1..NumItems -> {Nil} \cup 0..NumItems - 1]
          /\ \A k \in 1..NumItems : cached[k] \in {Nil, k - 1}
      BY <1>1, <1>2 DEF DataInv, CacheOK
    <2>3. /\ cached' \in [1..NumItems -> {Nil} \cup 0..NumItems - 1]
          /\ \A k \in 1..NumItems : cached'[k] = IF k = i + 1 THEN i ELSE cached[k]
      BY <2>1, <2>2
    <2>4. CacheOK'
      <3>1. \A k \in 1..NumItems : cached'[k] \in {Nil, k - 1}
        BY <2>1, <2>2, <2>3
      <3> QED  BY <1>1, <1>2, <2>3, <3>1 DEF CacheOK
    <2>5. ASSUME NEW d \in Calls, Hit(d)  PROVE Hit(d)'
      <3>1. Index(d) \in 0..NumItems - 1 /\ Index(d)' = Index(d)
        BY <1>1, <1>2, IndexRange
      <3>2. cached[Index(d) + 1] # Nil
        BY <2>5, <3>1, <2>1 DEF Hit
      <3>3. cached'[Index(d) + 1] # Nil
        BY <2>1, <2>3, <3>1, <3>2 DEF Nil
      <3>4. cached' # <<>>
        BY <2>1, <2>3
      <3> QED  BY <2>1, <3>1, <3>3, <3>4 DEF Hit
    <2> QED  BY <2>4, <2>5
  <1>3. CASE shape # "array"
    <2>1. Index(c) = -1 /\ inputs[c] = Items /\ cached = Items
      BY <1>1, <1>3, IndexRange, DecodedIs DEF DataInv, CacheOK
    <2>2. cached' = cached
      BY <1>1, <2>1 DEF Filled
    <2> QED  BY <1>1, <2>2 DEF DataInv, CacheOK, Hit
  <1> QED  BY <1>2, <1>3

\* The call picks what its request number stands for, from the cache or from
\* what it has decoded.
LEMMA PickRight ==
    ASSUME DataInv, NEW c \in Calls, Pick(c)
    PROVE  /\ result'[c] = IF shape \in {"stream", "empty"} THEN Items
                           ELSE <<Number[c] % NItems>>
           /\ result'[c] \in Seq(Int)
  <1> DEFINE m == Messages(c)
  <1>1. /\ shape \in Shapes /\ Number[c] \in Nat /\ NumItems \in Nat \ {0}
        /\ result'[c] = IF shape \in {"stream", "empty"} THEN m
                        ELSE <<m[(Number[c] % Len(m)) + 1]>>
    BY DataProviderAssumption DEF DataInv, Pick, DataProviderAssumption
  <1>2. m = IF alias[c] THEN cached ELSE Decoded(c)
    BY DEF DataInv, CallOK, Pick, Messages
  <1>3. alias[c] => Hit(c)
    BY DEF DataInv, CallOK, Pick
  <1>4. CASE shape = "array"
    <2>1. NItems = NumItems /\ Index(c) = Number[c] % NumItems
      BY <1>1, <1>4, ItemsSeq, IndexRange
    <2>2. CASE alias[c]
      <3>1. Len(m) = NumItems /\ m[Index(c) + 1] = Index(c)
        BY <1>1, <1>2, <1>3, <1>4, <2>2, HitHolds DEF DataInv
      <3> QED  BY <1>1, <1>4, <2>1, <3>1
    <2>3. CASE ~alias[c]
      <3>1. m = <<Index(c)>>
        BY <1>1, <1>2, <1>4, <2>3, DecodedIs
      <3>2. Number[c] % 1 = 0
        BY <1>1
      <3>3. Len(m) = 1 /\ m[1] = Index(c)
        BY <3>1
      <3> QED  BY <1>1, <1>4, <2>1, <3>2, <3>3
    <2> QED  BY <2>2, <2>3
  <1>5. CASE shape # "array"
    <2>1. m = Items
      BY <1>1, <1>2, <1>3, <1>5, HitHolds, DecodedIs DEF DataInv
    <2>2. CASE shape \in {"stream", "empty"}
      BY <1>1, <2>1, <2>2, ItemsSeq
    <2>3. CASE shape \notin {"stream", "empty"}
      <3>1. NItems \in Nat \ {0} /\ Len(m) = NItems
        BY <1>1, <2>1, <2>3, ItemsSeq
      <3>2. Number[c] % NItems \in 0..NItems - 1
        BY <1>1, <3>1, ModRange
      <3>3. m[(Number[c] % NItems) + 1] = Number[c] % NItems
        BY <1>1, <2>1, <3>1, <3>2, ItemsSeq
      <3> QED  BY <1>1, <2>3, <3>1, <3>2, <3>3
    <2> QED  BY <2>2, <2>3
  <1> QED  BY <1>4, <1>5

-----------------------------------------------------------------------------
(* The steps *)

\* What every action but Fill leaves alone.
LEMMA CacheSame ==
    ASSUME DataInv, UNCHANGED <<data, cached>>
    PROVE  /\ CacheOK' /\ (shape \in Shapes)' /\ Caches' = Caches
           /\ \A d \in Calls : (Hit(d) => Hit(d)') /\ Decoded(d)' = Decoded(d)
           /\ Items' = Items /\ NItems' = NItems
  BY DEF DataInv, CacheOK, Caches, Items, NItems, Hit, Decoded, Index, data

\* A step of one call leaves another call with what it has and was promised.
LEMMA OthersKeep ==
    ASSUME DataInv, NEW c \in Calls, Look(c) \/ Create(c) \/ Fill(c) \/ Pick(c),
           NEW d \in Calls, d # c
    PROVE  CallOK(d)'
  <1>1. CallOK(d)
    BY DEF DataInv
  <1>2. /\ pc'[d] = pc[d] /\ alias'[d] = alias[d]
        /\ inputs'[d] = inputs[d] /\ result'[d] = result[d]
        /\ UNCHANGED data
    BY DEF DataInv, Look, Create, Fill, Pick
  <1>3. Hit(d) => Hit(d)'
    <2>1. CASE Fill(c)
      BY <2>1, FillKeepsCache
    <2>2. CASE Look(c) \/ Create(c) \/ Pick(c)
      BY <2>2, CacheSame DEF Look, Create, Pick
    <2> QED  BY <2>1, <2>2
  <1>4. Caches' = Caches /\ Decoded(d)' = Decoded(d) /\ Items' = Items /\ NItems' = NItems
    BY <1>2 DEF data, Caches, Decoded, Index, Items, NItems
  <1>5. shape' = shape
    BY <1>2 DEF data
  <1> QED  BY <1>1, <1>2, <1>3, <1>4, <1>5 DEF CallOK

\* Every step of a call keeps the invariant.
LEMMA DataStep ==
    ASSUME DataInv, [Next]_vars
    PROVE  DataInv'
  <1>1. ASSUME NEW c \in Calls, Look(c)  PROVE DataInv'
    <2>1. UNCHANGED <<data, cached>>
      BY <1>1 DEF Look
    <2>2. CallOK(c)'
      BY <1>1, <2>1, CacheSame DEF DataInv, Look, CallOK
    <2> QED  BY <1>1, <2>1, <2>2, CacheSame, OthersKeep DEF DataInv, Look
  <1>2. ASSUME NEW c \in Calls, Create(c)  PROVE DataInv'
    <2>1. UNCHANGED <<data, cached>>
      BY <1>2 DEF Create
    <2>2. Decoded(c) \in Seq(Int)
      BY DecodedIs DEF DataInv
    <2>3. CallOK(c)'
      BY <1>2, <2>1, CacheSame DEF DataInv, Create, CallOK
    <2> QED  BY <1>2, <2>1, <2>2, <2>3, CacheSame, OthersKeep DEF DataInv, Create
  <1>3. ASSUME NEW c \in Calls, Fill(c)  PROVE DataInv'
    <2>1. CacheOK' /\ shape' = shape /\ Decoded(c)' = Decoded(c)
      BY <1>3, FillKeepsCache DEF Fill, data, Decoded, Index, Items, NItems
    <2>2. CallOK(c)'
      BY <1>3, <2>1 DEF DataInv, Fill, CallOK
    <2> QED  BY <1>3, <2>1, <2>2, OthersKeep DEF DataInv, Fill
  <1>4. ASSUME NEW c \in Calls, Pick(c)  PROVE DataInv'
    <2>1. UNCHANGED <<data, cached>>
      BY <1>4 DEF Pick
    <2>2. CallOK(c)'
      <3>1. pc'[c] = "done" /\ shape' = shape
        BY <1>4 DEF DataInv, Pick, data
      <3> QED  BY <1>4, <2>1, <3>1, CacheSame, PickRight DEF CallOK
    <2>3. result' \in [Calls -> Seq(Int)]
      BY <1>4, PickRight DEF DataInv, Pick
    <2> QED  BY <1>4, <2>1, <2>2, <2>3, CacheSame, OthersKeep DEF DataInv, Pick
  <1>5. CASE UNCHANGED vars
    BY <1>5, CacheSame DEF DataInv, CallOK, vars, data
  <1> QED  BY <1>1, <1>2, <1>3, <1>4, <1>5 DEF Next, Terminated

\* Whoever fills the cache, and whatever is in it when a call looks: each call
\* gets the item its request number stands for, or all of them for a client
\* stream (getDataForCall).
THEOREM DataCorrect == Spec => []CallGetsItsData
  <1>1. Init => DataInv
    BY DataInit
  <1>2. DataInv /\ [Next]_vars => DataInv'
    BY DataStep
  <1>3. DataInv => CallGetsItsData
    BY DEF DataInv, CallOK, CallGetsItsData
  <1> QED  BY <1>1, <1>2, <1>3, PTL DEF Spec

-----------------------------------------------------------------------------
(* The data *)

\* The requests use the data provider as DataProvider says; everything else they do
\* leaves it alone.
THEOREM RequestsUseProvider == RequestsSpec => Spec
  <1>1. RequestsInit => Init
    BY DEF RequestsInit
  <1>2. [RequestsNext]_requestVars => [Next]_vars
    BY DEF RequestsNext, requestVars, TakeMetadata, GetData, Dispatch, MakeCall,
           GetStreamMessage, Next
  <1> QED  BY <1>1, <1>2, PTL DEF RequestsSpec, Spec

\* So each request gets its data, whatever its metadata and its stream do.
THEOREM RequestsDataCorrect == RequestsSpec => []CallGetsItsData
  BY RequestsUseProvider, DataCorrect, PTL

-----------------------------------------------------------------------------
(* The metadata *)

Map == [value: Int, encoding: BOOLEAN]

\* The value a call's metadata is to have.
ValueFor(c) == CASE metadata = "action" -> Number[c]
                 [] metadata = "branch" -> 0
                 [] OTHER -> Meta!Same
Shared == metadata \in {"text", "branch"}

MetaTypeOK ==
    /\ metadata \in {"none", "text", "action", "branch", "nil"}
    /\ compress \in BOOLEAN
    /\ preseed \in Map
    /\ step \in [Calls -> {"metadata", "set", "setting", "ready", "sending", "sent"}]
    /\ reqMD \in [Calls -> {"none", "shared", "own", "nil"}]
    /\ own \in [Calls -> Map]

\* The preseeded map is there when the calls share one, and asks for compressed
\* answers only if compression is on.
PreseedInv ==
    /\ Shared => preseed # Meta!NoMap /\ \A c \in Calls : preseed.value = ValueFor(c)
    /\ ~Shared => preseed = Meta!NoMap
    /\ preseed.encoding => compress

\* Which map a call uses, when compression delays it, and what is in the map by the
\* time it is sent.
CallMapInv(c) ==
    /\ reqMD[c] = IF step[c] = "metadata" THEN "none"
                  ELSE IF metadata = "nil" THEN "nil"
                  ELSE IF Shared THEN "shared" ELSE "own"
    /\ step[c] \in {"set", "setting"} => compress
    /\ reqMD[c] = "nil" => (step[c] # "setting" /\ (step[c] # "set" => ~compress))
    /\ reqMD[c] = "shared" /\ step[c] \in {"ready", "sending"} /\ compress =>
           preseed.encoding
    /\ reqMD[c] \in {"own", "nil"} =>
          /\ own[c].value = ValueFor(c)
          /\ own[c].encoding <=> compress /\ step[c] \in {"ready", "sending", "sent"}
    /\ reqMD[c] = "shared" /\ step[c] = "sent" =>
          own[c].value = ValueFor(c) /\ (own[c].encoding <=> compress)

MetaInv == MetaTypeOK /\ PreseedInv /\ \A c \in Calls : CallMapInv(c)

\* newMetadataProvider
LEMMA MetaInit == RequestsInit => MetaInv
  <1> SUFFICES ASSUME RequestsInit
               PROVE  MetaInv
    OBVIOUS
  <1> USE DEF RequestsInit, Meta!MdInit, Meta!NoMap, Meta!Same, Meta!Executed, Meta!HasAction,
              Map
  <1>1. MetaTypeOK
    BY DEF MetaTypeOK
  <1>2. PreseedInv
    BY DEF PreseedInv, Shared, ValueFor
  <1>3. \A c \in Calls : CallMapInv(c)
    BY DEF CallMapInv
  <1> QED  BY <1>1, <1>2, <1>3 DEF MetaInv

\* The steps of a call on its metadata.
MetaStepOf(c) == \/ Meta!GetMetadata(c) \/ Meta!BeginSet(c) \/ Meta!EndSet(c)
                 \/ Meta!BeginSend(c) \/ Meta!EndSend(c)

LEMMA MetaStep ==
    ASSUME MetaInv, NEW c \in Calls, MetaStepOf(c)
    PROVE  MetaInv'
  <1> USE DEF Meta!setting, Meta!Goto
  <1>1. /\ metadata' = metadata /\ compress' = compress
        /\ Shared' = Shared /\ \A d \in Calls : ValueFor(d)' = ValueFor(d)
    BY DEF MetaStepOf, Meta!GetMetadata, Meta!BeginSet, Meta!EndSet, Meta!BeginSend,
           Meta!EndSend, Meta!Crash, Shared, ValueFor
  <1>2. CASE UNCHANGED <<preseed, step, reqMD, own>>
    BY <1>1, <1>2 DEF MetaInv, MetaTypeOK, PreseedInv, CallMapInv
  <1>3. CASE Meta!GetMetadata(c)
    <2>1. /\ step[c] = "metadata" /\ preseed' = preseed
          /\ step' = [step EXCEPT ![c] = IF compress THEN "set" ELSE "ready"]
          /\ reqMD' = [reqMD EXCEPT ![c] = IF metadata = "nil" THEN "nil"
                                           ELSE IF preseed # Meta!NoMap THEN "shared"
                                           ELSE "own"]
          /\ own' = [own EXCEPT ![c] = IF preseed = Meta!NoMap THEN Meta!Executed(Number[c])
                                       ELSE own[c]]
      BY <1>3 DEF Meta!GetMetadata
    <2>2. Meta!Executed(Number[c]) = [value |-> IF metadata \in {"action", "branch"}
                                                THEN Number[c] ELSE Meta!Same,
                                      encoding |-> FALSE]
      BY DEF Meta!Executed
    <2>3. Number[c] \in Nat /\ Meta!Executed(Number[c]) \in Map
      BY <2>2, DataProviderAssumption DEF DataProviderAssumption, Meta!Same, Map
    <2>4. MetaTypeOK'
      BY <1>1, <2>1, <2>3 DEF MetaInv, MetaTypeOK
    <2>5. PreseedInv'
      BY <1>1, <2>1 DEF MetaInv, PreseedInv
    <2>6. CallMapInv(c)'
      <3>1. /\ reqMD'[c] = IF metadata = "nil" THEN "nil" ELSE IF Shared THEN "shared" ELSE "own"
            /\ step'[c] = IF compress THEN "set" ELSE "ready"
        BY <2>1 DEF MetaInv, MetaTypeOK, PreseedInv
      <3>2. ~Shared => own'[c] = Meta!Executed(Number[c])
        BY <2>1 DEF MetaInv, MetaTypeOK, PreseedInv
      <3>3. ~Shared => /\ own'[c].value = ValueFor(c)
                       /\ own'[c].encoding = FALSE
        BY <2>2, <3>2 DEF ValueFor, Shared, MetaInv, MetaTypeOK
      <3>4. metadata = "nil" => ~Shared
        BY DEF Shared
      <3>5. compress \in BOOLEAN
        BY DEF MetaInv, MetaTypeOK
      <3> QED  BY <1>1, <2>1, <3>1, <3>3, <3>4, <3>5 DEF CallMapInv
    <2>7. ASSUME NEW d \in Calls, d # c
          PROVE  CallMapInv(d)'
      <3>1. step'[d] = step[d] /\ reqMD'[d] = reqMD[d] /\ own'[d] = own[d]
        BY <2>1, <2>7 DEF MetaInv, MetaTypeOK
      <3> QED  BY <1>1, <2>1, <3>1 DEF MetaInv, CallMapInv
    <2> QED  BY <2>4, <2>5, <2>6, <2>7 DEF MetaInv
  <1>4. CASE Meta!BeginSet(c) /\ ~UNCHANGED <<preseed, step, reqMD, own>>
    <2>1. /\ step[c] = "set" /\ reqMD[c] # "nil"
          /\ step' = [step EXCEPT ![c] = "setting"]
          /\ UNCHANGED <<preseed, reqMD, own>>
      BY <1>4 DEF Meta!BeginSet, Meta!Crash
    <2> QED  BY <1>1, <2>1 DEF MetaInv, MetaTypeOK, PreseedInv, CallMapInv
  <1>5. CASE Meta!EndSet(c)
    <2>1. /\ step[c] = "setting" /\ reqMD' = reqMD /\ compress /\ reqMD[c] # "nil"
          /\ step' = [step EXCEPT ![c] = "ready"]
      BY <1>5 DEF Meta!EndSet, MetaInv, CallMapInv
    <2>2. CASE reqMD[c] = "shared"
      <3>1. preseed' = [preseed EXCEPT !.encoding = TRUE] /\ own' = own
        BY <1>5, <2>2 DEF Meta!EndSet
      <3>2. preseed' \in Map /\ preseed'.encoding /\ preseed'.value = preseed.value
        BY <3>1 DEF MetaInv, MetaTypeOK, Map
      <3>3. Shared
        BY <2>2 DEF MetaInv, CallMapInv
      <3>4. preseed' # Meta!NoMap
        BY <3>2 DEF Meta!NoMap
      <3>5. MetaTypeOK' /\ PreseedInv'
        BY <1>1, <2>1, <3>1, <3>2, <3>3, <3>4 DEF MetaInv, MetaTypeOK, PreseedInv
      <3>6. \A d \in Calls : CallMapInv(d)'
        BY <1>1, <2>1, <2>2, <3>1, <3>2, <3>3 DEF MetaInv, MetaTypeOK, CallMapInv
      <3> QED  BY <3>5, <3>6 DEF MetaInv
    <2>3. CASE reqMD[c] # "shared"
      <3>1. own' = [own EXCEPT ![c].encoding = TRUE] /\ preseed' = preseed
        BY <1>5, <2>3 DEF Meta!EndSet
      <3>2. own' \in [Calls -> Map] /\ own'[c].encoding /\ own'[c].value = own[c].value
            /\ \A d \in Calls : d # c => own'[d] = own[d]
        BY <3>1 DEF MetaInv, MetaTypeOK, Map
      <3>3. MetaTypeOK' /\ PreseedInv'
        BY <1>1, <2>1, <3>1, <3>2 DEF MetaInv, MetaTypeOK, PreseedInv
      <3>4. CallMapInv(c)'
        BY <1>1, <2>1, <2>3, <3>1, <3>2 DEF MetaInv, MetaTypeOK, CallMapInv
      <3>5. ASSUME NEW d \in Calls, d # c
            PROVE  CallMapInv(d)'
        <4>1. step'[d] = step[d] /\ own'[d] = own[d]
          BY <2>1, <3>2, <3>5 DEF MetaInv, MetaTypeOK
        <4> QED  BY <1>1, <2>1, <3>1, <4>1 DEF MetaInv, CallMapInv
      <3> QED  BY <3>3, <3>4, <3>5 DEF MetaInv
    <2> QED  BY <2>2, <2>3
  <1>6. CASE Meta!BeginSend(c) /\ ~UNCHANGED <<preseed, step, reqMD, own>>
    <2>1. /\ step[c] = "ready"
          /\ step' = [step EXCEPT ![c] = "sending"]
          /\ UNCHANGED <<preseed, reqMD, own>>
      BY <1>6 DEF Meta!BeginSend, Meta!Crash
    <2> QED  BY <1>1, <2>1 DEF MetaInv, MetaTypeOK, PreseedInv, CallMapInv
  <1>7. CASE Meta!EndSend(c)
    <2>1. /\ step[c] = "sending"
          /\ step' = [step EXCEPT ![c] = "sent"]
          /\ own' = [own EXCEPT ![c] = IF reqMD[c] = "shared" THEN preseed ELSE own[c]]
          /\ UNCHANGED <<preseed, reqMD>>
      BY <1>7 DEF Meta!EndSend
    <2>2. MetaTypeOK' /\ PreseedInv'
      BY <1>1, <2>1 DEF MetaInv, MetaTypeOK, PreseedInv
    <2>3. CallMapInv(c)'
      <3>1. step'[c] = "sent" /\ own'[c] = IF reqMD[c] = "shared" THEN preseed ELSE own[c]
        BY <2>1 DEF MetaInv, MetaTypeOK
      <3>2. CASE reqMD[c] = "shared"
        <4>1. Shared /\ preseed.value = ValueFor(c) /\ (compress => preseed.encoding)
              /\ (preseed.encoding => compress)
          BY <2>1, <3>2 DEF MetaInv, CallMapInv, PreseedInv
        <4> QED  BY <1>1, <2>1, <3>1, <3>2, <4>1 DEF MetaInv, CallMapInv
      <3>3. CASE reqMD[c] # "shared"
        BY <1>1, <2>1, <3>1, <3>3 DEF MetaInv, CallMapInv
      <3> QED  BY <3>2, <3>3
    <2>4. ASSUME NEW d \in Calls, d # c
          PROVE  CallMapInv(d)'
      <3>1. step'[d] = step[d] /\ own'[d] = own[d]
        BY <2>1, <2>4 DEF MetaInv, MetaTypeOK
      <3> QED  BY <1>1, <2>1, <3>1 DEF MetaInv, CallMapInv
    <2> QED  BY <2>2, <2>3, <2>4 DEF MetaInv
  <1> QED  BY <1>2, <1>3, <1>4, <1>5, <1>6, <1>7 DEF MetaStepOf

LEMMA MetaNext ==
    ASSUME MetaInv, [RequestsNext]_requestVars
    PROVE  MetaInv'
  <1>1. ASSUME NEW c \in Calls, MetaStepOf(c)
        PROVE  MetaInv'
    BY <1>1, MetaStep
  <1>2. CASE UNCHANGED meta
    BY <1>2 DEF meta, MetaInv, MetaTypeOK, PreseedInv, CallMapInv, Shared, ValueFor
  <1> QED
    BY <1>1, <1>2 DEF RequestsNext, requestVars, TakeMetadata, GetData, Dispatch, MakeCall,
                      GetStreamMessage, MetaStepOf

\* A call goes out with the metadata of its own number, or with that which all calls
\* share, and asks for compressed answers exactly when compression is on, whoever
\* wrote that into the shared map (getMetadataForCall, makeRequest).
THEOREM MetadataCorrect == RequestsSpec => []CallGetsItsMetadata
  <1>1. MetaInv => CallGetsItsMetadata
    <2> SUFFICES ASSUME MetaInv, NEW c \in Calls, step[c] = "sent"
                 PROVE  own[c] = IF metadata = "nil" THEN Meta!EmptyMap
                                 ELSE [value |-> ValueFor(c), encoding |-> compress]
      BY DEF CallGetsItsMetadata, Meta!CallGetsItsMetadata, ValueFor
    <2>1. own[c].value = ValueFor(c) /\ (own[c].encoding <=> compress)
      BY DEF MetaInv, CallMapInv
    <2>2. metadata = "nil" => ~compress
      BY DEF MetaInv, CallMapInv
    <2>3. own[c] \in Map /\ compress \in BOOLEAN
      BY DEF MetaInv, MetaTypeOK
    <2>4. own[c] = [value |-> ValueFor(c), encoding |-> compress]
      BY <2>1, <2>3 DEF Map
    <2>5. metadata = "nil" => Meta!EmptyMap = [value |-> ValueFor(c), encoding |-> FALSE]
      BY DEF Meta!EmptyMap, ValueFor
    <2> QED  BY <2>2, <2>3, <2>4, <2>5
  <1>2. MetaInv /\ [RequestsNext]_requestVars => MetaInv'
    BY MetaNext
  <1> QED  BY MetaInit, <1>1, <1>2, PTL DEF RequestsSpec

-----------------------------------------------------------------------------
(* How the process ends *)

CrashInv ==
    /\ setup.metadata = metadata /\ setup.shape = shape /\ setup.method \in Methods
    /\ setup.own \in BOOLEAN /\ setup.interceptor \in BOOLEAN
    /\ crashed \in {"no", "maps", "nil", "inputs"}
    /\ CrashesAreKnown

\* A call without data is refused, unless it has a message provider.
LEMMA NothingToSend ==
    ASSUME CrashInv, DataInv, NEW c \in Calls, pc[c] = "done", ~Refused(c), NoInput(c)
    PROVE  shape = "empty" /\ ~ClientStreaming /\ (setup.own \/ setup.interceptor)
  <1>1. Provider # "none"
    BY DEF Refused, NoInput
  <1>2. setup.own \/ setup.interceptor
    BY <1>1 DEF Provider, NoInput
  <1>3. shape \in {"stream", "empty"} /\ Items = <<>>
    <2>1. <<>> = IF shape \in {"stream", "empty"} THEN Items ELSE <<Number[c] % NItems>>
      BY DEF DataInv, CallOK, NoInput
    <2>2. <<>> # <<Number[c] % NItems>>
      OBVIOUS
    <2> QED  BY <2>1, <2>2
  <1>4. shape # "stream"
    BY <1>3, ItemsSeq, DataProviderAssumption DEF DataInv, DataProviderAssumption
  <1> QED  BY <1>2, <1>3, <1>4 DEF NoInput

LEMMA CrashStep ==
    ASSUME CrashInv, DataInv, MetaInv, [RequestsNext]_requestVars
    PROVE  CrashInv'
  <1>1. setup' = setup /\ shape' = shape /\ metadata' = metadata /\ compress' = compress
    BY DEF RequestsNext, requestVars, TakeMetadata, GetData, Dispatch, MakeCall,
           GetStreamMessage, vars, data, meta, Look, Create, Fill, Pick, Meta!GetMetadata,
           Meta!BeginSet, Meta!EndSet, Meta!BeginSend, Meta!EndSend, Meta!Crash, Meta!setting
  <1>2. CASE crashed' = crashed
    BY <1>1, <1>2 DEF CrashInv, CrashesAreKnown, ClientStreaming
  <1>3. ASSUME NEW c \in Calls, TakeMetadata(c) \/ MakeCall(c), crashed' # crashed
        PROVE  CrashInv'
    <2>1. /\ crashed' \in {"maps", "nil"}
          /\ crashed' = "nil" => step[c] = "set" /\ reqMD[c] = "nil"
          /\ crashed' = "maps" => \E d \in Calls : /\ reqMD[d] = "shared"
                                                   /\ step[d] \in {"set", "setting"}
      BY <1>3 DEF TakeMetadata, MakeCall, Meta!GetMetadata, Meta!BeginSet, Meta!EndSet,
                  Meta!BeginSend, Meta!EndSend, Meta!Crash, Meta!OthersWrite, Meta!OthersRead
    <2>2. crashed' = "nil" => compress /\ metadata = "nil"
      BY <2>1 DEF MetaInv, CallMapInv
    <2>3. crashed' = "maps" => compress /\ metadata \in {"text", "branch"}
      BY <2>1 DEF MetaInv, CallMapInv, Shared
    <2> QED  BY <1>1, <2>1, <2>2, <2>3 DEF CrashInv, CrashesAreKnown
  <1>4. ASSUME NEW c \in Calls, Dispatch(c), crashed' # crashed
        PROVE  CrashInv'
    <2>1. pc[c] = "done" /\ crashed' = "inputs" /\ ~Refused(c) /\ NoInput(c)
      BY <1>4 DEF Dispatch
    <2> QED  BY <1>1, <2>1, NothingToSend DEF CrashInv, CrashesAreKnown, ClientStreaming
  <1> QED
    BY <1>2, <1>3, <1>4 DEF RequestsNext, requestVars, GetData, GetStreamMessage

\* The process ends only where compression meets shared or missing metadata, or a
\* message provider hides that there is no data.
THEOREM CrashesCorrect == RequestsSpec => []CrashesAreKnown
  <1>1. RequestsInit => CrashInv
    BY RequestsAssumption
    DEF RequestsInit, Meta!MdInit, RequestsAssumption, CrashInv, CrashesAreKnown
  <1>2. RequestsInit => DataInv
    BY DataInit DEF RequestsInit
  <1>3. DataInv /\ [RequestsNext]_requestVars => DataInv'
    <2>1. [RequestsNext]_requestVars => [Next]_vars
      BY DEF RequestsNext, requestVars, TakeMetadata, GetData, Dispatch, MakeCall,
             GetStreamMessage, Next
    <2> QED  BY <2>1, DataStep
  <1>4. MetaInv /\ [RequestsNext]_requestVars => MetaInv'
    BY MetaNext
  <1>5. CrashInv /\ DataInv /\ MetaInv /\ [RequestsNext]_requestVars => CrashInv'
    BY CrashStep
  <1>6. CrashInv => CrashesAreKnown
    BY DEF CrashInv
  <1> QED
    BY MetaInit, <1>1, <1>2, <1>3, <1>4, <1>5, <1>6, PTL DEF RequestsSpec

-----------------------------------------------------------------------------
(* The messages of a stream *)

\* A remainder is that of one quotient.
LEMMA RemainderUnique ==
    ASSUME NEW n \in Nat \ {0}, NEW p \in Int, NEW q \in Int,
           NEW r \in 0..n - 1, NEW s \in 0..n - 1, n * p + r = n * q + s
    PROVE  r = s
  <1>1. ASSUME NEW a \in Int, NEW b \in Int, a < b
        PROVE  n * a + n <= n * b
    <2>1. \E d \in Nat : b = a + 1 + d
      <3>1. b - a - 1 \in Nat /\ b = a + 1 + (b - a - 1)
        BY <1>1
      <3> QED  BY <3>1
    <2>2. PICK d \in Nat : b = a + 1 + d
      BY <2>1
    <2>3. n * b = n * a + n + n * d
      BY <2>2
    <2>4. n * d \in Nat /\ n * a \in Int
      OBVIOUS
    <2> QED  BY <2>3, <2>4
  <1>2. n * p \in Int /\ n * q \in Int
    OBVIOUS
  <1>3. ~(p < q)
    BY <1>1, <1>2
  <1>4. ~(q < p)
    BY <1>1, <1>2
  <1>5. p = q
    BY <1>3, <1>4
  <1> QED  BY <1>2, <1>5

\* The number after m, modulo n.
LEMMA ModSucc ==
    ASSUME NEW m \in Nat, NEW n \in Nat \ {0}
    PROVE  (m + 1) % n = IF (m % n) + 1 = n THEN 0 ELSE (m % n) + 1
  <1> DEFINE q == m \div n
             r == m % n
             Q == (m + 1) \div n
             R == (m + 1) % n
  <1>1. q \in Int /\ r \in 0..n - 1 /\ m = n * q + r
    OBVIOUS
  <1>2. Q \in Int /\ R \in 0..n - 1 /\ m + 1 = n * Q + R
    OBVIOUS
  <1> HIDE DEF q, r, Q, R
  <1>3. CASE r + 1 = n
    <2>1. n * (q + 1) = n * q + n
      BY <1>1
    <2>2. n * Q + R = n * (q + 1) + 0 /\ n * q \in Int
      BY <1>1, <1>2, <1>3, <2>1
    <2>3. R = 0
      BY <1>1, <1>2, <2>2, RemainderUnique
    <2> QED  BY <1>3, <2>3 DEF r, R
  <1>4. CASE r + 1 # n
    <2>1. r + 1 \in 0..n - 1
      BY <1>1, <1>4
    <2>2. n * Q + R = n * q + (r + 1) /\ n * q \in Int
      BY <1>1, <1>2
    <2>3. R = r + 1
      BY <1>1, <1>2, <2>1, <2>2, RemainderUnique
    <2> QED  BY <1>4, <2>3 DEF r, R
  <1> QED  BY <1>3, <1>4

LEMMA ModSmall ==
    ASSUME NEW m \in Nat, NEW n \in Nat, m < n
    PROVE  m % n = m
  OBVIOUS

\* What the provider is made of, and that it is made for client streams only.
ProviderInv ==
    /\ setup \in Setups /\ setup.shape = shape
    /\ kind \in {"none", "static", "dynamic"}
    /\ kind # "none" => ClientStreaming
    /\ kind = "static" => items = Items
    /\ kind = "dynamic" => items = IF shape = "single" THEN <<>> ELSE Items
    /\ kind = "none" => items = <<>>
    /\ streamCallCount \in Nat

\* Where the provider is in its data.  A static provider goes round, and the first
\* message of a round is taken when its index is still at the end of the last one.
IndexInv ==
    /\ counter \in Nat /\ indexCounter \in Nat
    /\ given \in Seq(Int) /\ Len(given) = counter
    /\ counter = 0 => indexCounter = 0
    /\ kind = "none" => counter = 0 /\ last = "none"
    /\ kind = "static" /\ counter > 0 =>
          indexCounter = ((counter - 1) % Len(Items)) + 1 /\ Len(Items) > 0
    /\ kind = "dynamic" /\ counter < Len(items) => indexCounter = counter
    /\ kind = "static" /\ streamCallCount = 0 => counter <= Len(Items)

\* What the last answer says of the limit.
LastInv ==
    /\ last \in {"none", "message", "last", "end", "panic"}
    /\ last \in {"last", "end"} => counter >= Stream!Limit
    /\ last = "message" => counter < Stream!Limit

TurnInv == ProviderInv /\ IndexInv /\ InTurn /\ LastInv

LEMMA TurnInit == RequestsInit => TurnInv
  <1> SUFFICES ASSUME RequestsInit
               PROVE  TurnInv
    OBVIOUS
  <1>1. /\ kind = "none" /\ items = <<>> /\ counter = 0 /\ indexCounter = 0
        /\ given = <<>> /\ last = "none" /\ streamCallCount \in 0..MaxCount
        /\ setup \in Setups /\ shape = setup.shape /\ MaxCount \in Nat
    BY RequestsAssumption DEF RequestsInit, Stream!Init, RequestsAssumption
  <1>2. ProviderInv /\ IndexInv /\ LastInv
    BY <1>1 DEF ProviderInv, IndexInv, LastInv
  <1>3. InTurn
    BY <1>1 DEF InTurn
  <1> QED  BY <1>2, <1>3 DEF TurnInv

\* The data of a client stream, which its calls get whole.
LEMMA StreamData ==
    ASSUME ProviderInv, ClientStreaming, DataInv
    PROVE  /\ shape \in {"stream", "single", "empty"}
           /\ Items \in Seq(Int) /\ Len(Items) \in Nat
           /\ \A k \in 1..Len(Items) : Items[k] = k - 1
           /\ shape = "single" => Items = <<0>>
           /\ \A c \in Calls : pc[c] = "done" => result[c] = Items
  <1>1. shape \in {"stream", "single", "empty"}
    BY RequestsAssumption DEF ProviderInv, ClientStreaming, RequestsAssumption
  <1>2. /\ Items \in Seq(Int) /\ Len(Items) = NItems /\ NItems \in Nat
        /\ \A k \in 1..NItems : Items[k] = k - 1
    BY ItemsSeq DEF DataInv
  <1>3. shape = "single" => NItems = 1
    BY DEF NItems
  <1>4. shape = "single" => Items = <<0>>
    BY <1>3 DEF Items
  <1>5. ASSUME NEW c \in Calls, pc[c] = "done"
        PROVE  result[c] = Items
    <2>1. result[c] = IF shape \in {"stream", "empty"} THEN Items ELSE <<Number[c] % NItems>>
      BY <1>5 DEF DataInv, CallOK
    <2>2. Number[c] % 1 = 0
      BY DataProviderAssumption DEF DataProviderAssumption
    <2> QED  BY <1>1, <1>3, <1>4, <2>1, <2>2
  <1> QED  BY <1>1, <1>2, <1>4, <1>5

\* A message is the one whose turn it is.
LEMMA PayloadInTurn ==
    ASSUME TurnInv, DataInv, Stream!Get
    PROVE  /\ Stream!Payload = IF kind = "static" THEN Items[(counter % Len(Items)) + 1]
                               ELSE IF shape # "single" /\ counter + 1 <= Len(Items)
                               THEN Items[counter + 1] ELSE 0
           /\ Stream!Payload \in Int
           /\ kind = "static" => /\ Len(Items) > 0
                                 /\ Stream!ItemIndex = counter % Len(Items)
           /\ kind = "dynamic" /\ counter < Len(items) => Stream!ItemIndex = counter
           /\ Stream!ItemIndex \in Nat
  <1>1. /\ kind \in {"static", "dynamic"} /\ Stream!InRange /\ counter < Stream!Limit
        /\ ClientStreaming /\ counter \in Nat /\ indexCounter \in Nat
        /\ streamCallCount \in Nat
    BY DEF Stream!Get, Stream!Asked, TurnInv, ProviderInv, IndexInv
  <1>2. /\ shape \in {"stream", "single", "empty"}
        /\ Items \in Seq(Int) /\ Len(Items) \in Nat /\ DOMAIN Items = 1..Len(Items)
        /\ \A k \in 1..Len(Items) : Items[k] = k - 1
    BY <1>1, StreamData DEF TurnInv
  <1>3. CASE kind = "static"
    <2>1. items = Items /\ ~Stream!Whole /\ Stream!ItemIndex = Stream!StaticIndex
      BY <1>3 DEF TurnInv, ProviderInv, Stream!Whole, Stream!ItemIndex
    <2>2. Stream!StaticIndex + 1 \in 1..Len(Items)
      BY <1>1, <1>2, <2>1 DEF Stream!InRange
    <2>3. Stream!StaticIndex = IF streamCallCount > 0 /\ indexCounter = Len(Items) THEN 0
                               ELSE indexCounter
      BY <2>1 DEF Stream!StaticIndex, Stream!len
    <2>4. Len(Items) \in Nat \ {0}
      BY <1>2, <2>2
    <2>5. Stream!StaticIndex = counter % Len(Items)
      <3>1. CASE counter = 0
        <4>1. indexCounter = 0
          BY <3>1 DEF TurnInv, IndexInv
        <4>2. 0 % Len(Items) = 0
          BY <2>4
        <4> QED  BY <2>3, <2>4, <3>1, <4>1, <4>2
      <3>2. CASE counter # 0
        <4>1. counter - 1 \in Nat /\ (counter - 1) + 1 = counter
          BY <1>1, <3>2
        <4>2. indexCounter = ((counter - 1) % Len(Items)) + 1
          BY <1>1, <1>3, <3>2 DEF TurnInv, IndexInv
        <4>3. counter % Len(Items) = IF indexCounter = Len(Items) THEN 0 ELSE indexCounter
          BY <2>4, <4>1, <4>2, ModSucc
        <4>4. CASE streamCallCount > 0
          BY <2>3, <4>3, <4>4
        <4>5. CASE ~(streamCallCount > 0)
          <5>1. Stream!StaticIndex = indexCounter
            BY <2>3, <4>5
          <5>2. indexCounter # Len(Items)
            <6>1. indexCounter + 1 \in 1..Len(Items)
              BY <2>2, <5>1
            <6>2. indexCounter \in Nat /\ Len(Items) \in Nat
              BY <1>1, <1>2
            <6> QED  BY <6>1, <6>2
          <5> QED  BY <4>3, <5>1, <5>2
        <4> QED  BY <4>4, <4>5
      <3> QED  BY <3>1, <3>2
    <2>6. Stream!Payload = Items[Stream!StaticIndex + 1]
      BY <2>1 DEF Stream!Payload
    <2>7. Stream!StaticIndex \in Nat
      BY <2>4, <2>5, <1>1, ModRange
    <2> QED  BY <1>2, <1>3, <2>1, <2>2, <2>4, <2>5, <2>6, <2>7
  <1>4. CASE kind = "dynamic"
    <2>1. items = IF shape = "single" THEN <<>> ELSE Items
      BY <1>4 DEF TurnInv, ProviderInv
    <2>2. Stream!ItemIndex = IF counter >= Len(items) THEN 0 ELSE indexCounter
      BY <1>4 DEF Stream!ItemIndex, Stream!DynamicIndex, Stream!len
    <2>3. counter < Len(items) => indexCounter = counter
      BY <1>4 DEF TurnInv, IndexInv
    <2>4. Stream!Whole <=> Len(items) = 0
      BY <1>4 DEF Stream!Whole, Stream!len
    <2>5. Stream!Payload = IF Len(items) = 0 THEN 0 ELSE items[Stream!ItemIndex + 1]
      BY <2>4 DEF Stream!Payload
    <2>6. Len(items) \in Nat
      BY <1>2, <2>1
    <2>7. Stream!ItemIndex \in Nat /\ (counter < Len(items) => Stream!ItemIndex = counter)
      BY <1>1, <2>2, <2>3, <2>6
    <2>8. CASE Len(items) = 0
      <3>1. shape = "single" \/ Len(Items) = 0
        BY <2>1, <2>8
      <3> QED  BY <1>1, <1>2, <1>4, <2>5, <2>7, <2>8, <3>1
    <2>9. CASE Len(items) # 0
      <3>1. items = Items /\ shape # "single" /\ Len(Items) > 0
        BY <1>2, <2>1, <2>6, <2>9
      <3>2. CASE counter < Len(Items)
        BY <1>1, <1>2, <1>4, <2>5, <2>7, <2>9, <3>1, <3>2
      <3>3. CASE ~(counter < Len(Items))
        <4>1. Stream!ItemIndex = 0
          BY <1>1, <1>2, <2>2, <3>1, <3>3
        <4>2. Items[1] = 0
          BY <1>2, <3>1
        <4> QED  BY <1>1, <1>2, <1>4, <2>5, <2>7, <2>9, <3>1, <3>3, <4>1, <4>2
      <3> QED  BY <3>2, <3>3
    <2> QED  BY <2>8, <2>9
  <1> QED  BY <1>1, <1>3, <1>4

LEMMA LimitNat ==
    ASSUME TurnInv, DataInv
    PROVE  Stream!Limit \in Nat /\ Len(items) \in Nat
  <1>1. items = <<>> \/ items \in Seq(Int)
    BY StreamData DEF TurnInv, ProviderInv
  <1> QED  BY <1>1 DEF Stream!Limit, Stream!len, TurnInv, ProviderInv

LEMMA GetStep ==
    ASSUME TurnInv, DataInv, Stream!Get, UNCHANGED <<setup, shape, hasActions>>
    PROVE  TurnInv'
  <1>1. /\ given' = Append(given, Stream!Payload) /\ counter' = counter + 1
        /\ indexCounter' = Stream!ItemIndex + 1
        /\ last' = IF counter = Stream!Limit - 1 THEN "last" ELSE "message"
        /\ UNCHANGED <<kind, items, streamCallCount>>
        /\ counter < Stream!Limit /\ kind # "none"
    BY DEF Stream!Get, Stream!provider, Stream!Asked
  <1>2. /\ Items' = Items /\ Stream!Limit' = Stream!Limit
        /\ ClientStreaming' = ClientStreaming
    BY <1>1 DEF Items, NItems, Stream!Limit, Stream!len, ClientStreaming
  <1>3. ProviderInv'
    BY <1>1, <1>2 DEF TurnInv, ProviderInv
  <1>4. /\ counter \in Nat /\ given \in Seq(Int) /\ Len(given) = counter
        /\ Stream!Payload \in Int /\ Stream!ItemIndex \in Nat
        /\ Len(Items) \in Nat /\ ClientStreaming
    BY <1>1, PayloadInTurn, StreamData DEF TurnInv, ProviderInv, IndexInv
  <1>5. /\ given' \in Seq(Int) /\ Len(given') = counter + 1
        /\ \A k \in 1..counter : given'[k] = given[k]
        /\ given'[counter + 1] = Stream!Payload
    BY <1>1, <1>4, AppendProperties
  <1>6. IndexInv'
    <2>1. kind = "static" => indexCounter' = ((counter' - 1) % Len(Items)) + 1 /\ Len(Items) > 0
      BY <1>1, <1>4, PayloadInTurn
    <2>2. kind = "dynamic" /\ counter' < Len(items) => indexCounter' = counter'
      <3>1. Len(items) \in Nat
        BY LimitNat
      <3> QED  BY <1>1, <1>4, <3>1, PayloadInTurn
    <2>3. kind = "static" /\ streamCallCount = 0 => counter' <= Len(Items)
      <3>1. ASSUME kind = "static", streamCallCount = 0
            PROVE  Stream!Limit = Len(Items)
        BY <3>1 DEF Stream!Limit, Stream!len, TurnInv, ProviderInv
      <3> QED  BY <1>1, <1>4, <3>1
    <2> QED  BY <1>1, <1>2, <1>4, <1>5, <2>1, <2>2, <2>3 DEF IndexInv
  <1>7. InTurn'
    <2> DEFINE Turn(k) == IF kind = "static" THEN Items[((k - 1) % Len(Items)) + 1]
                          ELSE IF shape # "single" /\ k <= Len(Items) THEN Items[k] ELSE 0
    <2>1. \A k \in 1..counter : given[k] = Turn(k)
      BY <1>4 DEF TurnInv, InTurn
    <2>2. given'[counter + 1] = Turn(counter + 1)
      <3>1. (counter + 1) - 1 = counter
        BY <1>4
      <3> QED  BY <1>5, <3>1, PayloadInTurn
    <2>3. \A k \in 1..counter + 1 : k \in 1..counter \/ k = counter + 1
      BY <1>4
    <2>4. \A k \in 1..counter + 1 : given'[k] = Turn(k)
      BY <1>5, <2>1, <2>2, <2>3
    <2>5. DOMAIN given' = 1..counter + 1
      BY <1>5
    <2> QED  BY <1>1, <1>2, <2>4, <2>5 DEF InTurn
  <1>8. LastInv'
    BY <1>1, <1>2, <1>4, LimitNat DEF LastInv
  <1> QED  BY <1>3, <1>6, <1>7, <1>8 DEF TurnInv

LEMMA TurnStep ==
    ASSUME TurnInv, DataInv, [RequestsNext]_requestVars
    PROVE  /\ TurnInv'
           /\ \/ UNCHANGED <<given, last>>
              \/ /\ last \in {"last", "end"} => last' = "end"
                 /\ last = "message" => last' # "end"
  <1>1. UNCHANGED <<setup, shape, hasActions>>
    BY DEF RequestsNext, requestVars, TakeMetadata, GetData, Dispatch, MakeCall,
           GetStreamMessage, vars, data, Look, Create, Fill, Pick
  <1>2. Items' = Items /\ ClientStreaming' = ClientStreaming
    BY <1>1 DEF Items, NItems, ClientStreaming
  <1>3. CASE UNCHANGED stream
    <2>1. TurnInv'
      BY <1>1, <1>2, <1>3 DEF stream, TurnInv, ProviderInv, IndexInv, InTurn, LastInv,
                              Stream!Limit, Stream!len
    <2> QED  BY <1>3, <2>1 DEF stream
  <1>4. ASSUME NEW c \in Calls, pc[c] = "done", NewMessageProvider(c)
        PROVE  TurnInv' /\ UNCHANGED <<given, last>>
    <2>1. /\ kind = "none" /\ kind' \in {"static", "dynamic"}
          /\ Provider = kind' /\ counter = 0 /\ given = <<>> /\ last = "none"
          /\ items' = IF kind' = "static" THEN result[c]
                      ELSE IF shape = "single" THEN <<>> ELSE Items
          /\ UNCHANGED <<streamCallCount, counter, indexCounter, given, last>>
      <3>1. kind = "none" => counter = 0 /\ last = "none" /\ Len(given) = counter
                             /\ given \in Seq(Int)
        BY DEF TurnInv, IndexInv
      <3>2. kind = "none" => given = <<>>
        BY <3>1
      <3> QED  BY <1>4, <3>1, <3>2 DEF NewMessageProvider, Stream!New
    <2>2. ClientStreaming
      BY <2>1 DEF Provider
    <2>3. result[c] = Items /\ Len(Items) \in Nat
      BY <1>4, <2>2, StreamData DEF TurnInv
    <2>4. ProviderInv'
      BY <1>1, <1>2, <2>1, <2>2, <2>3 DEF TurnInv, ProviderInv
    <2>5. IndexInv'
      BY <1>2, <2>1, <2>3 DEF TurnInv, IndexInv
    <2>6. InTurn' /\ LastInv'
      BY <2>1 DEF InTurn, LastInv
    <2> QED  BY <2>1, <2>4, <2>5, <2>6 DEF TurnInv
  <1>5. CASE GetStreamMessage
    <2>1. CASE Stream!Get
      <3>1. counter < Stream!Limit /\ last' \in {"last", "message"} /\ counter \in Nat
        BY <2>1 DEF Stream!Get, TurnInv, IndexInv
      <3>2. last \notin {"last", "end"}
        BY <3>1, LimitNat DEF TurnInv, LastInv
      <3> QED  BY <1>1, <2>1, <3>1, <3>2, GetStep
    <2>2. CASE Stream!EndStream
      <3>1. /\ counter >= Stream!Limit /\ last' = "end" /\ kind # "none"
            /\ UNCHANGED <<kind, items, streamCallCount, counter, indexCounter, given>>
        BY <2>2 DEF Stream!EndStream, Stream!provider, Stream!Asked
      <3>2. last # "message"
        BY <3>1, LimitNat DEF TurnInv, LastInv, IndexInv
      <3>3. TurnInv'
        BY <1>1, <1>2, <3>1 DEF TurnInv, ProviderInv, IndexInv, InTurn, LastInv, Stream!Limit,
                                Stream!len
      <3> QED  BY <3>1, <3>2, <3>3
    <2>3. CASE Stream!GetNothing
      <3>1. /\ counter < Stream!Limit /\ last' = "panic" /\ kind # "none"
            /\ UNCHANGED <<kind, items, streamCallCount, counter, indexCounter, given>>
        BY <2>3 DEF Stream!GetNothing, Stream!provider, Stream!Asked
      <3>2. last \notin {"last", "end"}
        BY <3>1, LimitNat DEF TurnInv, LastInv, IndexInv
      <3>3. TurnInv'
        BY <1>1, <1>2, <3>1 DEF TurnInv, ProviderInv, IndexInv, InTurn, LastInv, Stream!Limit,
                                Stream!len
      <3> QED  BY <3>1, <3>2, <3>3
    <2> QED  BY <1>5, <2>1, <2>2, <2>3 DEF GetStreamMessage, Stream!GetStreamMessage
  <1> QED
    BY <1>3, <1>4, <1>5 DEF RequestsNext, requestVars, TakeMetadata, GetData, Dispatch, MakeCall

\* A stream is given its items in turn, again from the first when its count asks for
\* more, and ends after the message that was announced as the last.
THEOREM StreamTurnCorrect == RequestsSpec => StreamTakesInTurn
  <1>1. RequestsInit => DataInv
    BY DataInit DEF RequestsInit
  <1>2. DataInv /\ [RequestsNext]_requestVars => DataInv'
    <2>1. [RequestsNext]_requestVars => [Next]_vars
      BY DEF RequestsNext, requestVars, TakeMetadata, GetData, Dispatch, MakeCall,
             GetStreamMessage, Next
    <2> QED  BY <2>1, DataStep
  <1>3. TurnInv /\ DataInv /\ [RequestsNext]_requestVars => TurnInv'
    BY TurnStep
  <1>4. TurnInv /\ DataInv /\ [RequestsNext]_requestVars
        => [/\ InTurn'
            /\ last \in {"last", "end"} => last' = "end"
            /\ last = "message" => last' # "end"]_<<given, last>>
    BY TurnStep, <1>3 DEF TurnInv
  <1> QED
    BY TurnInit, <1>1, <1>2, <1>3, <1>4, PTL
    DEF RequestsSpec, StreamTakesInTurn

=============================================================================
