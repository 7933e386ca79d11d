---------------------------- MODULE RunSetup_proofs ----------------------------
(***************************************************************************)
(* Proofs about the way from options to a running worker ticker, for all   *)
(* options and all tickers: what NewConfig's checks guarantee to the       *)
(* ticker, and what the ticker goroutine does with it.                     *)
(***************************************************************************)
EXTENDS RunSetup, SequenceTheorems, WellFoundedInduction, TLAPS

-----------------------------------------------------------------------------
(* From settings to a ticker *)

\* A duration counted in steps, the last one maybe not whole, is a number of steps.
LEMMA StepsOfDuration ==
    ASSUME NEW d \in Int, NEW l \in Int
    PROVE  StepsOf(d, l) \in Int
  <1>1. CASE d > 0 /\ l > 0
    <2>1. -d \in Int /\ l \in Nat \ {0}
      BY <1>1
    <2>2. (-d) \div l \in Int
      BY <2>1
    <2> QED  BY <1>1, <2>2 DEF StepsOf
  <1>2. CASE ~(d > 0 /\ l > 0)
    BY <1>2 DEF StepsOf
  <1> QED  BY <1>1, <1>2

\* The checks of a concurrency schedule concern the configuration: the options
\* leave a schedule that is given as it is, but for the step of a line.
LEMMA ConcOfConfig ==
    ASSUME NEW s \in Settings
    PROVE  LET given == WithDuration(Configured(s)).conc
           IN  /\ given \in [schedule: {"none", "const", "step", "line", "other"}, start: Nat,
                             end: Nat, step: Int, stepDuration: Int, duration: Int]
               /\ NewConfig(s).conc = LineSteps(given)
               /\ NewConfig(s).c = s.c
  <1>1. /\ FromConfig(s) \in Settings /\ FromConfig(s).conc = s.conc
        /\ FromConfig(s).c = s.c
    BY DEF FromConfig, Settings
  <1>2. s.conc \in ScheduleSettings
    BY DEF Settings
  <1> DEFINE conf == Configured(s)
             dur == WithDuration(conf)
  <1>3. /\ conf.conc = [s.conc EXCEPT !.schedule = WithSchedule(@, "none")]
        /\ conf.c = s.c
        /\ dur.conc = conf.conc /\ dur.c = conf.c
    BY <1>1 DEF Configured, Settings, WithDuration
  <1>4. NewConfig(s).conc = LineSteps(dur.conc) /\ NewConfig(s).c = dur.c
    BY <1>1 DEF NewConfig, Configured, Settings, WithDuration
  <1>5. dur.conc \in [schedule: {"none", "const", "step", "line", "other"}, start: Nat,
                      end: Nat, step: Int, stepDuration: Int, duration: Int]
    BY <1>2, <1>3 DEF ScheduleSettings, WithSchedule
  <1> QED  BY <1>3, <1>4, <1>5

\* Whatever settings NewConfig accepts, createWorkerTicker makes a ticker that
\* WorkerTicker assumes, with a step that is not zero.  A step or line ticker has a
\* way to go, and steps whose length is not zero; those of a line have a positive
\* length.  (The checks let a step ticker with steps of negative length pass, which
\* panics when it starts.)
THEOREM AcceptedTicker ==
    ASSUME NEW s \in Settings, Accepts(s)
    PROVE  LET t == WorkerTickerOf(NewConfig(s))
           IN  /\ t \in Tickers
               /\ t.kind # "const" => t.start # t.stop /\ t.stepDuration # 0
               /\ t.kind = "line" => t.stepDuration > 0
  <1> DEFINE given == WithDuration(Configured(s)).conc
             k == NewConfig(s).conc
             t == WorkerTickerOf(NewConfig(s))
  <1>1. /\ given \in [schedule: {"none", "const", "step", "line", "other"}, start: Nat,
                       end: Nat, step: Int, stepDuration: Int, duration: Int]
        /\ k = LineSteps(given) /\ NewConfig(s).c \in Nat
    BY ConcOfConfig DEF Settings
  <1>2. ScheduleOK(given)
    BY DEF Accepts, Accepted
  <1>3. CASE k.schedule \in {"step", "line"}
    <2>1. /\ k.start \in Nat /\ k.end \in Nat /\ k.step \in Int \ {0} /\ k.duration \in Int
          /\ k.stepDuration \in Int \ {0} /\ k.start # k.end
          /\ k.schedule = "line" => k.stepDuration > 0
      BY <1>1, <1>2, <1>3, RunConfigAssumption DEF LineSteps, ScheduleOK, RunConfigAssumption
    <2>2. StepsOf(k.duration, k.stepDuration) \in Int
      BY <2>1, StepsOfDuration
    <2>3. t = [kind |-> k.schedule, start |-> k.start, step |-> k.step,
               stepDuration |-> k.stepDuration, stop |-> k.end,
               max |-> StepsOf(k.duration, k.stepDuration)]
      BY <1>3 DEF WorkerTickerOf
    <2> HIDE DEF k, t
    <2> QED  BY <1>3, <2>1, <2>2, <2>3 DEF Tickers, t
  <1>4. CASE k.schedule \notin {"step", "line"}
    BY <1>1, <1>4 DEF WorkerTickerOf, Tickers
  <1> QED  BY <1>3, <1>4

-----------------------------------------------------------------------------
(* Induction *)

LessThan == {ss \in Nat \X Nat : ss[1] < ss[2]}

\* A set of numbers that is not empty has a least one.
LEMMA LeastNumber ==
    ASSUME NEW T \in SUBSET Nat, T # {}
    PROVE  \E x \in T : \A y \in T : x <= y
  <1>1. IsWellFoundedOn(LessThan, Nat)
    BY NatLessThanWellFounded DEF OpToRel, LessThan
  <1>2. PICK x \in T : \A y \in T : <<y, x>> \notin LessThan
    BY <1>1, WFMin
  <1>3. ASSUME NEW y \in T  PROVE x <= y
    <2>1. <<y, x>> \notin LessThan
      BY <1>2
    <2>2. x \in Nat /\ y \in Nat
      OBVIOUS
    <2>3. ~ (y < x)
      BY <2>1, <2>2 DEF LessThan
    <2> QED  BY <2>2, <2>3
  <1> QED  BY <1>3

\* A set of numbers that has 0 and every next one has them all.
LEMMA InductionOnSet ==
    ASSUME NEW S, 0 \in S, \A n \in Nat : n \in S => n + 1 \in S
    PROVE  Nat \subseteq S
  <1> DEFINE T == {n \in Nat : n \notin S}
  <1>1. SUFFICES ASSUME T # {}  PROVE FALSE
    OBVIOUS
  <1>2. PICK x \in T : \A y \in T : x <= y
    <2>1. T \in SUBSET Nat
      OBVIOUS
    <2> HIDE DEF T
    <2> QED  BY <1>1, <2>1, LeastNumber
  <1>3. x \in Nat /\ x # 0 /\ x \notin S
    OBVIOUS
  <1>4. x - 1 \in Nat /\ x - 1 \in S
    BY <1>2, <1>3
  <1> QED  BY <1>3, <1>4

-----------------------------------------------------------------------------
(* From options to a configuration *)

ScheduleFields == {"schedule", "start", "end", "step", "stepDuration", "duration"}

\* A concurrency schedule as the options leave it.
ConcOK(k) ==
    /\ ScheduleFields \subseteq DOMAIN k
    /\ k.start \in Nat /\ k.end \in Nat /\ k.step \in Int
    /\ k.stepDuration \in Int /\ k.duration \in Int

\* A configuration as the options leave it.
ConfigOK(c) ==
    /\ {"n", "z", "c", "nConns", "zstop", "dataSamplingRate", "maxResults", "conc", "load",
        "call", "host"} \subseteq DOMAIN c
    /\ c.c \in Nat
    /\ c.nConns \in Int /\ c.nConns > 0
    /\ c.zstop \in {"close", "wait", "ignore"}
    /\ c.dataSamplingRate \in 0..100
    /\ c.maxResults \in Int /\ c.maxResults > 0
    /\ ConcOK(c.conc)

LEMMA DefaultsOK == ConfigOK(Defaults)
  <1>1. ConcOK(NoSchedule)
    BY DEF ConcOK, ScheduleFields, NoSchedule
  <1>2. /\ Defaults.c = 50 /\ Defaults.nConns = 1 /\ Defaults.zstop = "close"
        /\ Defaults.dataSamplingRate = 0 /\ Defaults.maxResults = 100000000
        /\ Defaults.conc = NoSchedule
    BY DEF Defaults
  <1>3. {"n", "z", "c", "nConns", "zstop", "dataSamplingRate", "maxResults", "conc", "load",
         "call", "host"} \subseteq DOMAIN Defaults
    BY DEF Defaults
  <1> QED  BY <1>1, <1>2, <1>3 DEF ConfigOK

\* What a field that ConfigOK is about may be set to.
FieldOK(field, v) ==
    /\ field = "c" => v \in Nat
    /\ field \in {"nConns", "maxResults"} => v \in Int /\ v > 0
    /\ field = "dataSamplingRate" => v \in 0..100
    /\ field = "zstop" => v \in {"close", "wait", "ignore"}
    /\ field = "conc" => ConcOK(v)

LEMMA StoreOK ==
    ASSUME NEW c, ConfigOK(c), NEW field, NEW v, FieldOK(field, v)
    PROVE  ConfigOK(Store(c, field, v))
  BY DEF ConfigOK, FieldOK, Store

\* The names of the options that are not stored as they are.
LEMMA OtherNames ==
    /\ DOMAIN StoredIfGiven = {"WithCPUs", "WithSkipFirst", "WithMaxResults", "WithConnections"}
    /\ DOMAIN LoadOptions = {"WithLoadStart", "WithLoadEnd", "WithLoadStep",
                             "WithLoadStepDuration", "WithLoadDuration"}
    /\ DOMAIN ConcurrencyOptions =
           {"WithConcurrencyStart", "WithConcurrencyEnd", "WithConcurrencyStep",
            "WithConcurrencyStepDuration", "WithConcurrencyDuration"}
  BY DEF StoredIfGiven, LoadOptions, ConcurrencyOptions

\* The options that are not simply stored.
Special ==
    DOMAIN StoredIfGiven \cup DOMAIN LoadOptions \cup DOMAIN ConcurrencyOptions
    \cup JSONDataOptions \cup BinaryDataOptions
    \cup {"WithName", "WithLoadSchedule", "WithConcurrencySchedule", "WithBinaryDataFunc",
          "WithDurationStopAction", "WithProtoFile"}

\* The fields that the special options write to.
OtherFields ==
    {"cpus", "skipFirst", "maxResults", "nConns", "name", "load", "conc", "data", "binary",
     "dataFunc", "zstop", "proto", "importPaths"}

\* The options that store their value as it is have fields of their own; "c" and
\* "dataSamplingRate" have one option each.
LEMMA StoredFields ==
    ASSUME NEW name \in DOMAIN Stored
    PROVE  /\ name \notin Special
           /\ Stored[name] \notin OtherFields
           /\ Stored[name] = "c" => name = "WithConcurrency"
           /\ Stored[name] = "dataSamplingRate" => name = "WithDataSamplingRate"
  <1> DEFINE Right(table) ==
                 \A x \in DOMAIN table :
                     /\ x \notin Special
                     /\ table[x] \notin OtherFields
                     /\ table[x] = "c" => x = "WithConcurrency"
                     /\ table[x] = "dataSamplingRate" => x = "WithDataSamplingRate"
  <1>1. Right(SecurityOptions) /\ Right(CountOptions) /\ Right(TimeoutOptions)
    BY OtherNames DEF Special, OtherFields, JSONDataOptions, BinaryDataOptions,
        SecurityOptions, CountOptions, TimeoutOptions
  <1>2. Right(TransportOptions) /\ Right(ReportOptions) /\ Right(SourceOptions)
    BY OtherNames DEF Special, OtherFields, JSONDataOptions, BinaryDataOptions,
        TransportOptions, ReportOptions, SourceOptions
  <1>3. Right(StreamOptions) /\ Right(ClientOptions) /\ Right(CallOptions)
    BY OtherNames DEF Special, OtherFields, JSONDataOptions, BinaryDataOptions,
        StreamOptions, ClientOptions, CallOptions
  <1>4. Right(CustomOptions) /\ Right(MetadataOptions)
    BY OtherNames DEF Special, OtherFields, JSONDataOptions, BinaryDataOptions,
        CustomOptions, MetadataOptions
  <1> HIDE DEF Right
  <1>5. \A table \in Tables : Right(table)
    BY <1>1, <1>2, <1>3, <1>4 DEF Tables
  <1>6. name \in UNION {DOMAIN table : table \in Tables}
    BY DEF Stored
  <1>7. PICK table \in Tables :
            name \in DOMAIN table /\ Stored[name] = table[name]
    <2>1. \E table \in Tables : name \in DOMAIN table
      BY <1>6
    <2> QED  BY <1>6, <2>1 DEF Stored
  <1> QED  BY <1>5, <1>7 DEF Right

\* One option leaves a configuration as it should be.
LEMMA ApplyOK ==
    ASSUME NEW c, ConfigOK(c), NEW o, Typed(o), ~Fails(o)
    PROVE  ConfigOK(Apply(c, o))
  <1> DEFINE name == o[1]
             v == o[2]
  <1>1. CASE name \in DOMAIN Stored
    <2>1. Apply(c, o) = Store(c, Stored[name], v)
      BY <1>1, StoredFields DEF Apply, Special
    <2>2. FieldOK(Stored[name], v)
      BY <1>1, StoredFields DEF FieldOK, OtherFields, Typed, Fails
    <2> QED  BY <2>1, <2>2, StoreOK
  <1>2. CASE name \notin DOMAIN Stored /\ name \in DOMAIN StoredIfGiven
    <2>1. Apply(c, o) = IF v > 0 THEN Store(c, StoredIfGiven[name], v) ELSE c
      BY <1>2, OtherNames DEF Apply, JSONDataOptions, BinaryDataOptions
    <2>2. ASSUME v > 0  PROVE FieldOK(StoredIfGiven[name], v)
      BY <1>2, <2>2 DEF FieldOK, Typed, StoredIfGiven
    <2> QED  BY <2>1, <2>2, StoreOK
  <1> DEFINE rest == name \notin DOMAIN Stored \cup DOMAIN StoredIfGiven
  <1>3. CASE rest /\ name \in {"WithName"} \cup DOMAIN LoadOptions \cup {"WithLoadSchedule"}
    <2>1. \/ Apply(c, o) = c
          \/ Apply(c, o) = Store(c, "name", v)
          \/ \E field, w : Apply(c, o) = SetLoad(c, field, w)
      BY <1>3, OtherNames DEF Apply, JSONDataOptions, BinaryDataOptions
    <2> QED  BY <2>1, StoreOK DEF FieldOK, SetLoad
  <1>4. CASE rest /\ name \in DOMAIN ConcurrencyOptions
    <2>1. Apply(c, o) = SetConc(c, ConcurrencyOptions[name], v)
      BY <1>4, OtherNames DEF Apply, JSONDataOptions, BinaryDataOptions
    <2>2. ConcOK([c.conc EXCEPT ![ConcurrencyOptions[name]] = v])
      <3>1. /\ ConcurrencyOptions[name] \in ScheduleFields \ {"schedule"}
            /\ ConcurrencyOptions[name] = "start" <=> name = "WithConcurrencyStart"
            /\ ConcurrencyOptions[name] = "end" <=> name = "WithConcurrencyEnd"
        BY <1>4 DEF ConcurrencyOptions, ScheduleFields
      <3>2. v \in Int /\ (name \in {"WithConcurrencyStart", "WithConcurrencyEnd"} => v \in Nat)
        BY <1>4 DEF Typed
      <3> QED  BY <3>1, <3>2 DEF ConfigOK, ConcOK, ScheduleFields
    <2> QED  BY <2>1, <2>2, StoreOK DEF FieldOK, SetConc
  <1>5. CASE rest /\ name = "WithConcurrencySchedule"
    <2>1. Apply(c, o) = SetConc(c, "schedule", WithSchedule(v, c.conc.schedule))
      BY <1>5, OtherNames DEF Apply, JSONDataOptions, BinaryDataOptions
    <2>2. ConcOK([c.conc EXCEPT !["schedule"] = WithSchedule(v, c.conc.schedule)])
      BY DEF ConfigOK, ConcOK, ScheduleFields
    <2> QED  BY <2>1, <2>2, StoreOK DEF FieldOK, SetConc
  <1>6. CASE rest /\ name \in JSONDataOptions \cup BinaryDataOptions \cup {"WithBinaryDataFunc"}
    <2>1. \/ \E bin : Apply(c, o) = SetData(c, v, bin)
          \/ Apply(c, o) = SetDataFunc(c, v)
      BY <1>6, OtherNames DEF Apply, JSONDataOptions, BinaryDataOptions
    <2> QED  BY <2>1 DEF SetData, SetDataFunc, ConfigOK
  <1>7. CASE rest /\ name = "WithDurationStopAction"
    <2>1. Apply(c, o) = SetStopAction(c, v)
      BY <1>7, OtherNames DEF Apply, JSONDataOptions, BinaryDataOptions
    <2> QED  BY <2>1 DEF SetStopAction, ConfigOK
  <1>8. CASE rest /\ name = "WithProtoFile"
    <2>1. Apply(c, o) = SetProtoFile(c, v)
      BY <1>8, OtherNames DEF Apply, JSONDataOptions, BinaryDataOptions
    <2> QED  BY <2>1 DEF SetProtoFile, ConfigOK
  <1>9. name \in OptionNames
    BY DEF Typed
  <1> QED
    BY <1>1, <1>2, <1>3, <1>4, <1>5, <1>6, <1>7, <1>8, <1>9 DEF OptionNames

\* A sequence, of whatever.
IsSequence(s) == \E S : s \in Seq(S)

LEMMA SequenceConcat ==
    ASSUME NEW s, NEW t, IsSequence(s), IsSequence(t)
    PROVE  IsSequence(s \o t)
  <1>1. PICK S, T : s \in Seq(S) /\ t \in Seq(T)
    BY DEF IsSequence
  <1>2. s \in Seq(S \cup T) /\ t \in Seq(S \cup T)
    BY <1>1, SeqMonotonic
  <1> QED  BY <1>2, ConcatProperties DEF IsSequence

\* The options of a configuration file are a sequence, whatever its fields are.
LEMMA ExpandSequence ==
    ASSUME NEW o
    PROVE  IsSequence(Expand(o))
  <1>1. ASSUME NEW x  PROVE IsSequence(<<x>>)
    <2>1. <<x>> \in Seq({x})
      OBVIOUS
    <2> QED  BY <2>1 DEF IsSequence
  <1>2. IsSequence(<<>>)
    <2>1. <<>> \in Seq({})
      OBVIOUS
    <2> QED  BY <2>1 DEF IsSequence
  <1>3. ASSUME NEW name, NEW v  PROVE IsSequence(IfGiven(name, v))
    BY <1>1, <1>2 DEF IfGiven
  <1>4. ASSUME NEW g
        PROVE  IsSequence([k \in DOMAIN ConfigFields |->
                              <<ConfigFields[k][1], g[ConfigFields[k][2]]>>])
    <2> DEFINE e(k) == <<ConfigFields[k][1], g[ConfigFields[k][2]]>>
               S == {e(k) : k \in 1..49}
    <2>1. DOMAIN ConfigFields = 1..49
      BY DEF ConfigFields
    <2>2. \A k \in 1..49 : e(k) \in S
      OBVIOUS
    <2>3. [k \in 1..49 |-> e(k)] \in Seq(S)
      <3> HIDE DEF e, S
      <3> QED  BY <2>2, IsASeq
    <2> QED  BY <2>1, <2>3 DEF IsSequence
  <1>5. ASSUME NEW f  PROVE IsSequence(DataOption(f))
    <2> DEFINE first == IF f.Data = "@" THEN << <<"WithDataFromReader", "stdin">> >>
                        ELSE IF f.DataPath # "" THEN << <<"WithDataFromFile", f.DataPath>> >>
                        ELSE << <<"WithData", f.Data>> >>
    <2>1. IsSequence(first)
      BY <1>1
    <2> HIDE DEF first
    <2>2. IsSequence(first \o IfGiven("WithBinaryData", f.BinData))
      BY <1>3, <2>1, SequenceConcat
    <2>3. IsSequence((first \o IfGiven("WithBinaryData", f.BinData))
                      \o IfGiven("WithBinaryDataFromFile", f.BinDataPath))
      BY <1>3, <2>2, SequenceConcat
    <2> QED  BY <2>3 DEF DataOption, first
  <1>6. ASSUME NEW f  PROVE IsSequence(FromConfigFields(f))
    <2> DEFINE g == FixedDurations(f)
               all == [k \in DOMAIN ConfigFields |->
                          <<ConfigFields[k][1], g[ConfigFields[k][2]]>>]
    <2>1. IsSequence(all)
      BY <1>4
    <2> HIDE DEF all
    <2>2. IsSequence(all \o IfGiven("WithDefaultCallOptions", f.MaxCallMsgSize))
      BY <1>3, <2>1, SequenceConcat
    <2>3. IsSequence((all \o IfGiven("WithDefaultCallOptions", f.MaxCallMsgSize))
                     \o IfGiven("WithMetadataFromFile", f.MetadataPath))
      BY <1>3, <2>2, SequenceConcat
    <2>4. IsSequence(((all \o IfGiven("WithDefaultCallOptions", f.MaxCallMsgSize))
                      \o IfGiven("WithMetadataFromFile", f.MetadataPath))
                     \o DataOption(f))
      BY <1>5, <2>3, SequenceConcat
    <2> QED  BY <1>2, <2>4 DEF FromConfigFields, all
  <1> QED  BY <1>1, <1>6 DEF Expand

\* The options of a configuration are applied one after the other.
LEMMA OptionSteps ==
    ASSUME NEW c, NEW o
    PROVE  \E after : /\ ApplyOption(c, o) = after[Len(Expand(o))]
                      /\ after[0] = c
                      /\ \A k \in 1..Len(Expand(o)) :
                            after[k] = Apply(after[k - 1], Expand(o)[k])
  <1> DEFINE os == Expand(o)
             Solves(f, m) == f = [k \in 0..m |-> IF k = 0 THEN c ELSE Apply(f[k - 1], os[k])]
             after == CHOOSE f : Solves(f, Len(os))
  <1>1. Len(os) \in Nat
    BY ExpandSequence, LenProperties DEF IsSequence
  <1>2. ApplyOption(c, o) = after[Len(os)]
    BY DEF ApplyOption
  <1> HIDE DEF os
  <1>3. Solves(after, Len(os))
    <2> DEFINE S == {k \in Nat : \E f : Solves(f, k)}
    <2>1. 0 \in S
      <3>1. Solves([k \in 0..0 |-> c], 0)
        OBVIOUS
      <3> QED  BY <3>1
    <2>2. ASSUME NEW m \in Nat, m \in S  PROVE m + 1 \in S
      <3>1. PICK f : Solves(f, m)
        BY <2>2
      <3> DEFINE g == [k \in 0..m + 1 |->
                          IF k = m + 1 THEN Apply(f[m], os[m + 1]) ELSE f[k]]
      <3>2. Solves(g, m + 1)
        BY <3>1
      <3> HIDE DEF g, Solves
      <3> QED  BY <3>2
    <2>3. Nat \subseteq S
      <3> HIDE DEF S
      <3> QED  BY <2>1, <2>2, InductionOnSet
    <2>4. \E f : Solves(f, Len(os))
      BY <1>1, <2>3
    <2> HIDE DEF Solves
    <2> QED  BY <2>4
  <1> HIDE DEF after
  <1>4. after[0] = c /\ \A k \in 1..Len(os) : after[k] = Apply(after[k - 1], os[k])
    BY <1>1, <1>3
  <1> QED  BY <1>2, <1>4 DEF os

\* A configuration given as an option leaves it as it should be, too.
LEMMA ApplyOptionOK ==
    ASSUME NEW c, ConfigOK(c), NEW o, ~Refuses(o),
           \A j \in DOMAIN Expand(o) : Typed(Expand(o)[j])
    PROVE  ConfigOK(ApplyOption(c, o))
  <1> DEFINE os == Expand(o)
  <1>1. Len(os) \in Nat /\ DOMAIN os = 1..Len(os)
    BY ExpandSequence, LenProperties DEF IsSequence
  <1>2. \A k \in 1..Len(os) : Typed(os[k]) /\ ~Fails(os[k])
    BY <1>1 DEF Refuses
  <1>3. PICK after : /\ ApplyOption(c, o) = after[Len(os)]
                     /\ after[0] = c
                     /\ \A k \in 1..Len(os) : after[k] = Apply(after[k - 1], os[k])
    BY OptionSteps
  <1> HIDE DEF os
  <1> DEFINE S == {k \in Nat : k <= Len(os) => ConfigOK(after[k])}
  <1>4. 0 \in S
    BY <1>3
  <1>5. ASSUME NEW k \in Nat, k \in S  PROVE k + 1 \in S
    <2>1. SUFFICES ASSUME k + 1 <= Len(os)  PROVE ConfigOK(after[k + 1])
      OBVIOUS
    <2>2. ConfigOK(after[k]) /\ k + 1 \in 1..Len(os) /\ (k + 1) - 1 = k
      BY <1>1, <1>5, <2>1
    <2>3. after[k + 1] = Apply(after[k], os[k + 1])
      BY <1>3, <2>2
    <2> QED  BY <1>2, <2>2, <2>3, ApplyOK
  <1>6. Len(os) \in S
    <2> HIDE DEF S
    <2> QED  BY <1>1, <1>4, <1>5, InductionOnSet
  <1> QED  BY <1>1, <1>3, <1>6

\* What NewConfig does after the options keeps the configuration as it should be.
LEMMA FixedUpOK ==
    ASSUME NEW c, ConfigOK(c), NEW call, NEW host
    PROVE  LET d == FixedUp(c, call, host)
           IN  ConfigOK(d) /\ (d.z > 0 => d.n = MaxInt32)
  <1> DEFINE a == Addressed(c, call, host)
  <1>1. ConfigOK(a)
    BY DEF Addressed, ConfigOK
  <1> HIDE DEF a
  <1>2. ConfigOK(WithDuration(a)) /\ (WithDuration(a).z > 0 => WithDuration(a).n = MaxInt32)
    BY <1>1 DEF WithDuration, ConfigOK
  <1> QED  BY <1>2 DEF FixedUp, a

LEMMA CheckedOK ==
    ASSUME NEW c, ConfigOK(c)
    PROVE  /\ ConfigOK(Checked(c))
           /\ Checked(c).conc = LineSteps(c.conc)
           /\ \A field \in {"n", "z", "c", "nConns", "zstop", "dataSamplingRate", "maxResults",
                           "call", "host"} : Checked(c)[field] = c[field]
  <1>1. ConcOK(LineSteps(c.conc))
    BY RunConfigAssumption DEF ConfigOK, ConcOK, ScheduleFields, LineSteps, RunConfigAssumption
  <1>2. /\ DOMAIN Checked(c) = DOMAIN c
        /\ Checked(c).conc = LineSteps(c.conc)
        /\ \A field \in {"n", "z", "c", "nConns", "zstop", "dataSamplingRate", "maxResults",
                        "call", "host"} : Checked(c)[field] = c[field]
    BY DEF ConfigOK, Checked
  <1> QED  BY <1>1, <1>2 DEF ConfigOK

\* The checks make the concurrency schedule one whose ticker has steps of a length
\* that is not zero, and those of a line have a positive length.
TickerSteps(t) ==
    /\ t \in Tickers
    /\ t.kind # "const" => t.stepDuration # 0
    /\ t.kind = "line" => t.stepDuration > 0

LEMMA TickerOK ==
    ASSUME NEW c, ConfigOK(c), Accepted(c)
    PROVE  TickerSteps(WorkerTickerOf(Checked(c)))
  <1> DEFINE k == Checked(c).conc
             t == WorkerTickerOf(Checked(c))
  <1>1. ConfigOK(Checked(c)) /\ k = LineSteps(c.conc) /\ ScheduleOK(c.conc)
    BY CheckedOK DEF Accepted
  <1>2. CASE k.schedule \in {"step", "line"}
    <2>1. /\ k.start \in Nat /\ k.end \in Nat /\ k.step \in Int \ {0} /\ k.duration \in Int
          /\ k.stepDuration \in Int \ {0}
          /\ k.schedule = "line" => k.stepDuration > 0
      BY <1>1, <1>2, RunConfigAssumption
      DEF ConfigOK, ConcOK, ScheduleFields, LineSteps, ScheduleOK, RunConfigAssumption
    <2>2. StepsOf(k.duration, k.stepDuration) \in Int
      BY <2>1, StepsOfDuration
    <2>3. t = [kind |-> k.schedule, start |-> k.start, step |-> k.step,
               stepDuration |-> k.stepDuration, stop |-> k.end,
               max |-> StepsOf(k.duration, k.stepDuration)]
      BY <1>2 DEF WorkerTickerOf
    <2> HIDE DEF k, t
    <2> QED  BY <1>2, <2>1, <2>2, <2>3 DEF Tickers, TickerSteps, t
  <1>3. CASE k.schedule \notin {"step", "line"}
    <2>1. t = [kind |-> "const", start |-> Checked(c).c, step |-> 1, stepDuration |-> 0,
               stop |-> 0, max |-> 0]
      BY <1>3 DEF WorkerTickerOf
    <2> QED  BY <1>1, <2>1 DEF Tickers, TickerSteps, ConfigOK
  <1> QED  BY <1>2, <1>3

\* The goroutine of the ticker panics when its channel is closed, when it is not
\* made yet, or when the length of its steps is negative.
PanicOK == phase = "panic" /\ ~closed => par.kind = "line" \/ par.stepDuration < 0

\* What the configuration has when NewConfig accepts it.
ConsistentConfig(c) ==
    /\ 1 <= c.nConns /\ c.nConns <= c.c
    /\ c.z > 0 => c.n = MaxInt32
    /\ c.zstop \in {"close", "wait", "ignore"}
    /\ c.dataSamplingRate \in 0..100 /\ c.maxResults > 0
    /\ c.call # "" /\ c.host # ""

\* How far NewConfig has come, and what it has made.
SetupInv ==
    /\ input \in Inputs /\ applied \in Nat
    /\ stage \in {"apply", "fixup", "accepted", "ticker", "refused"}
    /\ stage = "apply" => applied < Len(input.options)
    /\ ConfigOK(cfg)
    /\ stage \in {"accepted", "ticker"} =>
          ConsistentConfig(cfg) /\ TickerSteps(WorkerTickerOf(cfg))
    /\ par \in Tickers
    /\ stage # "ticker" => phase = "start"
    /\ stage = "ticker" => TickerSteps(par) /\ PanicOK

\* What NewConfig's checks leave a run to rely on follows.
LEMMA SetupConsistent == SetupInv => AcceptedIsConsistent
  <1> SUFFICES ASSUME SetupInv, stage \in {"accepted", "ticker"}
               PROVE  /\ ConsistentConfig(cfg)
                      /\ phase = "panic" /\ ~closed => par.kind = "line" \/ par.stepDuration < 0
    BY DEF AcceptedIsConsistent, ConsistentConfig
  <1>1. ConsistentConfig(cfg)
    BY DEF SetupInv
  <1>2. PanicOK
    BY DEF SetupInv, PanicOK
  <1> QED  BY <1>1, <1>2 DEF PanicOK

\* The arguments of NewConfig are a list of options with values of their types.
LEMMA OptionsTyped ==
    ASSUME input \in Inputs
    PROVE  /\ Len(input.options) \in Nat
           /\ input.options # <<>> => Len(input.options) > 0
           /\ \A k \in 1..Len(input.options) :
                 \A j \in DOMAIN Expand(input.options[k]) : Typed(Expand(input.options[k])[j])
  <1>1. PICK S : input.options \in Seq(S)
    BY RunSetupAssumption DEF RunSetupAssumption
  <1>2. /\ Len(input.options) \in Nat /\ DOMAIN input.options = 1..Len(input.options)
        /\ input.options # <<>> => Len(input.options) > 0
    BY <1>1, LenProperties, EmptySeq
  <1> QED  BY <1>2, RunSetupAssumption DEF RunSetupAssumption

LEMMA SetupInit1 == SetupInit => SetupInv
  <1> SUFFICES ASSUME SetupInit  PROVE SetupInv
    OBVIOUS
  <1>1. input \in Inputs /\ applied = 0 /\ cfg = Defaults /\ par \in Tickers
    BY WorkerTickerAssumption DEF SetupInit, Init, WorkerTickerAssumption
  <1>2. stage = IF input.options = <<>> THEN "fixup" ELSE "apply"
    BY DEF SetupInit
  <1>3. stage \in {"apply", "fixup"} /\ (stage = "apply" => applied < Len(input.options))
    BY <1>1, <1>2, OptionsTyped
  <1>4. phase = "start"
    BY DEF SetupInit, Init
  <1> QED  BY <1>1, <1>3, <1>4, DefaultsOK DEF SetupInv

\* The steps of the ticker's goroutine, and Finish.
LEMMA TickingStep ==
    ASSUME TickerSteps(par), PanicOK, Next
    PROVE  TickerSteps(par)' /\ PanicOK'
  <1>1. par' = par
    BY DEF Next, Start, Tick, Finish
  <1>2. ASSUME NEW delta, NEW done, NEW next \in {"loop", "finished"},
               Send(delta, done, next), closed' = closed
        PROVE  PanicOK'
    BY <1>2 DEF Send, PanicOK
  <1>3. CASE Start
    <2>1. ASSUME ~CanTick, phase' = "panic"  PROVE PanicOK'
      <3>1. par.kind = "step" => par.stepDuration < 0
        BY <2>1 DEF CanTick, TickerSteps, Tickers
      <3>2. par.kind \in {"step", "line"}
        BY <2>1 DEF CanTick, TickerSteps, Tickers
      <3> QED  BY <1>1, <3>1, <3>2 DEF PanicOK
    <2>2. ASSUME Send(par.start, TRUE, "finished") \/ Send(par.start, FALSE, "loop")
          PROVE  PanicOK'
      <3>1. closed' = closed
        BY <1>3 DEF Start
      <3>2. CASE Send(par.start, TRUE, "finished")
        BY <1>2, <3>1, <3>2
      <3>3. CASE Send(par.start, FALSE, "loop")
        BY <1>2, <3>1, <3>3
      <3> QED  BY <2>2, <3>2, <3>3
    <2>3. PanicOK'
      BY <1>3, <2>1, <2>2 DEF Start
    <2> QED  BY <1>1, <2>3 DEF TickerSteps
  <1>4. CASE Tick
    <2>1. \/ Send(FinalDiff, TRUE, "finished")
          \/ Send(0, TRUE, "finished")
          \/ Send(par.step, FALSE, "loop")
      BY <1>4 DEF Tick
    <2>2. closed' = closed
      BY <1>4 DEF Tick
    <2>3. PanicOK'
      BY <1>2, <2>1, <2>2
    <2> QED  BY <1>1, <2>3 DEF TickerSteps
  <1>5. CASE Finish
    <2>1. PanicOK'
      BY <1>1, <1>5 DEF Finish, PanicOK
    <2> QED  BY <1>1, <2>1 DEF TickerSteps
  <1> QED  BY <1>3, <1>4, <1>5 DEF Next

LEMMA SetupStep ==
    ASSUME SetupInv, [SetupNext]_allVars
    PROVE  SetupInv'
  <1>1. CASE ApplyNext
    <2> DEFINE o == input.options[applied + 1]
    <2>1. /\ stage = "apply" /\ input' = input /\ par' = par /\ phase' = phase
          /\ \/ Refuses(o) /\ stage' = "refused" /\ applied' = applied /\ cfg' = cfg
             \/ /\ ~Refuses(o) /\ cfg' = ApplyOption(cfg, o) /\ applied' = applied + 1
                /\ stage' = IF applied + 1 = Len(input.options) THEN "fixup" ELSE "apply"
      BY <1>1 DEF ApplyNext, vars
    <2>2. /\ applied \in Nat /\ Len(input.options) \in Nat /\ applied < Len(input.options)
          /\ \A j \in DOMAIN Expand(o) : Typed(Expand(o)[j])
      <3>1. applied + 1 \in 1..Len(input.options)
        BY <2>1, OptionsTyped DEF SetupInv
      <3> QED  BY <2>1, <3>1, OptionsTyped DEF SetupInv
    <2>3. ConfigOK(cfg)'
      BY <2>1, <2>2, ApplyOptionOK DEF SetupInv
    <2>4. /\ stage' \in {"apply", "fixup", "refused"} /\ applied' \in Nat
          /\ stage' = "apply" => applied' < Len(input'.options)
      BY <2>1, <2>2
    <2> QED  BY <2>1, <2>3, <2>4 DEF SetupInv
  <1>2. CASE FixUp
    <2> DEFINE c == FixedUp(cfg, input.call, input.host)
    <2>1. /\ input' = input /\ par' = par /\ applied' = applied /\ phase' = "start"
          /\ \/ Passes(c) /\ cfg' = Checked(c) /\ stage' = "accepted"
             \/ ~Passes(c) /\ cfg' = c /\ stage' = "refused"
      BY <1>2 DEF FixUp, vars, SetupInv
    <2>2. ConfigOK(c) /\ (c.z > 0 => c.n = MaxInt32)
      BY FixedUpOK DEF SetupInv
    <2> HIDE DEF c
    <2>3. CASE Passes(c)
      <3>1. cfg' = Checked(c) /\ stage' = "accepted"
        BY <2>1, <2>3
      <3>2. ConfigOK(Checked(c)) /\ TickerSteps(WorkerTickerOf(Checked(c)))
        BY <2>2, <2>3, CheckedOK, TickerOK DEF Passes
      <3>3. /\ \A field \in {"n", "z", "c", "nConns", "zstop", "dataSamplingRate", "maxResults",
                            "call", "host"} : Checked(c)[field] = c[field]
            /\ c.nConns <= c.c /\ c.call # "" /\ c.host # ""
        BY <2>2, <2>3, CheckedOK DEF Passes, Accepted
      <3> DEFINE d == Checked(c)
      <3>4. /\ d.n = c.n /\ d.z = c.z /\ d.c = c.c /\ d.nConns = c.nConns
            /\ d.zstop = c.zstop /\ d.dataSamplingRate = c.dataSamplingRate
            /\ d.maxResults = c.maxResults /\ d.call = c.call /\ d.host = c.host
        BY <3>3
      <3>5. ConsistentConfig(d)
        <4>1. /\ c.nConns \in Int /\ c.nConns > 0 /\ c.maxResults > 0
              /\ c.zstop \in {"close", "wait", "ignore"} /\ c.dataSamplingRate \in 0..100
          BY <2>2 DEF ConfigOK
        <4>2. 1 <= c.nConns
          BY <4>1
        <4>3. c.z > 0 => c.n = MaxInt32
          BY <2>2
        <4> HIDE DEF d
        <4> QED  BY <3>3, <3>4, <4>1, <4>2, <4>3 DEF ConsistentConfig
      <3> HIDE DEF d
      <3>6. cfg' = d /\ ConfigOK(d) /\ TickerSteps(WorkerTickerOf(d))
        BY <3>1, <3>2 DEF d
      <3>7. ConsistentConfig(cfg)' /\ ConfigOK(cfg)' /\ TickerSteps(WorkerTickerOf(cfg))'
        BY <3>5, <3>6 DEF ConsistentConfig, ConfigOK, TickerSteps, WorkerTickerOf
      <3> QED  BY <2>1, <3>1, <3>7 DEF SetupInv
    <2>4. CASE ~Passes(c)
      BY <2>1, <2>2, <2>4 DEF SetupInv
    <2> QED  BY <2>3, <2>4
  <1>3. CASE CreateTicker
    <2>1. /\ stage = "accepted" /\ stage' = "ticker" /\ par' = WorkerTickerOf(cfg)
          /\ phase' = phase /\ phase = "start" /\ UNCHANGED <<input, applied, cfg>>
      BY <1>3 DEF CreateTicker, SetupInv
    <2>2. TickerSteps(WorkerTickerOf(cfg)) /\ ConsistentConfig(cfg) /\ ConfigOK(cfg)
      BY <2>1 DEF SetupInv
    <2>3. TickerSteps(par)' /\ PanicOK'
      BY <2>1, <2>2 DEF TickerSteps, PanicOK
    <2>4. (ConsistentConfig(cfg) /\ ConfigOK(cfg) /\ TickerSteps(WorkerTickerOf(cfg)))'
      BY <2>1, <2>2
    <2>5. (par \in Tickers)'
      BY <2>3 DEF TickerSteps
    <2> QED  BY <2>1, <2>3, <2>4, <2>5 DEF SetupInv
  <1>4. CASE Ticking
    <2>1. UNCHANGED setup /\ stage = "ticker" /\ Next
      BY <1>4 DEF Ticking
    <2>2. TickerSteps(par)' /\ PanicOK'
      BY <2>1, TickingStep DEF SetupInv
    <2>3. (par \in Tickers)'
      BY <2>2 DEF TickerSteps
    <2> QED  BY <2>1, <2>2, <2>3 DEF SetupInv, setup
  <1>5. CASE UNCHANGED allVars
    BY <1>5 DEF SetupInv, PanicOK, allVars, vars, setup
  <1> QED  BY <1>1, <1>2, <1>3, <1>4, <1>5 DEF SetupNext

LEMMA SetupCorrect == SetupSpec => []SetupInv
  BY SetupInit1, SetupStep, PTL DEF SetupSpec

\* Whatever options and configurations it was put together from, signed durations
\* included: a configuration that NewConfig accepts has workers for all its
\* connections, a stop action that is known, no number of requests of its own when
\* it has a duration, and a ticker of the kind WorkerTicker assumes, whose goroutine
\* panics only after Finish, before it is made, or for the negative length of its
\* steps that the checks let pass.
THEOREM ConfigCorrect == SetupSpec => [](AcceptedIsConsistent /\ par \in Tickers)
  <1>1. SetupInv => AcceptedIsConsistent /\ par \in Tickers
    BY SetupConsistent DEF SetupInv
  <1> QED  BY SetupCorrect, <1>1, PTL

-----------------------------------------------------------------------------
(* The order of options *)

DataOptions == JSONDataOptions \cup BinaryDataOptions \cup {"WithBinaryDataFunc"}
LoadNames == DOMAIN LoadOptions \cup {"WithLoadSchedule"}
ConcNames == DOMAIN ConcurrencyOptions \cup {"WithConcurrencySchedule"}

\* The fields that an option writes to.
Fields(o) ==
    LET name == o[1]
    IN  IF name \in DOMAIN Stored THEN {Stored[name]}
        ELSE IF name \in DOMAIN StoredIfGiven THEN {StoredIfGiven[name]}
        ELSE IF name = "WithName" THEN {"name"}
        ELSE IF name \in LoadNames THEN {"load"}
        ELSE IF name \in ConcNames THEN {"conc"}
        ELSE IF name \in DataOptions THEN {"data", "binary", "dataFunc"}
        ELSE IF name = "WithDurationStopAction" THEN {"zstop"}
        ELSE {"proto", "importPaths"}

\* after writes to some fields of a configuration, whatever the others are.
Local(o) ==
    \A c : /\ Apply(c, o) = [f \in DOMAIN c |-> Apply(c, o)[f]]
           /\ \A f \in DOMAIN c \ Fields(o) : Apply(c, o)[f] = c[f]
           /\ \A d : /\ DOMAIN d = DOMAIN c
                     /\ \A f \in DOMAIN c \cap Fields(o) : d[f] = c[f]
                     => \A f \in DOMAIN c \cap Fields(o) : Apply(d, o)[f] = Apply(c, o)[f]

\* What Apply makes of each kind of option.
LEMMA ApplyKinds ==
    ASSUME NEW o, o[1] \in OptionNames, NEW c
    PROVE  LET name == o[1]  v == o[2]
           IN  /\ name \in DOMAIN Stored => Apply(c, o) = Store(c, Stored[name], v)
               /\ name \in DOMAIN StoredIfGiven =>
                     Apply(c, o) = IF v > 0 THEN Store(c, StoredIfGiven[name], v) ELSE c
               /\ name = "WithName" => Apply(c, o) = IF v # "" THEN Store(c, "name", v) ELSE c
               /\ name \in DOMAIN LoadOptions => Apply(c, o) = SetLoad(c, LoadOptions[name], v)
               /\ name \in DOMAIN ConcurrencyOptions =>
                     Apply(c, o) = SetConc(c, ConcurrencyOptions[name], v)
               /\ name = "WithLoadSchedule" =>
                     Apply(c, o) = SetLoad(c, "schedule", WithSchedule(v, c.load.schedule))
               /\ name = "WithConcurrencySchedule" =>
                     Apply(c, o) = SetConc(c, "schedule", WithSchedule(v, c.conc.schedule))
               /\ name \in JSONDataOptions => Apply(c, o) = SetData(c, v, FALSE)
               /\ name \in BinaryDataOptions => Apply(c, o) = SetData(c, v, TRUE)
               /\ name = "WithBinaryDataFunc" => Apply(c, o) = SetDataFunc(c, v)
               /\ name = "WithDurationStopAction" => Apply(c, o) = SetStopAction(c, v)
               /\ name = "WithProtoFile" => Apply(c, o) = SetProtoFile(c, v)
  <1> DEFINE name == o[1]
             v == o[2]
  <1>1. CASE name \in DOMAIN Stored
    <2>1. name \notin Special
      BY <1>1, StoredFields
    <2>2. Apply(c, o) = Store(c, Stored[name], v)
      BY <1>1, <2>1 DEF Apply, Special
    <2> QED  BY <2>1, <2>2 DEF Special
  <1>2. CASE name \notin DOMAIN Stored
    BY <1>2, OtherNames DEF Apply, JSONDataOptions, BinaryDataOptions
  <1> QED  BY <1>1, <1>2

LEMMA StoreLocal ==
    ASSUME NEW c, NEW field, NEW v
    PROVE  Store(c, field, v) = [f \in DOMAIN c |-> IF f = field THEN v ELSE c[f]]
  BY DEF Store

LEMMA DataLocal ==
    ASSUME NEW o, NEW bin, NEW field \in {"data", "dataFunc"},
           Fields(o) = {"data", "binary", "dataFunc"},
           \A c : Apply(c, o) = [c EXCEPT ![field] = o[2], !.binary = bin]
    PROVE  Local(o)
  <1>1. \A c : Apply(c, o) = [f \in DOMAIN c |-> IF f = "binary" THEN bin
                                                ELSE IF f = field THEN o[2] ELSE c[f]]
    <2>1. ASSUME NEW c, NEW v
          PROVE  [c EXCEPT ![field] = v, !.binary = bin]
                    = [f \in DOMAIN c |-> IF f = "binary" THEN bin
                                          ELSE IF f = field THEN v ELSE c[f]]
      <3>1. CASE field = "data"
        BY <3>1
      <3>2. CASE field = "dataFunc"
        BY <3>2
      <3> QED  BY <3>1, <3>2
    <2> QED  BY <2>1
  <1>2. \A c : /\ Apply(c, o) = [f \in DOMAIN c |-> Apply(c, o)[f]]
               /\ \A f \in DOMAIN c \ Fields(o) : Apply(c, o)[f] = c[f]
    BY <1>1
  <1>3. \A c : \A f \in DOMAIN c :
           Apply(c, o)[f] = IF f = "binary" THEN bin ELSE IF f = field THEN o[2] ELSE c[f]
    BY <1>1
  <1>4. ASSUME NEW c
        PROVE  \A d : /\ DOMAIN d = DOMAIN c
                      /\ \A f \in DOMAIN c \cap Fields(o) : d[f] = c[f]
                      => \A f \in DOMAIN c \cap Fields(o) : Apply(d, o)[f] = Apply(c, o)[f]
    <2> SUFFICES ASSUME NEW d, DOMAIN d = DOMAIN c,
                        \A f \in DOMAIN c \cap Fields(o) : d[f] = c[f],
                        NEW f \in DOMAIN c \cap Fields(o)
                 PROVE  Apply(d, o)[f] = Apply(c, o)[f]
      OBVIOUS
    <2> QED  BY <1>3
  <1> QED  BY <1>2, <1>4, Zenon DEF Local

\* An option leaves the configuration as it is, whatever that is, or writes to its own
\* fields, looking at no others.
LEMMA ApplyLocal ==
    ASSUME NEW o, o[1] \in OptionNames
    PROVE  (\A c : Apply(c, o) = c) \/ Local(o)
  <1> DEFINE name == o[1]
             v == o[2]
  <1>1. CASE name \in DOMAIN Stored
    <2>1. \A c : Apply(c, o) = [f \in DOMAIN c |-> IF f = Stored[name] THEN v ELSE c[f]]
      BY <1>1, ApplyKinds, StoreLocal
    <2>2. Fields(o) = {Stored[name]}
      BY <1>1 DEF Fields
    <2> QED  BY <2>1, <2>2 DEF Local
  <1>2. CASE name \in DOMAIN StoredIfGiven
    <2>1. Fields(o) = {StoredIfGiven[name]}
      BY <1>2, StoredFields DEF Fields, Special
    <2>2. CASE v > 0
      <3>1. \A c : Apply(c, o) = [f \in DOMAIN c |-> IF f = StoredIfGiven[name] THEN v ELSE c[f]]
        BY <1>2, <2>2, ApplyKinds, StoreLocal
      <3> QED  BY <2>1, <3>1 DEF Local
    <2>3. CASE ~(v > 0)
      BY <1>2, <2>3, ApplyKinds
    <2> QED  BY <2>2, <2>3
  <1>3. CASE name = "WithName"
    <2>1. Fields(o) = {"name"}
      BY <1>3, StoredFields, OtherNames DEF Fields, Special
    <2>2. CASE v # ""
      <3>1. \A c : Apply(c, o) = [f \in DOMAIN c |-> IF f = "name" THEN v ELSE c[f]]
        BY <1>3, <2>2, ApplyKinds, StoreLocal
      <3> QED  BY <2>1, <3>1 DEF Local
    <2>3. CASE v = ""
      BY <1>3, <2>3, ApplyKinds
    <2> QED  BY <2>2, <2>3
  <1>4. CASE name \in LoadNames
    <2>1. Fields(o) = {"load"}
      BY <1>4, StoredFields, OtherNames DEF Fields, Special, LoadNames
    <2> DEFINE new(c) == IF name = "WithLoadSchedule"
                         THEN [c.load EXCEPT !["schedule"] = WithSchedule(v, c.load.schedule)]
                         ELSE [c.load EXCEPT ![LoadOptions[name]] = v]
    <2>2. ASSUME NEW c
          PROVE  Apply(c, o) = [f \in DOMAIN c |-> IF f = "load" THEN new(c) ELSE c[f]]
      <3>1. Apply(c, o) = Store(c, "load", new(c))
        BY <1>4, ApplyKinds, OtherNames DEF SetLoad, LoadNames
      <3> HIDE DEF new
      <3> QED  BY <3>1, StoreLocal
    <2>3. \A c, d : d.load = c.load => new(d) = new(c)
      OBVIOUS
    <2> HIDE DEF new
    <2> QED  BY <2>1, <2>2, <2>3 DEF Local
  <1>5. CASE name \in ConcNames
    <2>1. Fields(o) = {"conc"}
      BY <1>5, StoredFields, OtherNames DEF Fields, Special, ConcNames, LoadNames
    <2> DEFINE new(c) == IF name = "WithConcurrencySchedule"
                         THEN [c.conc EXCEPT !["schedule"] = WithSchedule(v, c.conc.schedule)]
                         ELSE [c.conc EXCEPT ![ConcurrencyOptions[name]] = v]
    <2>2. ASSUME NEW c
          PROVE  Apply(c, o) = [f \in DOMAIN c |-> IF f = "conc" THEN new(c) ELSE c[f]]
      <3>1. Apply(c, o) = Store(c, "conc", new(c))
        BY <1>5, ApplyKinds, OtherNames DEF SetConc, ConcNames
      <3> HIDE DEF new
      <3> QED  BY <3>1, StoreLocal
    <2>3. \A c, d : d.conc = c.conc => new(d) = new(c)
      OBVIOUS
    <2> HIDE DEF new
    <2> QED  BY <2>1, <2>2, <2>3 DEF Local
  <1>6. CASE name \in DataOptions
    <2>1. Fields(o) = {"data", "binary", "dataFunc"}
      BY <1>6, StoredFields, OtherNames
      DEF Fields, Special, ConcNames, LoadNames, DataOptions, JSONDataOptions, BinaryDataOptions
    <2>2. CASE name \in JSONDataOptions
      <3>1. \A c : Apply(c, o) = [c EXCEPT !["data"] = v, !.binary = FALSE]
        BY <2>2, <1>6, ApplyKinds DEF SetData, OptionNames
      <3> QED  BY <2>1, <3>1, DataLocal
    <2>3. CASE name \in BinaryDataOptions
      <3>1. \A c : Apply(c, o) = [c EXCEPT !["data"] = v, !.binary = TRUE]
        BY <2>3, <1>6, ApplyKinds DEF SetData, OptionNames
      <3> QED  BY <2>1, <3>1, DataLocal
    <2>4. CASE name = "WithBinaryDataFunc"
      <3>1. \A c : Apply(c, o) = [c EXCEPT !["dataFunc"] = v, !.binary = TRUE]
        BY <2>4, ApplyKinds DEF SetDataFunc
      <3> QED  BY <2>1, <3>1, DataLocal
    <2> QED  BY <1>6, <2>2, <2>3, <2>4 DEF DataOptions
  <1>7. CASE name = "WithDurationStopAction"
    <2>1. Fields(o) = {"zstop"}
      BY <1>7, StoredFields, OtherNames
      DEF Fields, Special, ConcNames, LoadNames, DataOptions, JSONDataOptions, BinaryDataOptions
    <2>2. CASE v \in {"close", "wait", "ignore"}
      <3>1. \A c : Apply(c, o) = [c EXCEPT !.zstop = v]
        BY <1>7, <2>2, ApplyKinds DEF SetStopAction
      <3> QED  BY <2>1, <3>1 DEF Local
    <2>3. CASE v \notin {"close", "wait", "ignore"}
      BY <1>7, <2>3, ApplyKinds DEF SetStopAction
    <2> QED  BY <2>2, <2>3
  <1>8. CASE name = "WithProtoFile"
    <2>1. Fields(o) = {"proto", "importPaths"}
      BY <1>8, StoredFields, OtherNames
      DEF Fields, Special, ConcNames, LoadNames, DataOptions, JSONDataOptions, BinaryDataOptions
    <2>2. CASE v.file # ""
      <3> DEFINE paths(old) == old \o (IF v.dir = "." THEN <<>> ELSE <<v.dir>>)
                                   \o <<".">> \o v.importPaths
      <3>1. \A c : Apply(c, o) = [c EXCEPT !.proto = v.file, !.importPaths = paths(c.importPaths)]
        BY <1>8, <2>2, ApplyKinds DEF SetProtoFile
      <3> HIDE DEF paths
      <3>2. \A c : [c EXCEPT !.proto = v.file, !.importPaths = paths(c.importPaths)]
                      = [f \in DOMAIN c |-> IF f = "importPaths" THEN paths(c.importPaths)
                                            ELSE IF f = "proto" THEN v.file ELSE c[f]]
        OBVIOUS
      <3>3. \A c : Apply(c, o) = [f \in DOMAIN c |-> IF f = "importPaths" THEN paths(c.importPaths)
                                                    ELSE IF f = "proto" THEN v.file ELSE c[f]]
        BY <3>1, <3>2
      <3> QED  BY <2>1, <3>3 DEF Local
    <2>3. CASE v.file = ""
      BY <1>8, <2>3, ApplyKinds DEF SetProtoFile
    <2> QED  BY <2>2, <2>3
  <1> QED
    BY <1>1, <1>2, <1>3, <1>4, <1>5, <1>6, <1>7, <1>8
    DEF OptionNames, LoadNames, ConcNames, DataOptions

\* Options about different things write to different fields, but for those of one
\* schedule.
LEMMA FieldsApart ==
    ASSUME NEW o, o[1] \in OptionNames, NEW p, p[1] \in OptionNames, Subject(o) # Subject(p)
    PROVE  \/ Fields(o) \cap Fields(p) = {}
           \/ {o[1], p[1]} \subseteq LoadNames /\ o[1] # p[1]
           \/ {o[1], p[1]} \subseteq ConcNames /\ o[1] # p[1]
  <1> DEFINE Kind(q) ==
                 IF q[1] \in DOMAIN Stored THEN Subject(q) = Stored[q[1]]
                 ELSE IF q[1] \in DataOptions THEN Subject(q) = "data"
                 ELSE Subject(q) = q[1]
  <1>1. ASSUME NEW q, q[1] \in OptionNames  PROVE Kind(q)
    <2>1. q[1] \in DOMAIN Stored => q[1] \notin DataOptions
      BY StoredFields DEF Special, DataOptions
    <2> QED  BY <2>1 DEF Subject, DataOptions
  <1>2. ASSUME NEW q, q[1] \in DOMAIN Stored
        PROVE  Fields(q) = {Stored[q[1]]} /\ Stored[q[1]] \notin OtherFields
    BY <1>2, StoredFields DEF Fields
  <1>3. ASSUME NEW q, q[1] \notin DOMAIN Stored, q[1] \in OptionNames
        PROVE  Fields(q) \subseteq OtherFields
    BY <1>3 DEF Fields, OtherFields, StoredIfGiven
  <1>4. CASE o[1] \in DOMAIN Stored \/ p[1] \in DOMAIN Stored
    BY <1>1, <1>2, <1>3, <1>4
  <1>5. CASE o[1] \notin DOMAIN Stored /\ p[1] \notin DOMAIN Stored
    <2>1. o[1] # p[1] /\ ~(o[1] \in DataOptions /\ p[1] \in DataOptions)
      BY <1>1, <1>5
    <2>2. ASSUME NEW q, q[1] \in OptionNames, q[1] \notin DOMAIN Stored
          PROVE  \/ q[1] = "WithCPUs" /\ Fields(q) = {"cpus"}
                 \/ q[1] = "WithSkipFirst" /\ Fields(q) = {"skipFirst"}
                 \/ q[1] = "WithMaxResults" /\ Fields(q) = {"maxResults"}
                 \/ q[1] = "WithConnections" /\ Fields(q) = {"nConns"}
                 \/ q[1] = "WithName" /\ Fields(q) = {"name"}
                 \/ q[1] \in LoadNames /\ Fields(q) = {"load"}
                 \/ q[1] \in ConcNames /\ Fields(q) = {"conc"}
                 \/ q[1] \in DataOptions /\ Fields(q) = {"data", "binary", "dataFunc"}
                 \/ q[1] = "WithDurationStopAction" /\ Fields(q) = {"zstop"}
                 \/ q[1] = "WithProtoFile" /\ Fields(q) = {"proto", "importPaths"}
      <3>1. CASE q[1] \in DOMAIN StoredIfGiven
        BY <2>2, <3>1 DEF Fields, StoredIfGiven
      <3>2. CASE q[1] \notin DOMAIN StoredIfGiven
        BY <2>2, <3>2 DEF Fields, OptionNames, LoadNames, ConcNames, DataOptions
      <3> QED  BY <3>1, <3>2
    <2> QED  BY <1>5, <2>1, <2>2
  <1> QED  BY <1>4, <1>5

\* A field of a schedule of a configuration.
SetIn(c, s, field, v) == [c EXCEPT ![s] = [c[s] EXCEPT ![field] = v]]
SetSchedule(c, s, v) == SetIn(c, s, "schedule", WithSchedule(v, c[s].schedule))

LEMMA SetInSwap ==
    ASSUME NEW c, NEW s, NEW a, NEW b, a # b, NEW v, NEW w
    PROVE  SetIn(SetIn(c, s, a, v), s, b, w) = SetIn(SetIn(c, s, b, w), s, a, v)
  <1>1. CASE s \in DOMAIN c
    <2>1. SetIn(SetIn(c, s, a, v), s, b, w)
            = [c EXCEPT ![s] = [[c[s] EXCEPT ![a] = v] EXCEPT ![b] = w]]
      BY <1>1 DEF SetIn
    <2>2. SetIn(SetIn(c, s, b, w), s, a, v)
            = [c EXCEPT ![s] = [[c[s] EXCEPT ![b] = w] EXCEPT ![a] = v]]
      BY <1>1 DEF SetIn
    <2>3. [[c[s] EXCEPT ![a] = v] EXCEPT ![b] = w] = [[c[s] EXCEPT ![b] = w] EXCEPT ![a] = v]
      OBVIOUS
    <2> QED  BY <2>1, <2>2, <2>3
  <1>2. CASE s \notin DOMAIN c
    BY <1>2 DEF SetIn
  <1> QED  BY <1>1, <1>2

LEMMA SetScheduleSwap ==
    ASSUME NEW c, NEW s, NEW a, a # "schedule", NEW v, NEW w
    PROVE  SetSchedule(SetIn(c, s, a, v), s, w) = SetIn(SetSchedule(c, s, w), s, a, v)
  <1> DEFINE x == WithSchedule(w, c[s].schedule)
             y == WithSchedule(w, SetIn(c, s, a, v)[s].schedule)
  <1>1. SetIn(SetIn(c, s, a, v), s, "schedule", x) = SetIn(SetIn(c, s, "schedule", x), s, a, v)
    BY SetInSwap
  <1>2. SetIn(SetIn(c, s, a, v), s, "schedule", y) = SetIn(SetIn(c, s, a, v), s, "schedule", x)
    <2>1. CASE s \in DOMAIN c /\ "schedule" \in DOMAIN c[s]
      <3>1. SetIn(c, s, a, v)[s].schedule = c[s].schedule
        BY <2>1 DEF SetIn
      <3> QED  BY <3>1
    <2>2. CASE s \notin DOMAIN c
      <3>1. s \notin DOMAIN SetIn(c, s, a, v)
        BY <2>2 DEF SetIn
      <3>2. \A d, z1, z2 : s \notin DOMAIN d => SetIn(d, s, "schedule", z1) = SetIn(d, s, "schedule", z2)
        BY DEF SetIn
      <3> HIDE DEF x, y
      <3> QED  BY <3>1, <3>2
    <2>3. CASE s \in DOMAIN c /\ "schedule" \notin DOMAIN c[s]
      <3>1. "schedule" \notin DOMAIN SetIn(c, s, a, v)[s]
        BY <2>3 DEF SetIn
      <3>2. \A d, z1, z2 : "schedule" \notin DOMAIN d[s]
                           => SetIn(d, s, "schedule", z1) = SetIn(d, s, "schedule", z2)
        BY DEF SetIn
      <3> HIDE DEF x, y
      <3> QED  BY <3>1, <3>2
    <2> QED  BY <2>1, <2>2, <2>3
  <1> QED  BY <1>1, <1>2 DEF SetSchedule

\* Two options about different things: their order does not matter.
LEMMA ApplySwap ==
    ASSUME NEW c, NEW o, o[1] \in OptionNames, NEW p, p[1] \in OptionNames,
           Subject(o) # Subject(p)
    PROVE  Apply(Apply(c, o), p) = Apply(Apply(c, p), o)
  <1>1. CASE (\A d : Apply(d, o) = d) \/ (\A d : Apply(d, p) = d)
    BY <1>1
  <1>2. CASE Local(o) /\ Local(p) /\ Fields(o) \cap Fields(p) = {}
    <2> DEFINE co == Apply(c, o)
               cp == Apply(c, p)
               cop == Apply(co, p)
               cpo == Apply(cp, o)
    <2>1. /\ DOMAIN co = DOMAIN c /\ \A f \in DOMAIN c \ Fields(o) : co[f] = c[f]
          /\ DOMAIN cp = DOMAIN c /\ \A f \in DOMAIN c \ Fields(p) : cp[f] = c[f]
      BY <1>2 DEF Local
    <2>2. /\ cop = [f \in DOMAIN c |-> cop[f]] /\ \A f \in DOMAIN c \ Fields(p) : cop[f] = co[f]
          /\ cpo = [f \in DOMAIN c |-> cpo[f]] /\ \A f \in DOMAIN c \ Fields(o) : cpo[f] = cp[f]
      BY <1>2, <2>1 DEF Local
    <2>3. ASSUME NEW f \in DOMAIN c \cap Fields(o)  PROVE cpo[f] = co[f]
      <3>0. \A g \in DOMAIN c \cap Fields(o) : cp[g] = c[g]
        BY <1>2, <2>1
      <3> QED  BY <1>2, <2>1, <3>0 DEF Local
    <2>4. ASSUME NEW f \in DOMAIN c \cap Fields(p)  PROVE cop[f] = cp[f]
      <3>0. \A g \in DOMAIN c \cap Fields(p) : co[g] = c[g]
        BY <1>2, <2>1
      <3> QED  BY <1>2, <2>1, <3>0 DEF Local
    <2> HIDE DEF co, cp, cop, cpo
    <2>5. \A f \in DOMAIN c : cop[f] = cpo[f]
      BY <1>2, <2>1, <2>2, <2>3, <2>4
    <2>6. cop = cpo
      BY <2>2, <2>5
    <2> QED  BY <2>6 DEF co, cp, cop, cpo
  <1> DEFINE FieldOf(q) == IF q[1] \in DOMAIN LoadOptions THEN LoadOptions[q[1]]
                           ELSE ConcurrencyOptions[q[1]]
  <1>3. ASSUME NEW s \in {"load", "conc"}, NEW names, NEW sched,
               s = "load" => names = DOMAIN LoadOptions /\ sched = "WithLoadSchedule",
               s = "conc" => names = DOMAIN ConcurrencyOptions
                             /\ sched = "WithConcurrencySchedule",
               {o[1], p[1]} \subseteq names \cup {sched}, o[1] # p[1]
        PROVE  Apply(Apply(c, o), p) = Apply(Apply(c, p), o)
    <2>1. ASSUME NEW q, q[1] \in names  
          PROVE  /\ \A d : Apply(d, q) = SetIn(d, s, FieldOf(q), q[2])
                 /\ FieldOf(q) # "schedule"
                 /\ \A r : r[1] \in names /\ r[1] # q[1] => FieldOf(r) # FieldOf(q)
      <3>1. q[1] \in OptionNames
        BY <1>3, <2>1 DEF OptionNames
      <3>2. s = "load" => FieldOf(q) = LoadOptions[q[1]]
        BY <1>3, <2>1
      <3>3. s = "conc" => FieldOf(q) = ConcurrencyOptions[q[1]]
        BY <1>3, <2>1, OtherNames
      <3>4. \A d : Apply(d, q) = SetIn(d, s, FieldOf(q), q[2])
        <4>1. CASE s = "load"
          BY <1>3, <2>1, <3>1, <3>2, <4>1, ApplyKinds DEF SetLoad, Store, SetIn
        <4>2. CASE s = "conc"
          <5>1. q[1] \in DOMAIN ConcurrencyOptions
            BY <1>3, <2>1, <4>2
          <5>2. \A d : Apply(d, q) = SetConc(d, ConcurrencyOptions[q[1]], q[2])
            BY <3>1, <5>1, ApplyKinds
          <5>3. \A d, field, v : SetConc(d, field, v) = SetIn(d, "conc", field, v)
            BY DEF SetConc, Store, SetIn
          <5> QED  BY <3>3, <4>2, <5>2, <5>3
        <4> QED  BY <4>1, <4>2
      <3>5. FieldOf(q) # "schedule"
        BY <1>3, <2>1, <3>2, <3>3 DEF LoadOptions, ConcurrencyOptions
      <3>6. ASSUME NEW r, r[1] \in names, r[1] # q[1]  PROVE FieldOf(r) # FieldOf(q)
        BY <1>3, <2>1, <3>6, OtherNames DEF LoadOptions, ConcurrencyOptions
      <3> QED  BY <3>4, <3>5, <3>6
    <2>2. ASSUME NEW q, q[1] = sched
          PROVE  \A d : Apply(d, q) = SetSchedule(d, s, q[2])
      <3>1. q[1] \in OptionNames
        BY <1>3, <2>2 DEF OptionNames
      <3>2. CASE s = "load"
        <4>1. \A d : Apply(d, q) = SetLoad(d, "schedule", WithSchedule(q[2], d.load.schedule))
          BY <1>3, <2>2, <3>1, <3>2, ApplyKinds
        <4>2. \A d, v : SetLoad(d, "schedule", v) = SetIn(d, "load", "schedule", v)
          BY DEF SetLoad, Store, SetIn
        <4>3. \A d : SetSchedule(d, s, q[2])
                        = SetIn(d, "load", "schedule", WithSchedule(q[2], d.load.schedule))
          BY <3>2 DEF SetSchedule
        <4> QED  BY <4>1, <4>2, <4>3
      <3>3. CASE s = "conc"
        <4>1. \A d : Apply(d, q) = SetConc(d, "schedule", WithSchedule(q[2], d.conc.schedule))
          BY <1>3, <2>2, <3>1, <3>3, ApplyKinds
        <4>2. \A d, v : SetConc(d, "schedule", v) = SetIn(d, "conc", "schedule", v)
          BY DEF SetConc, Store, SetIn
        <4>3. \A d : SetSchedule(d, s, q[2])
                        = SetIn(d, "conc", "schedule", WithSchedule(q[2], d.conc.schedule))
          BY <3>3 DEF SetSchedule
        <4> QED  BY <4>1, <4>2, <4>3
      <3> QED  BY <3>2, <3>3
    <2>3. CASE o[1] \in names /\ p[1] \in names
      BY <1>3, <2>1, <2>3, SetInSwap
    <2>4. CASE o[1] = sched /\ p[1] \in names
      BY <2>1, <2>2, <2>4, SetScheduleSwap
    <2>5. CASE o[1] \in names /\ p[1] = sched
      BY <2>1, <2>2, <2>5, SetScheduleSwap
    <2> QED  BY <1>3, <2>3, <2>4, <2>5
  <1>4. CASE Fields(o) \cap Fields(p) = {}
    BY <1>1, <1>2, <1>4, ApplyLocal
  <1>5. CASE {o[1], p[1]} \subseteq LoadNames /\ o[1] # p[1]
    BY <1>3, <1>5 DEF LoadNames
  <1>6. CASE {o[1], p[1]} \subseteq ConcNames /\ o[1] # p[1]
    BY <1>3, <1>6 DEF ConcNames
  <1> QED  BY <1>4, <1>5, <1>6, FieldsApart

\* So are the options of a list.
LEMMA AllSteps ==
    ASSUME NEW os, Len(os) \in Nat
    PROVE  \E after : /\ ApplyAll(os) = after[Len(os)]
                      /\ after[0] = Defaults
                      /\ \A k \in 1..Len(os) : after[k] = ApplyOption(after[k - 1], os[k])
  <1> DEFINE Solves(f, m) ==
                 f = [k \in 0..m |-> IF k = 0 THEN Defaults ELSE ApplyOption(f[k - 1], os[k])]
             after == CHOOSE f : Solves(f, Len(os))
  <1>1. ApplyAll(os) = after[Len(os)]
    BY DEF ApplyAll
  <1>2. Solves(after, Len(os))
    <2> DEFINE S == {k \in Nat : \E f : Solves(f, k)}
    <2>1. 0 \in S
      <3>1. Solves([k \in 0..0 |-> Defaults], 0)
        OBVIOUS
      <3> QED  BY <3>1
    <2>2. ASSUME NEW m \in Nat, m \in S  PROVE m + 1 \in S
      <3>1. PICK f : Solves(f, m)
        BY <2>2
      <3> DEFINE g == [k \in 0..m + 1 |->
                          IF k = m + 1 THEN ApplyOption(f[m], os[m + 1]) ELSE f[k]]
      <3>2. Solves(g, m + 1)
        BY <3>1
      <3> HIDE DEF g, Solves
      <3> QED  BY <3>2
    <2>3. Nat \subseteq S
      <3> HIDE DEF S
      <3> QED  BY <2>1, <2>2, InductionOnSet
    <2>4. \E f : Solves(f, Len(os))
      BY <2>3
    <2> HIDE DEF Solves
    <2> QED  BY <2>4
  <1> HIDE DEF after
  <1>3. after[0] = Defaults /\ \A k \in 1..Len(os) : after[k] = ApplyOption(after[k - 1], os[k])
    BY <1>2
  <1> QED  BY <1>1, <1>3

LEMMA OneOption ==
    ASSUME NEW c, NEW o, o[1] \notin ConfigSources
    PROVE  ApplyOption(c, o) = Apply(c, o)
  <1>1. Expand(o) = <<o>>
    BY DEF Expand
  <1>2. PICK after : /\ ApplyOption(c, o) = after[Len(Expand(o))]
                     /\ after[0] = c
                     /\ \A k \in 1..Len(Expand(o)) : after[k] = Apply(after[k - 1], Expand(o)[k])
    BY OptionSteps
  <1>3. Len(Expand(o)) = 1 /\ Expand(o)[1] = o
    BY <1>1
  <1> QED  BY <1>2, <1>3

\* Two neighbours of a list about different things can change places.
LEMMA AllSwap ==
    ASSUME NEW S, NEW os \in Seq(S), NEW k \in 1..Len(os) - 1,
           os[k][1] \in OptionNames \ ConfigSources,
           os[k + 1][1] \in OptionNames \ ConfigSources,
           Subject(os[k]) # Subject(os[k + 1])
    PROVE  ApplyAll(Swapped(os, k)) = ApplyAll(os)
  <1> DEFINE sw == Swapped(os, k)
  <1>1. Len(os) \in Nat /\ k \in 1..Len(os) /\ k + 1 \in 1..Len(os) /\ k # k + 1
    BY LenProperties
  <1>2. /\ Len(sw) = Len(os) /\ sw[k] = os[k + 1] /\ sw[k + 1] = os[k]
        /\ \A j \in 1..Len(os) : j # k /\ j # k + 1 => sw[j] = os[j]
    <2> DEFINE one == [os EXCEPT ![k] = os[k + 1]]
    <2>1. os[k] \in S /\ os[k + 1] \in S
      BY <1>1, ElementOfSeq
    <2>2. one \in Seq(S) /\ Len(one) = Len(os)
      BY <1>1, <2>1, ExceptSeq
    <2>3. \A j \in 1..Len(os) : one[j] = IF j = k THEN os[k + 1] ELSE os[j]
      BY <1>1, <2>1, ExceptSeq
    <2> HIDE DEF one
    <2>4. Len([one EXCEPT ![k + 1] = os[k]]) = Len(os)
      BY <1>1, <2>1, <2>2, ExceptSeq
    <2>5. \A j \in 1..Len(os) : [one EXCEPT ![k + 1] = os[k]][j] = IF j = k + 1 THEN os[k] ELSE one[j]
      BY <1>1, <2>1, <2>2, ExceptSeq
    <2>6. sw = [one EXCEPT ![k + 1] = os[k]]
      BY DEF Swapped, one
    <2> HIDE DEF sw
    <2> QED  BY <1>1, <2>3, <2>4, <2>5, <2>6
  <1> HIDE DEF sw
  <1>3. PICK a : /\ ApplyAll(os) = a[Len(os)] /\ a[0] = Defaults
                 /\ \A j \in 1..Len(os) : a[j] = ApplyOption(a[j - 1], os[j])
    BY <1>1, AllSteps
  <1>4. PICK b : /\ ApplyAll(sw) = b[Len(os)] /\ b[0] = Defaults
                 /\ \A j \in 1..Len(os) : b[j] = ApplyOption(b[j - 1], sw[j])
    BY <1>1, <1>2, AllSteps
  <1> DEFINE T == {j \in Nat : j <= Len(os) => IF j = k THEN a[k - 1] = b[k - 1]
                                               ELSE a[j] = b[j]}
  <1>5. 0 \in T
    BY <1>1, <1>3, <1>4
  <1>6. ASSUME NEW j \in Nat, j \in T  PROVE j + 1 \in T
    <2>1. SUFFICES ASSUME j + 1 <= Len(os)
                   PROVE  IF j + 1 = k THEN a[k - 1] = b[k - 1] ELSE a[j + 1] = b[j + 1]
      OBVIOUS
    <2>2. j <= Len(os) /\ j + 1 \in 1..Len(os) /\ (j + 1) - 1 = j
      BY <1>1, <2>1
    <2>3. CASE j + 1 = k
      <3>1. j # k /\ k - 1 = j
        BY <2>3
      <3> QED  BY <1>6, <2>2, <2>3, <3>1
    <2>4. CASE j = k
      <3>1. a[k - 1] = b[k - 1]
        BY <1>6, <2>2, <2>4
      <3>2. (k + 1) - 1 = k
        BY <1>1
      <3>3. a[k + 1] = ApplyOption(ApplyOption(a[k - 1], os[k]), os[k + 1])
        BY <1>1, <1>3, <3>2
      <3>4. b[k + 1] = ApplyOption(ApplyOption(b[k - 1], os[k + 1]), os[k])
        BY <1>1, <1>2, <1>4, <3>2
      <3>5. a[k + 1] = b[k + 1]
        BY <3>1, <3>3, <3>4, OneOption, ApplySwap
      <3> QED  BY <1>1, <2>4, <3>5
    <2>5. CASE j # k /\ j + 1 # k
      <3>1. a[j] = b[j] /\ sw[j + 1] = os[j + 1]
        BY <1>1, <1>2, <1>6, <2>2, <2>5
      <3>2. a[j + 1] = ApplyOption(a[j], os[j + 1]) /\ b[j + 1] = ApplyOption(b[j], sw[j + 1])
        BY <1>3, <1>4, <2>2
      <3> QED  BY <2>5, <3>1, <3>2
    <2> QED  BY <2>3, <2>4, <2>5
  <1>7. Len(os) \in T
    <2> HIDE DEF T
    <2> QED  BY <1>1, <1>5, <1>6, InductionOnSet
  <1>8. Len(os) # k
    BY <1>1
  <1> QED  BY <1>1, <1>3, <1>4, <1>7, <1>8 DEF sw

\* The order of options about different things is free, whatever the options around
\* them are.
THEOREM OrderCorrect == SetupSpec => []OrderOfSubjectsIsFree
  <1>1. ASSUME SetupInv  PROVE OrderOfSubjectsIsFree
    <2> DEFINE os == input.options
    <2>1. SUFFICES ASSUME NEW k \in 1..Len(os) - 1,
                          os[k][1] \notin ConfigSources, os[k + 1][1] \notin ConfigSources,
                          Subject(os[k]) # Subject(os[k + 1])
                   PROVE  ApplyAll(os) = ApplyAll(Swapped(os, k))
      BY DEF OrderOfSubjectsIsFree
    <2>2. PICK S : os \in Seq(S)
      BY <1>1, RunSetupAssumption DEF SetupInv, RunSetupAssumption
    <2>3. Len(os) \in Nat /\ k \in 1..Len(os) /\ k + 1 \in 1..Len(os)
      BY <2>2, LenProperties
    <2>4. ASSUME NEW j \in 1..Len(os), os[j][1] \notin ConfigSources
          PROVE  os[j][1] \in OptionNames
      <3>1. Expand(os[j]) = <<os[j]>>
        BY <2>4 DEF Expand
      <3>2. DOMAIN Expand(os[j]) = 1..1 /\ Expand(os[j])[1] = os[j]
        BY <3>1
      <3>3. Typed(Expand(os[j])[1])
        <4>1. \A i \in DOMAIN Expand(os[j]) : Typed(Expand(os[j])[i])
          BY <1>1, OptionsTyped DEF SetupInv
        <4>2. 1 \in DOMAIN Expand(os[j])
          BY <3>2
        <4> QED  BY <4>1, <4>2
      <3> QED  BY <3>2, <3>3 DEF Typed
    <2> QED  BY <2>1, <2>2, <2>3, <2>4, AllSwap
  <1> QED  BY SetupCorrect, <1>1, PTL

-----------------------------------------------------------------------------
(* The data of the last option *)

Data == JSONDataOptions \cup BinaryDataOptions

\* The option at a place after all others is the last, if it has one of the names.
LEMMA LastOfMore ==
    ASSUME NEW P \in SUBSET (Nat \X Nat), NEW p \in Nat \X Nat,
           \A q \in P : Before(q, p), NEW names
    PROVE  LastOf(P \cup {p}, names)
             = IF OptionAt(p)[1] \in names THEN OptionAt(p) ELSE LastOf(P, names)
  <1> DEFINE given(Q) == {q \in Q : OptionAt(q)[1] \in names}
             all == P \cup {p}
  <1>1. CASE OptionAt(p)[1] \in names
    <2>1. p \in given(all) /\ \A q \in given(all) \ {p} : Before(q, p)
      BY <1>1
    <2>2. ASSUME NEW x \in given(all), \A q \in given(all) \ {x} : Before(q, x)
          PROVE  x = p
      <3>1. SUFFICES ASSUME x # p  PROVE FALSE
        OBVIOUS
      <3>2. Before(p, x) /\ Before(x, p)
        BY <2>1, <2>2, <3>1
      <3>3. p[1] \in Nat /\ p[2] \in Nat /\ x[1] \in Nat /\ x[2] \in Nat
        OBVIOUS
      <3> QED  BY <3>2, <3>3 DEF Before
    <2>3. (CHOOSE x \in given(all) : \A q \in given(all) \ {x} : Before(q, x)) = p
      <3> HIDE DEF given
      <3> QED  BY <2>1, <2>2
    <2>4. given(all) # {}
      BY <2>1
    <2>5. LastOf(all, names)
            = IF given(all) = {} THEN <<"none", "">>
              ELSE OptionAt(CHOOSE x \in given(all) : \A q \in given(all) \ {x} : Before(q, x))
      BY DEF LastOf
    <2> HIDE DEF given
    <2> QED  BY <1>1, <2>3, <2>4, <2>5
  <1>2. CASE OptionAt(p)[1] \notin names
    <2>1. given(all) = given(P)
      BY <1>2
    <2>2. ASSUME NEW Q
          PROVE  LastOf(Q, names)
                   = IF given(Q) = {} THEN <<"none", "">>
                     ELSE OptionAt(CHOOSE x \in given(Q) : \A q \in given(Q) \ {x} : Before(q, x))
      BY DEF LastOf
    <2> HIDE DEF given
    <2>3. LastOf(all, names) = LastOf(P, names)
      BY <2>1, <2>2
    <2> QED  BY <1>2, <2>3
  <1> QED  BY <1>1, <1>2

HasData(c) == {"data", "binary", "dataFunc"} \subseteq DOMAIN c

\* d is c after the option o, as far as the data goes.
DataAfter(c, o, d) ==
    /\ HasData(d)
    /\ o[1] \in JSONDataOptions =>
          d.data = o[2] /\ d.binary = FALSE /\ d.dataFunc = c.dataFunc
    /\ o[1] \in BinaryDataOptions =>
          d.data = o[2] /\ d.binary = TRUE /\ d.dataFunc = c.dataFunc
    /\ o[1] = "WithBinaryDataFunc" =>
          d.data = c.data /\ d.binary = TRUE /\ d.dataFunc = o[2]
    /\ o[1] \notin DataOptions =>
          d.data = c.data /\ d.binary = c.binary /\ d.dataFunc = c.dataFunc

LEMMA SetDataRight ==
    ASSUME NEW c, HasData(c), NEW v
    PROVE  /\ SetData(c, v, TRUE).data = v /\ SetData(c, v, TRUE).binary = TRUE
           /\ SetData(c, v, TRUE).dataFunc = c.dataFunc
           /\ SetData(c, v, FALSE).data = v /\ SetData(c, v, FALSE).binary = FALSE
           /\ SetData(c, v, FALSE).dataFunc = c.dataFunc
  BY DEF SetData, HasData

LEMMA SetDataFuncRight ==
    ASSUME NEW c, HasData(c), NEW v
    PROVE  /\ SetDataFunc(c, v).data = c.data /\ SetDataFunc(c, v).binary = TRUE
           /\ SetDataFunc(c, v).dataFunc = v
  BY DEF SetDataFunc, HasData

LEMMA ApplyData ==
    ASSUME NEW c, HasData(c), NEW o, o[1] \in OptionNames
    PROVE  DataAfter(c, o, Apply(c, o))
  <1>1. HasData(Apply(c, o))
    <2>1. CASE \A d : Apply(d, o) = d
      BY <2>1
    <2>2. CASE Local(o)
      BY <2>2 DEF Local, HasData
    <2> QED  BY <2>1, <2>2, ApplyLocal
  <1>2. o[1] \in JSONDataOptions => Apply(c, o) = SetData(c, o[2], FALSE)
    BY ApplyKinds
  <1>3. o[1] \in BinaryDataOptions => Apply(c, o) = SetData(c, o[2], TRUE)
    BY ApplyKinds
  <1>4. o[1] = "WithBinaryDataFunc" => Apply(c, o) = SetDataFunc(c, o[2])
    BY ApplyKinds
  <1>5. ASSUME o[1] \notin DataOptions
        PROVE  /\ Apply(c, o).data = c.data /\ Apply(c, o).binary = c.binary
               /\ Apply(c, o).dataFunc = c.dataFunc
    <2>1. Fields(o) \cap {"data", "binary", "dataFunc"} = {}
      <3>1. CASE o[1] \in DOMAIN Stored
        BY <3>1, StoredFields DEF Fields, OtherFields
      <3>2. CASE o[1] \notin DOMAIN Stored
        BY <1>5, <3>2 DEF Fields, StoredIfGiven
      <3> QED  BY <3>1, <3>2
    <2>2. CASE \A d : Apply(d, o) = d
      BY <2>2
    <2>3. CASE Local(o)
      BY <2>1, <2>3 DEF Local, HasData
    <2> QED  BY <2>2, <2>3, ApplyLocal
  <1>6. ASSUME o[1] \in JSONDataOptions
        PROVE  /\ Apply(c, o).data = o[2] /\ Apply(c, o).binary = FALSE
               /\ Apply(c, o).dataFunc = c.dataFunc
    <2>1. /\ SetData(c, o[2], FALSE).data = o[2] /\ SetData(c, o[2], FALSE).binary = FALSE
          /\ SetData(c, o[2], FALSE).dataFunc = c.dataFunc
      BY SetDataRight, Zenon
    <2> QED  BY <1>2, <1>6, <2>1, Zenon
  <1>7. ASSUME o[1] \in BinaryDataOptions
        PROVE  /\ Apply(c, o).data = o[2] /\ Apply(c, o).binary = TRUE
               /\ Apply(c, o).dataFunc = c.dataFunc
    <2>1. /\ SetData(c, o[2], TRUE).data = o[2] /\ SetData(c, o[2], TRUE).binary = TRUE
          /\ SetData(c, o[2], TRUE).dataFunc = c.dataFunc
      BY SetDataRight, Zenon
    <2> QED  BY <1>3, <1>7, <2>1, Zenon
  <1>8. ASSUME o[1] = "WithBinaryDataFunc"
        PROVE  /\ Apply(c, o).data = c.data /\ Apply(c, o).binary = TRUE
               /\ Apply(c, o).dataFunc = o[2]
    <2>1. /\ SetDataFunc(c, o[2]).data = c.data /\ SetDataFunc(c, o[2]).binary = TRUE
          /\ SetDataFunc(c, o[2]).dataFunc = o[2]
      BY SetDataFuncRight, Zenon
    <2> QED  BY <1>4, <1>8, <2>1, Zenon
  <1> QED  BY <1>1, <1>5, <1>6, <1>7, <1>8, Zenon DEF DataAfter

\* What c has when data is the last option that gives data, any the last that gives
\* data or a data function, and fn the last that gives a function.
Follows(c, data, any, fn) ==
    /\ c.data = data[2]
    /\ c.binary = (any[1] \in BinaryDataOptions \cup {"WithBinaryDataFunc"})
    /\ c.dataFunc = fn[2]

\* c has what the last options at those places give.
DataOfLast(c, places) ==
    Follows(c, LastOf(places, Data), LastOf(places, DataOptions),
            LastOf(places, {"WithBinaryDataFunc"}))

\* One more option: the data is that of the last one still.
LEMMA DataStep ==
    ASSUME NEW c, HasData(c), NEW P \in SUBSET (Nat \X Nat), NEW p \in Nat \X Nat,
           \A q \in P : Before(q, p), OptionAt(p)[1] \in OptionNames,
           DataOfLast(c, P)
    PROVE  /\ HasData(Apply(c, OptionAt(p)))
           /\ DataOfLast(Apply(c, OptionAt(p)), P \cup {p})
  <1> DEFINE o == OptionAt(p)
             d == Apply(c, o)
             all == P \cup {p}
             Fn == {"WithBinaryDataFunc"}
             oldData == LastOf(P, Data)
             oldAny == LastOf(P, DataOptions)
             oldFn == LastOf(P, Fn)
             newData == LastOf(all, Data)
             newAny == LastOf(all, DataOptions)
             newFn == LastOf(all, Fn)
  <1>1. /\ newData = IF o[1] \in Data THEN o ELSE oldData
        /\ newAny = IF o[1] \in DataOptions THEN o ELSE oldAny
        /\ newFn = IF o[1] \in Fn THEN o ELSE oldFn
    BY LastOfMore
  <1>2. Follows(c, oldData, oldAny, oldFn)
    BY Zenon DEF DataOfLast
  <1>3. Follows(d, newData, newAny, newFn) => DataOfLast(d, all)
    BY Zenon DEF DataOfLast
  <1>4. DataAfter(c, o, d)
    BY ApplyData
  <1> HIDE DEF o, d, oldData, oldAny, oldFn, newData, newAny, newFn
  <1>5. ASSUME o[1] \in JSONDataOptions  PROVE Follows(d, newData, newAny, newFn)
    <2>1. /\ o[1] \in Data /\ o[1] \in DataOptions /\ o[1] \notin Fn
          /\ o[1] \notin BinaryDataOptions \cup {"WithBinaryDataFunc"}
      BY <1>5 DEF JSONDataOptions, BinaryDataOptions, Data, DataOptions
    <2>2. newData = o /\ newAny = o /\ newFn = oldFn
      BY <1>1, <2>1
    <2>3. (newAny[1] \in BinaryDataOptions \cup {"WithBinaryDataFunc"}) = FALSE
      BY <2>1, <2>2
    <2>4. d.data = o[2] /\ d.binary = FALSE /\ d.dataFunc = c.dataFunc
      BY <1>4, <1>5, Zenon DEF DataAfter
    <2>5. c.dataFunc = oldFn[2]
      BY <1>2, Zenon DEF Follows
    <2> QED  BY <2>2, <2>3, <2>4, <2>5, Zenon DEF Follows
  <1>6. ASSUME o[1] \in BinaryDataOptions  PROVE Follows(d, newData, newAny, newFn)
    <2>1. /\ o[1] \in Data /\ o[1] \in DataOptions /\ o[1] \notin Fn
          /\ o[1] \in BinaryDataOptions \cup {"WithBinaryDataFunc"}
      BY <1>6 DEF BinaryDataOptions, Data, DataOptions
    <2>2. newData = o /\ newAny = o /\ newFn = oldFn
      BY <1>1, <2>1
    <2> QED  BY <1>2, <1>4, <1>6, <2>1, <2>2, Zenon DEF DataAfter, Follows
  <1>7. ASSUME o[1] = "WithBinaryDataFunc"  PROVE Follows(d, newData, newAny, newFn)
    <2>1. /\ o[1] \notin Data /\ o[1] \in DataOptions /\ o[1] \in Fn
          /\ o[1] \in BinaryDataOptions \cup {"WithBinaryDataFunc"}
      BY <1>7 DEF JSONDataOptions, BinaryDataOptions, Data, DataOptions
    <2>2. newData = oldData /\ newAny = o /\ newFn = o
      BY <1>1, <2>1
    <2> QED  BY <1>2, <1>4, <1>7, <2>1, <2>2, Zenon DEF DataAfter, Follows
  <1>8. ASSUME o[1] \notin DataOptions  PROVE Follows(d, newData, newAny, newFn)
    <2>1. o[1] \notin Data /\ o[1] \notin Fn
      BY <1>8 DEF Data, DataOptions
    <2>2. newData = oldData /\ newAny = oldAny /\ newFn = oldFn
      BY <1>1, <1>8, <2>1
    <2> QED  BY <1>2, <1>4, <1>8, <2>2, Zenon DEF DataAfter, Follows
  <1>9. Follows(d, newData, newAny, newFn)
    BY <1>5, <1>6, <1>7, <1>8 DEF DataOptions
  <1> QED  BY <1>3, <1>4, <1>9 DEF DataAfter, d, o

\* The options up to the k-th are applied.
UpTo(k) == {q \in Places : q[1] <= k}

LEMMA PlacesRight ==
    ASSUME SetupInv
    PROVE  /\ Places \in SUBSET (Nat \X Nat)
           /\ \A q \in Nat \X Nat :
                 q \in Places <=> /\ q[1] \in 1..Len(input.options)
                                  /\ q[2] \in 1..Len(Expand(input.options[q[1]]))
           /\ \A q \in Places : OptionAt(q)[1] \in OptionNames
           /\ Len(input.options) \in Nat
  <1>1. DOMAIN input.options = 1..Len(input.options) /\ Len(input.options) \in Nat
    <2>1. PICK S : input.options \in Seq(S)
      BY RunSetupAssumption DEF SetupInv, RunSetupAssumption
    <2> QED  BY <2>1, LenProperties
  <1>2. \A o : DOMAIN Expand(o) = 1..Len(Expand(o)) /\ Len(Expand(o)) \in Nat
    BY ExpandSequence, LenProperties DEF IsSequence
  <1>3. Places = UNION {{k} \X (1..Len(Expand(input.options[k]))) : k \in 1..Len(input.options)}
    BY <1>1, <1>2 DEF Places
  <1>4. Places \in SUBSET (Nat \X Nat)
    BY <1>1, <1>2, <1>3
  <1>5. \A q \in Nat \X Nat :
            q \in Places <=> /\ q[1] \in 1..Len(input.options)
                             /\ q[2] \in 1..Len(Expand(input.options[q[1]]))
    BY <1>1, <1>2, <1>3
  <1>6. ASSUME NEW q \in Places  PROVE OptionAt(q)[1] \in OptionNames
    <2>1. q[1] \in 1..Len(input.options) /\ q[2] \in DOMAIN Expand(input.options[q[1]])
      BY <1>2, <1>4, <1>5
    <2>2. Typed(Expand(input.options[q[1]])[q[2]])
      BY <2>1, OptionsTyped DEF SetupInv
    <2> QED  BY <2>2 DEF Typed, OptionAt
  <1> QED  BY <1>1, <1>4, <1>5, <1>6

\* One option of NewConfig, with those of its configuration.
LEMMA DataOptionStep ==
    ASSUME SetupInv, NEW k \in Nat, k + 1 <= Len(input.options),
           NEW c, HasData(c), DataOfLast(c, UpTo(k))
    PROVE  /\ HasData(ApplyOption(c, input.options[k + 1]))
           /\ DataOfLast(ApplyOption(c, input.options[k + 1]), UpTo(k + 1))
  <1> DEFINE os == Expand(input.options[k + 1])
             P(j) == UpTo(k) \cup {<<k + 1, i>> : i \in 1..j}
  <1>1. PICK after : /\ ApplyOption(c, input.options[k + 1]) = after[Len(os)]
                     /\ after[0] = c
                     /\ \A j \in 1..Len(os) : after[j] = Apply(after[j - 1], os[j])
    BY OptionSteps
  <1>2. Len(os) \in Nat
    BY ExpandSequence, LenProperties DEF IsSequence
  <1>3. /\ UpTo(k) \in SUBSET (Nat \X Nat) /\ \A q \in UpTo(k) : q[1] <= k
        /\ \A j \in 1..Len(os) : <<k + 1, j>> \in Places
    <2>1. \A j \in 1..Len(os) : <<k + 1, j>> \in Nat \X Nat /\ k + 1 \in 1..Len(input.options)
      BY <1>2, PlacesRight
    <2> QED  BY <2>1, PlacesRight DEF UpTo
  <1> DEFINE T == {j \in Nat : j <= Len(os) => HasData(after[j]) /\ DataOfLast(after[j], P(j))}
  <1>4. 0 \in T
    <2>1. P(0) = UpTo(k)
      OBVIOUS
    <2> QED  BY <1>1, <2>1
  <1>5. ASSUME NEW j \in Nat, j \in T  PROVE j + 1 \in T
    <2>1. SUFFICES ASSUME j + 1 <= Len(os)
                   PROVE  HasData(after[j + 1]) /\ DataOfLast(after[j + 1], P(j + 1))
      OBVIOUS
    <2> DEFINE p == <<k + 1, j + 1>>
    <2>2. j + 1 \in 1..Len(os) /\ (j + 1) - 1 = j /\ j <= Len(os)
      BY <1>2, <2>1
    <2>3. HasData(after[j]) /\ DataOfLast(after[j], P(j))
      BY <1>5, <2>2
    <2>4. after[j + 1] = Apply(after[j], OptionAt(p))
      BY <1>1, <2>2 DEF OptionAt
    <2>5. P(j) \in SUBSET (Nat \X Nat) /\ p \in Nat \X Nat /\ OptionAt(p)[1] \in OptionNames
      BY <1>3, <2>2, PlacesRight
    <2>6. ASSUME NEW q \in P(j)  PROVE Before(q, p)
      <3>1. CASE q \in UpTo(k)
        <4>1. q[1] <= k /\ q[1] \in Nat
          BY <1>3, <3>1
        <4> QED  BY <4>1 DEF Before
      <3>2. CASE q \in {<<k + 1, i>> : i \in 1..j}
        BY <3>2 DEF Before
      <3> QED  BY <3>1, <3>2
    <2>7. P(j + 1) = P(j) \cup {p}
      <3>1. 1..j + 1 = (1..j) \cup {j + 1}
        OBVIOUS
      <3> QED  BY <3>1
    <2> HIDE DEF P, p
    <2>8. HasData(Apply(after[j], OptionAt(p)))
          /\ DataOfLast(Apply(after[j], OptionAt(p)), P(j) \cup {p})
      BY <2>3, <2>5, <2>6, DataStep
    <2> QED  BY <2>4, <2>7, <2>8
  <1>6. Len(os) \in T
    <2> HIDE DEF T
    <2> QED  BY <1>2, <1>4, <1>5, InductionOnSet
  <1>7. P(Len(os)) = UpTo(k + 1)
    <2>1. ASSUME NEW q \in P(Len(os))  PROVE q \in UpTo(k + 1)
      BY <1>3 DEF UpTo
    <2>2. ASSUME NEW q \in UpTo(k + 1)  PROVE q \in P(Len(os))
      <3>1. q \in Places /\ q \in Nat \X Nat /\ q[1] <= k + 1
        BY PlacesRight DEF UpTo
      <3>2. CASE q[1] = k + 1
        <4>1. q[2] \in 1..Len(os) /\ q = <<k + 1, q[2]>>
          BY <3>1, <3>2, PlacesRight
        <4> QED  BY <4>1
      <3>3. CASE q[1] # k + 1
        <4>1. q[1] <= k
          BY <3>1, <3>3
        <4> QED  BY <3>1, <4>1 DEF UpTo
      <3> QED  BY <3>2, <3>3
    <2> HIDE DEF P
    <2> QED  BY <2>1, <2>2
  <1> HIDE DEF P
  <1> QED  BY <1>1, <1>2, <1>6, <1>7

\* The data is that of the last of the options applied so far.
DataInv ==
    /\ HasData(cfg) /\ DataOfLast(cfg, UpTo(applied))
    /\ stage \in {"fixup", "accepted", "ticker"} => applied = Len(input.options)

LEMMA DataInit == SetupInit => DataInv
  <1> SUFFICES ASSUME SetupInit  PROVE DataInv
    OBVIOUS
  <1>1. SetupInv
    BY SetupInit1
  <1>2. cfg = Defaults /\ applied = 0
    BY DEF SetupInit
  <1>3. HasData(Defaults) /\ Defaults.data = "" /\ Defaults.binary = FALSE
        /\ Defaults.dataFunc = ""
    BY DEF HasData, Defaults
  <1>4. UpTo(0) = {}
    BY <1>1, PlacesRight DEF UpTo
  <1>5. \A names : LastOf({}, names) = <<"none", "">>
    BY DEF LastOf
  <1>6. DataOfLast(Defaults, {})
    <2>1. "none" \notin BinaryDataOptions \cup {"WithBinaryDataFunc"}
      BY DEF BinaryDataOptions
    <2>2. <<"none", "">>[1] = "none" /\ <<"none", "">>[2] = ""
      OBVIOUS
    <2>3. Follows(Defaults, <<"none", "">>, <<"none", "">>, <<"none", "">>)
      <3>1. ("none" \in BinaryDataOptions \cup {"WithBinaryDataFunc"}) = FALSE
        BY <2>1
      <3> DEFINE none == <<"none", "">>
      <3>2. none[1] = "none" /\ none[2] = ""
        BY <2>2
      <3> HIDE DEF none
      <3>3. Follows(Defaults, none, none, none)
        BY <1>3, <2>1, <3>1, <3>2, Zenon DEF Follows
      <3> QED  BY <3>3 DEF none
    <2>4. /\ LastOf({}, Data) = <<"none", "">> /\ LastOf({}, DataOptions) = <<"none", "">>
          /\ LastOf({}, {"WithBinaryDataFunc"}) = <<"none", "">>
      BY <1>5
    <2> QED  BY <2>3, <2>4 DEF DataOfLast
  <1>7. stage = "fixup" => input.options = <<>>
    BY DEF SetupInit
  <1>8. stage \in {"apply", "fixup"}
    BY DEF SetupInit
  <1> QED  BY <1>2, <1>3, <1>4, <1>6, <1>7, <1>8 DEF DataInv

LEMMA DataNext ==
    ASSUME SetupInv, DataInv, [SetupNext]_allVars
    PROVE  DataInv'
  <1>1. ASSUME input' = input, NEW c, NEW k, DataOfLast(c, UpTo(k)), cfg' = c, applied' = k
        PROVE  DataOfLast(cfg, UpTo(applied))'
    <2>1. \A P, names : LastOf(P, names)' = LastOf(P, names)
      BY <1>1 DEF LastOf, OptionAt
    <2>2. UpTo(applied)' = UpTo(k)
      BY <1>1 DEF UpTo, Places
    <2> QED  BY <1>1, <2>1, <2>2, Zenon DEF DataOfLast, Follows
  <1>2. CASE ApplyNext
    <2> DEFINE o == input.options[applied + 1]
    <2>1. /\ stage = "apply" /\ input' = input
          /\ \/ stage' = "refused" /\ applied' = applied /\ cfg' = cfg
             \/ /\ cfg' = ApplyOption(cfg, o) /\ applied' = applied + 1
                /\ stage' = IF applied + 1 = Len(input.options) THEN "fixup" ELSE "apply"
      BY <1>2 DEF ApplyNext
    <2>2. applied \in Nat /\ applied + 1 <= Len(input.options)
      BY <2>1, OptionsTyped DEF SetupInv
    <2>3. HasData(ApplyOption(cfg, o)) /\ DataOfLast(ApplyOption(cfg, o), UpTo(applied + 1))
      BY <2>2, DataOptionStep DEF DataInv
    <2> HIDE DEF o
    <2>4. HasData(cfg)' /\ DataOfLast(cfg, UpTo(applied))'
      <3>1. CASE applied' = applied /\ cfg' = cfg
        BY <1>1, <2>1, <3>1 DEF DataInv, HasData
      <3>2. CASE cfg' = ApplyOption(cfg, o) /\ applied' = applied + 1
        BY <1>1, <2>1, <2>3, <3>2 DEF HasData
      <3> QED  BY <2>1, <3>1, <3>2
    <2>5. stage' \in {"fixup", "accepted", "ticker"} => applied' = Len(input'.options)
      BY <2>1
    <2> QED  BY <2>4, <2>5 DEF DataInv
  <1>3. CASE FixUp
    <2> DEFINE c == FixedUp(cfg, input.call, input.host)
    <2>1. /\ stage = "fixup" /\ input' = input /\ applied' = applied
          /\ cfg' = c \/ cfg' = Checked(c)
      BY <1>3 DEF FixUp
    <2>2. ASSUME NEW d, HasData(d), NEW call, NEW host
          PROVE  /\ HasData(FixedUp(d, call, host)) /\ HasData(Checked(d))
                 /\ \A f \in {"data", "binary", "dataFunc"} :
                       FixedUp(d, call, host)[f] = d[f] /\ Checked(d)[f] = d[f]
      BY <2>2 DEF FixedUp, Addressed, WithDuration, Checked, HasData
    <2>3. /\ HasData(cfg')
          /\ \A f \in {"data", "binary", "dataFunc"} : cfg'[f] = cfg[f]
      <3>1. HasData(c) /\ \A f \in {"data", "binary", "dataFunc"} : c[f] = cfg[f]
        <4>1. HasData(cfg)
          BY DEF DataInv
        <4> QED  BY <2>2, <4>1
      <3> HIDE DEF c
      <3> QED  BY <2>1, <2>2, <3>1
    <2>4. /\ cfg'.data = cfg.data /\ cfg'.binary = cfg.binary
          /\ cfg'.dataFunc = cfg.dataFunc
      BY <2>3
    <2>5. DataOfLast(cfg', UpTo(applied))
      BY <2>4, Zenon DEF DataInv, DataOfLast, Follows
    <2>6. DataOfLast(cfg, UpTo(applied))'
      BY <1>1, <2>1, <2>5
    <2> QED  BY <2>1, <2>3, <2>6 DEF DataInv, HasData
  <1>4. CASE CreateTicker \/ Ticking \/ UNCHANGED allVars
    <2>1. UNCHANGED <<input, applied, cfg>> /\ (stage' = stage \/ stage = "accepted")
      BY <1>4 DEF CreateTicker, Ticking, setup, allVars
    <2>2. DataOfLast(cfg, UpTo(applied))'
      BY <1>1, <2>1 DEF DataInv
    <2> QED  BY <2>1, <2>2 DEF DataInv, HasData
  <1> QED  BY <1>2, <1>3, <1>4 DEF SetupNext

\* A configuration that has what the last options give is used as they ask.
LEMMA UsedAsGiven ==
    ASSUME NEW c, NEW places, DataOfLast(c, places)
    PROVE  DataUsed(c) = DataGiven(places)
  <1> DEFINE data == LastOf(places, Data)
             any == LastOf(places, DataOptions)
             fn == LastOf(places, {"WithBinaryDataFunc"})
  <1>1. /\ c.data = data[2] /\ c.dataFunc = fn[2]
        /\ c.binary = (any[1] \in BinaryDataOptions \cup {"WithBinaryDataFunc"})
    BY Zenon DEF DataOfLast, Follows
  <1>2. DataGiven(places)
          = IF any[1] \notin BinaryDataOptions \cup {"WithBinaryDataFunc"}
            THEN <<"JSON", data[2]>>
            ELSE IF fn[2] # "" THEN <<"function", fn[2]>> ELSE <<"binary", data[2]>>
    BY DEF DataGiven, Data, DataOptions
  <1> HIDE DEF data, any, fn
  <1>3. CASE any[1] \in BinaryDataOptions \cup {"WithBinaryDataFunc"}
    <2>1. c.binary
      BY <1>1, <1>3, Zenon
    <2>2. DataUsed(c) = IF c.dataFunc # "" THEN <<"function", c.dataFunc>>
                        ELSE <<"binary", c.data>>
      BY <2>1, Zenon DEF DataUsed
    <2>3. DataGiven(places) = IF fn[2] # "" THEN <<"function", fn[2]>>
                              ELSE <<"binary", data[2]>>
      BY <1>2, <1>3, Zenon
    <2> QED  BY <1>1, <2>2, <2>3, Zenon
  <1>4. CASE any[1] \notin BinaryDataOptions \cup {"WithBinaryDataFunc"}
    <2>1. ~c.binary
      BY <1>1, <1>4, Zenon
    <2>2. DataUsed(c) = <<"JSON", c.data>>
      BY <2>1, Zenon DEF DataUsed
    <2>3. DataGiven(places) = <<"JSON", data[2]>>
      BY <1>2, <1>4, Zenon
    <2> QED  BY <1>1, <2>2, <2>3, Zenon
  <1> QED  BY <1>3, <1>4

\* Whatever options and configurations gave data before it: a run is made with the
\* data of the last that gives any, in the encoding that one says; but once a data
\* function is given, it is what binary data is taken from, whatever binary data is
\* given after it.
THEOREM DataCorrect == SetupSpec => []LastDataIsUsed
  <1>1. SetupInv /\ DataInv /\ [SetupNext]_allVars => DataInv'
    BY DataNext
  <1>2. ASSUME SetupInv, DataInv  PROVE LastDataIsUsed
    <2>1. SUFFICES ASSUME stage = "accepted"  PROVE DataUsed(cfg) = DataGiven(Places)
      BY DEF LastDataIsUsed
    <2>2. applied = Len(input.options)
      BY <1>2, <2>1 DEF DataInv
    <2>3. UpTo(applied) = Places
      BY <1>2, <2>2, PlacesRight DEF UpTo
    <2>4. DataOfLast(cfg, Places)
      BY <1>2, <2>3 DEF DataInv
    <2> QED  BY <2>4, UsedAsGiven
  <1> QED  BY DataInit, SetupCorrect, <1>1, <1>2, PTL DEF SetupSpec

-----------------------------------------------------------------------------
(* The ticker goroutine *)

\* The ticker goroutine sends a value with Done as its last step.
DoneInv ==
    /\ phase \in {"start", "loop", "finished", "panic"}
    /\ doneSent => phase = "finished"
    /\ stage # "ticker" => phase = "start"

\* A value that was sent with Done leaves the goroutine at its end, on an open
\* channel; on a closed one it is not sent.
LEMMA SendStep ==
    ASSUME NEW delta, NEW done \in BOOLEAN, NEW next \in {"loop", "finished"},
           done <=> next = "finished", ~doneSent, Send(delta, done, next)
    PROVE  /\ phase' \in {"loop", "finished", "panic"}
           /\ doneSent' => phase' = "finished"
  BY DEF Send

LEMMA DoneStep ==
    ASSUME DoneInv, [SetupNext]_allVars
    PROVE  /\ DoneInv'
           /\ doneSent => UNCHANGED workers /\ phase' # "panic"
  <1>1. CASE ApplyNext \/ FixUp \/ CreateTicker
    <2>1. UNCHANGED <<phase, workers, doneSent>> /\ stage # "ticker"
      <3>1. CASE ApplyNext
        BY <3>1 DEF ApplyNext, vars
      <3>2. CASE FixUp
        BY <3>2 DEF FixUp, vars
      <3>3. CASE CreateTicker
        BY <3>3 DEF CreateTicker
      <3> QED  BY <1>1, <3>1, <3>2, <3>3
    <2> QED  BY <2>1 DEF DoneInv
  <1>2. CASE Ticking /\ Start
    <2>1. ~doneSent /\ stage = "ticker" /\ stage' = "ticker"
      BY <1>2 DEF Ticking, setup, Start, DoneInv
    <2>2. \/ phase' = "panic" /\ doneSent' = doneSent
          \/ Send(par.start, TRUE, "finished")
          \/ Send(par.start, FALSE, "loop")
      BY <1>2 DEF Start
    <2>3. phase' \in {"loop", "finished", "panic"} /\ (doneSent' => phase' = "finished")
      <3>1. CASE phase' = "panic" /\ doneSent' = doneSent
        BY <2>1, <3>1
      <3>2. CASE Send(par.start, TRUE, "finished") \/ Send(par.start, FALSE, "loop")
        BY <2>1, <3>2, SendStep
      <3> QED  BY <2>2, <3>1, <3>2
    <2> QED  BY <2>1, <2>3 DEF DoneInv
  <1>3. CASE Ticking /\ Tick
    <2>1. ~doneSent /\ stage = "ticker" /\ stage' = "ticker"
      BY <1>3 DEF Ticking, setup, Tick, DoneInv
    <2>2. \/ Send(FinalDiff, TRUE, "finished")
          \/ Send(0, TRUE, "finished")
          \/ Send(par.step, FALSE, "loop")
      BY <1>3 DEF Tick
    <2>3. phase' \in {"loop", "finished", "panic"} /\ (doneSent' => phase' = "finished")
      BY <2>1, <2>2, SendStep
    <2> QED  BY <2>1, <2>3 DEF DoneInv
  <1>4. CASE Ticking /\ Finish
    BY <1>4 DEF Ticking, setup, Finish, DoneInv
  <1>5. CASE UNCHANGED allVars
    BY <1>5 DEF allVars, vars, setup, DoneInv
  <1> QED  BY <1>1, <1>2, <1>3, <1>4, <1>5 DEF SetupNext, Ticking, Next

\* Whatever options made the ticker: once a value with Done is sent the number of
\* workers stays, and no later Finish makes the goroutine send on a closed channel.
THEOREM DoneCorrect == SetupSpec => DoneIsLast
  <1>1. SetupInit => DoneInv
    BY DEF SetupInit, Init, DoneInv
  <1>2. DoneInv /\ [SetupNext]_allVars => DoneInv'
    BY DoneStep
  <1>3. DoneInv /\ [SetupNext]_allVars
        => [doneSent => UNCHANGED workers /\ phase' # "panic"]_vars
    BY DoneStep
  <1> QED  BY <1>1, <1>2, <1>3, PTL DEF SetupSpec, DoneIsLast

-----------------------------------------------------------------------------
(* Where the ticker ends *)

\* No count of workers is beyond half the range of uint, so that none is negative as
\* an int.
CountsFit == 2 * par.start < UintSize /\ 2 * par.stop < UintSize

\* While it loops the ticker has taken some whole steps, fewer than have passed, and
\* as many workers are active, or none when the count is negative.  Without a
\* maximum, it has not gone past a Stop that whole steps lead to.
LoopOK ==
    phase = "loop" =>
        /\ par.kind # "const"
        /\ \E k \in 0..now : wc = par.start + k * par.step
        /\ workers = IF wc < 0 THEN 0 ELSE wc
        /\ par.max = 0 /\ par.stop > 0 /\ Aligned =>
              \E m \in Nat : par.stop - wc = m * par.step

EndInv ==
    /\ now \in Nat
    /\ phase \in {"start", "loop", "finished", "panic"}
    /\ phase = "start" => now = 0 /\ workers = 0
    /\ LoopOK
    /\ EndsAtStop

\* A difference that is divided into whole parts, of its sign.
LEMMA WholeParts ==
    ASSUME NEW d \in Int, NEW n \in Nat \ {0}, d % n = 0
    PROVE  \E m \in Int : d = m * n /\ (d >= 0 => m >= 0) /\ (d <= 0 => m <= 0)
  <1> DEFINE m == d \div n
  <1>1. m \in Int /\ d = n * m + (d % n)
    OBVIOUS
  <1> HIDE DEF m
  <1>2. d = m * n
    BY <1>1
  <1>3. (d >= 0 => m >= 0) /\ (d <= 0 => m <= 0)
    BY <1>1, <1>2
  <1> QED  BY <1>1, <1>2, <1>3

\* The first value starts the workers; Stop is whole steps away if they lead there.
LEMMA StartsAligned ==
    ASSUME par \in Tickers, Aligned
    PROVE  \E m \in Nat : par.stop - par.start = m * par.step
  <1>1. par.start \in Nat /\ par.stop \in Nat /\ par.step \in Int \ {0}
    BY DEF Tickers
  <1>2. CASE StepUp
    <2>1. /\ par.stop - par.start \in Nat /\ par.step \in Nat \ {0}
          /\ (par.stop - par.start) % par.step = 0
      BY <1>1, <1>2 DEF Aligned, StepUp
    <2>2. PICK m \in Int : par.stop - par.start = m * par.step /\ m >= 0
      <3> DEFINE d == par.stop - par.start
                 n == par.step
      <3>1. d \in Int /\ d >= 0 /\ n \in Nat \ {0} /\ d % n = 0
        BY <2>1
      <3> HIDE DEF d, n
      <3>2. \E m \in Int : d = m * n /\ m >= 0
        BY <3>1, WholeParts
      <3> QED  BY <3>2 DEF d, n
    <2> QED  BY <2>2
  <1>3. CASE ~StepUp
    <2>1. /\ par.stop - par.start \in Int /\ par.stop - par.start <= 0
          /\ -par.step \in Nat \ {0}
          /\ (par.stop - par.start) % (-par.step) = 0
      BY <1>1, <1>3 DEF Aligned, StepUp
    <2>2. PICK m \in Int : par.stop - par.start = m * (-par.step) /\ m <= 0
      <3> DEFINE d == par.stop - par.start
                 n == -par.step
      <3>1. d \in Int /\ d <= 0 /\ n \in Nat \ {0} /\ d % n = 0
        BY <2>1
      <3> HIDE DEF d, n
      <3>2. \E m \in Int : d = m * n /\ m <= 0
        BY <3>1, WholeParts
      <3> QED  BY <3>2 DEF d, n
    <2>3. -m \in Nat /\ par.stop - par.start = (-m) * par.step
      BY <1>1, <2>2
    <2> QED  BY <2>3
  <1> QED  BY <1>2, <1>3

\* The final difference, unsigned and back, is the way that is left.
LEMMA FinalDiffRight ==
    ASSUME par \in Tickers, CountsFit, wc \in Int, par.stop > 0,
           UintSize \in Nat \ {0},
           IF StepUp THEN wc <= par.stop /\ wc >= 0 ELSE wc >= par.stop /\ wc <= par.start
    PROVE  FinalDiff = par.stop - wc
  <1>1. par.start \in Nat /\ par.stop \in Nat
    BY DEF Tickers
  <1>2. wc \in Nat /\ 2 * wc < UintSize /\ wc < UintSize
    BY <1>1 DEF CountsFit
  <1>3. ToUint(wc) = wc
    BY <1>2 DEF ToUint
  <1>4. HasFinalDiff
    BY <1>1, <1>3 DEF HasFinalDiff
  <1> DEFINE d == par.stop - wc
  <1>5. /\ d \in Int /\ 2 * d < UintSize /\ -(2 * d) < UintSize
        /\ d < UintSize /\ -d < UintSize
    BY <1>1, <1>2 DEF CountsFit
  <1>6. ToInt(ToUint(d)) = d
    <2> HIDE DEF d
    <2>1. CASE d >= 0
      <3>1. d % UintSize = d
        BY <1>5, <2>1
      <3> QED  BY <1>5, <2>1, <3>1 DEF ToUint, ToInt
    <2>2. CASE d < 0
      <3>1. d % UintSize = d + UintSize
        BY <1>5, <2>2
      <3> QED  BY <1>5, <2>2, <3>1 DEF ToUint, ToInt
    <2> QED  BY <1>5, <2>1, <2>2
  <1> QED  BY <1>3, <1>4, <1>6 DEF FinalDiff

\* A number of whole steps is still one when time has gone on.
LEMMA LaterStep ==
    ASSUME NEW a \in Nat, NEW b \in Nat, a <= b - 1, NEW i \in 0..a
    PROVE  i + 1 \in 0..b /\ i \in 0..(b - 1)
OBVIOUS

LEMMA EndStep ==
    ASSUME SetupInv, DoneInv, CountsFit, EndInv, [SetupNext]_allVars
    PROVE  EndInv'
  <1>0. /\ par.start \in Nat /\ par.stop \in Nat /\ par.step \in Int \ {0} /\ par.max \in Int
        /\ par.kind \in {"const", "step", "line"} /\ UintSize \in Nat \ {0}
        /\ MaxLate \in Nat
    BY WorkerTickerAssumption DEF SetupInv, Tickers, WorkerTickerAssumption
  <1>1. CASE ApplyNext \/ FixUp
    <2>1. UNCHANGED vars
      BY <1>1 DEF ApplyNext, FixUp
    <2> QED  BY <2>1 DEF vars, EndInv, LoopOK, EndsAtStop, AlignedEndsAtStop, Aligned, StepUp,
                         MaxDurationEndsAtStop
  <1>2. CASE CreateTicker
    <2>1. phase = "start" /\ UNCHANGED <<phase, now, wc, workers>>
      BY <1>2 DEF CreateTicker, DoneInv
    <2> QED  BY <2>1 DEF EndInv, LoopOK, EndsAtStop, AlignedEndsAtStop, MaxDurationEndsAtStop
  <1>3. CASE Ticking /\ Start
    <2>1. phase = "start" /\ par' = par /\ now' = now /\ now = 0 /\ workers = 0
      BY <1>3 DEF Ticking, Start, EndInv
    <2>2. \/ phase' = "panic"
          \/ phase' = "finished" /\ par.kind = "const"
          \/ /\ phase' = "loop" /\ par.kind # "const" /\ workers' = Applied(par.start)
             /\ wc' = par.start
      BY <1>3 DEF Ticking, Start, Send
    <2>3. LoopOK'
      <3> SUFFICES ASSUME phase' = "loop"  PROVE LoopOK'
        BY DEF LoopOK
      <3>1. par.kind # "const" /\ workers' = par.start /\ wc' = par.start
        BY <1>0, <2>1, <2>2 DEF Applied
      <3>2. 0 \in 0..now' /\ wc' = par.start + 0 * par.step
        BY <1>0, <2>1, <3>1
      <3>3. Aligned' = Aligned
        BY <2>1 DEF Aligned, StepUp
      <3>4. Aligned => \E m \in Nat : par.stop - wc' = m * par.step
        BY <3>1, StartsAligned DEF SetupInv
      <3> QED  BY <1>0, <2>1, <3>1, <3>2, <3>3, <3>4 DEF LoopOK
    <2>4. EndsAtStop'
      BY <2>1, <2>2 DEF EndsAtStop, AlignedEndsAtStop, MaxDurationEndsAtStop
    <2> QED  BY <2>1, <2>2, <2>3, <2>4 DEF EndInv
  <1>4. CASE Ticking /\ Tick
    <2>1. PICK late \in 0..MaxLate :
             LET t == now + 1 + late
             IN  /\ now' = t
                 /\ IF Elapsed(t) THEN Send(FinalDiff, TRUE, "finished") /\ wc' = wc
                    ELSE IF Reached THEN Send(0, TRUE, "finished") /\ wc' = wc
                    ELSE Send(par.step, FALSE, "loop") /\ wc' = wc + par.step
      BY <1>4 DEF Ticking, Tick
    <2>2. /\ phase = "loop" /\ par' = par /\ now \in Nat /\ now' \in Nat /\ now <= now' - 1
      BY <1>0, <1>4, <2>1 DEF Ticking, Tick, EndInv
    <2>3. PICK k \in 0..now : wc = par.start + k * par.step
      BY <2>2 DEF EndInv, LoopOK
    <2>4. /\ wc \in Int /\ workers = IF wc < 0 THEN 0 ELSE wc
          /\ par.kind # "const" /\ Aligned' = Aligned /\ StepUp' = StepUp
          /\ StepUp => wc >= par.start
          /\ ~StepUp => wc <= par.start
      <3>1. k \in Nat /\ k * par.step \in Int
        BY <1>0, <2>2, <2>3
      <3>2. wc \in Int
        BY <1>0, <2>3, <3>1
      <3>3. (par.step > 0 => k * par.step >= 0) /\ (~(par.step > 0) => k * par.step <= 0)
        BY <1>0, <3>1
      <3> QED  BY <1>0, <2>2, <2>3, <3>1, <3>2, <3>3 DEF EndInv, LoopOK, Aligned, StepUp
    <2>5. CASE phase' = "loop"
      <3>1. /\ ~Reached /\ wc' = wc + par.step /\ workers' = Applied(par.step)
        BY <2>1, <2>5 DEF Send
      <3>2. workers' = IF wc' < 0 THEN 0 ELSE wc'
        BY <1>0, <2>4, <3>1 DEF Applied, StepUp
      <3>3. k + 1 \in 0..now' /\ wc' = par.start + (k + 1) * par.step
        <4>1. k \in 0..now
          OBVIOUS
        <4>2. k + 1 \in 0..now'
          BY <2>2, <4>1, LaterStep
        <4>3. k * par.step \in Int /\ (k + 1) * par.step = k * par.step + par.step
          BY <1>0, <2>2, <4>1
        <4> QED  BY <1>0, <2>3, <3>1, <4>2, <4>3
      <3>4. ASSUME par.max = 0, par.stop > 0, Aligned
            PROVE  \E m \in Nat : par.stop - wc' = m * par.step
        <4>1. PICK m \in Nat : par.stop - wc = m * par.step
          BY <2>2, <3>4 DEF EndInv, LoopOK
        <4>2. m # 0
          <5>1. par.stop # wc
            BY <1>0, <2>4, <3>1, <3>4 DEF Reached
          <5> QED  BY <1>0, <2>4, <4>1, <5>1
        <4>3. m - 1 \in Nat /\ par.stop - wc' = (m - 1) * par.step
          BY <1>0, <2>4, <3>1, <4>1, <4>2
        <4> QED  BY <4>3
      <3>5. LoopOK'
        BY <2>2, <2>4, <3>2, <3>3, <3>4 DEF LoopOK
      <3> QED
        BY <2>2, <2>5, <3>5 DEF EndInv, EndsAtStop, AlignedEndsAtStop, MaxDurationEndsAtStop
    <2>6. CASE phase' = "finished"
      <3>1. \/ Elapsed(now') /\ workers' = Applied(FinalDiff)
            \/ ~Elapsed(now') /\ Reached /\ workers' = Applied(0)
        BY <2>1, <2>6 DEF Send
      <3>2. AlignedEndsAtStop'
        <4> SUFFICES ASSUME par.max = 0, par.stop > 0, Aligned  PROVE workers' = par.stop
          BY <2>2, <2>4 DEF AlignedEndsAtStop
        <4>1. PICK m \in Nat : par.stop - wc = m * par.step
          BY <2>2 DEF EndInv, LoopOK
        <4>2. Reached /\ workers' = Applied(0)
          BY <3>1 DEF Elapsed
        <4>3. wc = par.stop
          <5>1. IF StepUp THEN wc >= par.stop ELSE wc <= par.stop
            BY <4>2 DEF Reached
          <5>2. CASE StepUp
            <6>1. m * par.step >= 0
              BY <1>0, <5>2 DEF StepUp
            <6> QED  BY <1>0, <2>4, <4>1, <5>1, <5>2, <6>1
          <5>3. CASE ~StepUp
            <6>1. m * par.step <= 0
              BY <1>0, <5>3 DEF StepUp
            <6> QED  BY <1>0, <2>4, <4>1, <5>1, <5>3, <6>1
          <5> QED  BY <5>2, <5>3
        <4> QED  BY <1>0, <2>4, <4>2, <4>3 DEF Applied
      <3>3. MaxDurationEndsAtStop'
        <4> SUFFICES ASSUME par.max > 0, par.stop > 0,
                            \A n \in 0..now' - 1 :
                                IF StepUp THEN par.start + n * par.step <= par.stop
                                          ELSE par.start + n * par.step >= par.stop
                     PROVE  workers' = par.stop
          BY <2>2, <2>4 DEF MaxDurationEndsAtStop
        <4>1. IF StepUp THEN wc <= par.stop ELSE wc >= par.stop
          <5>1. k \in 0..now' - 1
            <6>1. k \in 0..now
              OBVIOUS
            <6> QED  BY <2>2, <6>1, LaterStep
          <5> QED  BY <2>3, <5>1
        <4>2. workers' = Applied(FinalDiff)
          BY <1>0, <3>1 DEF Reached
        <4>3. FinalDiff = par.stop - wc
          <5>1. IF StepUp THEN wc <= par.stop /\ wc >= 0 ELSE wc >= par.stop /\ wc <= par.start
            BY <1>0, <2>4, <4>1
          <5> QED  BY <1>0, <2>4, <5>1, FinalDiffRight DEF SetupInv
        <4>4. wc >= 0
          BY <1>0, <2>4, <4>1
        <4> QED  BY <1>0, <2>4, <4>2, <4>3, <4>4 DEF Applied
      <3> QED  BY <2>2, <2>6, <3>2, <3>3 DEF EndInv, LoopOK, EndsAtStop
    <2>7. phase' \in {"loop", "finished", "panic"}
      BY <2>1 DEF Send
    <2>8. CASE phase' = "panic"
      BY <2>2, <2>8 DEF EndInv, LoopOK, EndsAtStop, AlignedEndsAtStop, MaxDurationEndsAtStop
    <2> QED  BY <2>5, <2>6, <2>7, <2>8
  <1>5. CASE Ticking /\ Finish
    <2>1. /\ UNCHANGED <<par, now, wc, workers>>
          /\ phase' = phase \/ phase' = "panic"
      BY <1>5 DEF Ticking, Finish
    <2> QED  BY <2>1 DEF EndInv, LoopOK, EndsAtStop, AlignedEndsAtStop, Aligned, StepUp,
                         MaxDurationEndsAtStop
  <1>6. CASE UNCHANGED allVars
    BY <1>6 DEF allVars, vars, EndInv, LoopOK, EndsAtStop, AlignedEndsAtStop, Aligned, StepUp,
                MaxDurationEndsAtStop
  <1> QED
    BY <1>1, <1>2, <1>3, <1>4, <1>5, <1>6 DEF SetupNext, Ticking, Next

LEMMA DoneInvCorrect == SetupSpec => []DoneInv
  <1>1. SetupInit => DoneInv
    BY DEF SetupInit, Init, DoneInv
  <1> QED  BY <1>1, DoneStep, PTL DEF SetupSpec

\* The schedule ends with the number of workers it was asked to end with, for every
\* start, stop, step and duration that int and uint both hold: at Stop when whole
\* steps lead there, and at Stop with the value that makes up the difference when
\* the time is over first, however late the ticks are.
THEOREM EndsCorrect == SetupSpec /\ []CountsFit => []EndsAtStop
  <1>1. SetupInit => EndInv
    BY DEF SetupInit, Init, EndInv, LoopOK, EndsAtStop, AlignedEndsAtStop, MaxDurationEndsAtStop
  <1>2. SetupInv /\ DoneInv /\ CountsFit /\ EndInv /\ [SetupNext]_allVars => EndInv'
    BY EndStep
  <1>3. EndInv => EndsAtStop
    BY DEF EndInv
  <1> QED  BY SetupCorrect, DoneInvCorrect, <1>1, <1>2, <1>3, PTL DEF SetupSpec

=============================================================================
