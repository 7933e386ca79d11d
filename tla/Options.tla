------------------------------- MODULE Options -------------------------------
(***************************************************************************)
(* The options of a run (runner/options.go): NewConfig applies them, one   *)
(* after the other, to its defaults, then fixes up and checks the outcome. *)
(*                                                                         *)
(* An option is a pair <<name, value>>.  Files, messages, functions and    *)
(* names are tokens; sampling rates are percentages; a certificate stands  *)
(* for its key as well.  A configuration is the record of RunConfig with   *)
(* the other fields of the code's RunConfig; cfg.load and cfg.conc are its *)
(* two schedules.                                                          *)
(***************************************************************************)
EXTENDS RunConfig, Sequences

\* A file that cannot be read or parsed, data that cannot be marshalled.
Unreadable == "unreadable"

NoSchedule == [schedule |-> "", start |-> 0, end |-> 0, step |-> 0,
               stepDuration |-> 0, duration |-> 0]

\* What NewConfig starts from; durations are in seconds.
Defaults ==
    [n |-> 200, c |-> 50, rps |-> 0, nConns |-> 1, z |-> 0, skipFirst |-> 0, async |-> FALSE,
     load |-> [NoSchedule EXCEPT !.schedule = "const"], conc |-> NoSchedule,
     timeout |-> 20, dialTimeout |-> 10, keepaliveTime |-> 0, zstop |-> "close",
     call |-> "", host |-> "", proto |-> "", importPaths |-> <<>>, protoset |-> "",
     protosetBinary |-> "", rmd |-> "", enableCompression |-> FALSE,
     defaultCallOptions |-> "", initialWindowSize |-> 0, initialConnWindowSize |-> 0,
     lbStrategy |-> "", cert |-> "", cacert |-> "", cname |-> "", authority |-> "",
     skipVerify |-> FALSE, insecure |-> FALSE,
     data |-> "", binary |-> FALSE, dataFunc |-> "", metadata |-> "",
     dataProviderFunc |-> "", mdProviderFunc |-> "", dataStreamFunc |-> "",
     recvMsgFunc |-> "", streamInterceptorProviderFunc |-> "", pacer |-> "",
     workerTicker |-> "", streamInterval |-> 0, streamCallDuration |-> 0,
     streamCallCount |-> 0, dynamic |-> FALSE, funcs |-> "", log |-> "",
     disableTemplateFuncs |-> FALSE, disableTemplateData |-> FALSE,
     name |-> "", tags |-> "", cpus |-> 8, maxResults |-> 100000000,
     countErrors |-> FALSE, p99_9 |-> FALSE, dataSamplingRate |-> 0]

-----------------------------------------------------------------------------
(* The options that store their value, with the field they store it in     *)

SecurityOptions ==
    [WithCertificate |-> "cert", WithServerNameOverride |-> "cname",
     WithAuthority |-> "authority", WithRootCertificate |-> "cacert",
     WithInsecure |-> "insecure", WithSkipTLSVerify |-> "skipVerify"]

CountOptions ==
    [WithTotalRequests |-> "n", WithConcurrency |-> "c", WithRPS |-> "rps",
     WithRunDuration |-> "z"]

TimeoutOptions ==
    [WithTimeout |-> "timeout", WithDialTimeout |-> "dialTimeout",
     WithKeepalive |-> "keepaliveTime"]

TransportOptions ==
    [WithClientLoadBalancing |-> "lbStrategy", WithInitialWindowSize |-> "initialWindowSize",
     WithInitialConnWindowSize |-> "initialConnWindowSize"]

ReportOptions ==
    [WithTags |-> "tags", WithCountErrors |-> "countErrors", WithP99_9 |-> "p99_9",
     WithDataSamplingRate |-> "dataSamplingRate"]

SourceOptions ==
    [WithProtoset |-> "protoset", WithProtosetBinary |-> "protosetBinary",
     WithReflectionMetadata |-> "rmd"]

StreamOptions ==
    [WithStreamInterval |-> "streamInterval", WithStreamCallDuration |-> "streamCallDuration",
     WithStreamCallCount |-> "streamCallCount", WithStreamDynamicMessages |-> "dynamic"]

ClientOptions ==
    [WithLogger |-> "log", WithTemplateFuncs |-> "funcs",
     WithEnableCompression |-> "enableCompression"]

CustomOptions ==
    [WithPacer |-> "pacer", WithWorkerTicker |-> "workerTicker",
     WithStreamRecvMsgIntercept |-> "recvMsgFunc",
     WithStreamInterceptorProviderFunc |-> "streamInterceptorProviderFunc",
     WithDataProvider |-> "dataProviderFunc", WithMetadataProvider |-> "mdProviderFunc",
     WithStreamMessageProvider |-> "dataStreamFunc",
     WithDefaultCallOptions |-> "defaultCallOptions",
     WithDisableTemplateFuncs |-> "disableTemplateFuncs",
     WithDisableTemplateData |-> "disableTemplateData"]

\* The two closures of fromConfig that have no name, and the asynchronous mode.
CallOptions == [Call |-> "call", Host |-> "host", WithAsync |-> "async"]

MetadataOptions ==
    [WithMetadataFromJSON |-> "metadata", WithMetadata |-> "metadata",
     WithMetadataFromFile |-> "metadata"]

Tables ==
    {SecurityOptions, CountOptions, TimeoutOptions, TransportOptions, ReportOptions,
     SourceOptions, StreamOptions, ClientOptions, CustomOptions, CallOptions, MetadataOptions}

Stored ==
    [name \in UNION {DOMAIN table : table \in Tables} |->
        (CHOOSE table \in Tables : name \in DOMAIN table)[name]]

\* The options that leave the default when they are given nothing.
StoredIfGiven ==
    [WithCPUs |-> "cpus", WithSkipFirst |-> "skipFirst", WithMaxResults |-> "maxResults",
     WithConnections |-> "nConns"]

\* The options of the two schedules, by the field of the schedule.
LoadOptions ==
    [WithLoadStart |-> "start", WithLoadEnd |-> "end", WithLoadStep |-> "step",
     WithLoadStepDuration |-> "stepDuration", WithLoadDuration |-> "duration"]

ConcurrencyOptions ==
    [WithConcurrencyStart |-> "start", WithConcurrencyEnd |-> "end",
     WithConcurrencyStep |-> "step", WithConcurrencyStepDuration |-> "stepDuration",
     WithConcurrencyDuration |-> "duration"]

JSONDataOptions == {"WithDataFromJSON", "WithData", "WithDataFromReader", "WithDataFromFile"}
BinaryDataOptions == {"WithBinaryData", "WithBinaryDataFromFile"}

\* Every option that is not a whole configuration.
OptionNames ==
    DOMAIN Stored \cup DOMAIN StoredIfGiven \cup DOMAIN LoadOptions
    \cup DOMAIN ConcurrencyOptions \cup JSONDataOptions \cup BinaryDataOptions
    \cup {"WithName", "WithLoadSchedule", "WithConcurrencySchedule", "WithBinaryDataFunc",
          "WithDurationStopAction", "WithProtoFile"}

-----------------------------------------------------------------------------
(* What an option does to the configuration                                *)

\* Mutant of SetData: that the data is JSON is not noted.
SetDataKeepsBinary(c, d, bin) == [c EXCEPT !.data = d, !.binary = @ \/ bin]

\* WithData and the like say what the data is; a function given by
\* WithBinaryDataFunc stays.
SetData(c, d, bin) == [c EXCEPT !.data = d, !.binary = bin]

\* Mutant of SetStopAction: an unknown action is stored.
SetAnyStopAction(c, action) == [c EXCEPT !.zstop = action]

\* An unknown action is ignored.
SetStopAction(c, action) ==
    IF action \in {"close", "wait", "ignore"} THEN [c EXCEPT !.zstop = action] ELSE c

\* The directory of the file and the current one join the import paths, which are
\* never reset.
SetProtoFile(c, p) ==
    IF p.file = "" THEN c
    ELSE [c EXCEPT !.proto = p.file,
                   !.importPaths = @ \o (IF p.dir = "." THEN <<>> ELSE <<p.dir>>)
                                     \o <<".">> \o p.importPaths]

\* Mutant of Store: skipping the verification forgets the root certificate.
StoreSkipDropsRoots(c, field, v) ==
    IF field = "skipVerify" /\ v THEN [c EXCEPT !.skipVerify = v, !.cacert = ""]
    ELSE [c EXCEPT ![field] = v]

Store(c, field, v) == [c EXCEPT ![field] = v]

\* One field of a schedule.
SetLoad(c, field, v) == Store(c, "load", [c.load EXCEPT ![field] = v])
SetConc(c, field, v) == Store(c, "conc", [c.conc EXCEPT ![field] = v])

\* A function that makes binary data goes before all other data.
SetDataFunc(c, fn) == [c EXCEPT !.dataFunc = fn, !.binary = TRUE]

\* One option, not a configuration.
Apply(c, o) ==
    LET name == o[1]  v == o[2]
    IN  CASE name \in DOMAIN Stored -> Store(c, Stored[name], v)
          [] name \in DOMAIN StoredIfGiven -> IF v > 0 THEN Store(c, StoredIfGiven[name], v) ELSE c
          [] name = "WithName" -> IF v # "" THEN Store(c, "name", v) ELSE c
          [] name \in DOMAIN LoadOptions -> SetLoad(c, LoadOptions[name], v)
          [] name \in DOMAIN ConcurrencyOptions -> SetConc(c, ConcurrencyOptions[name], v)
          [] name = "WithLoadSchedule" -> SetLoad(c, "schedule", WithSchedule(v, c.load.schedule))
          [] name = "WithConcurrencySchedule" -> SetConc(c, "schedule", WithSchedule(v, c.conc.schedule))
          [] name \in JSONDataOptions -> SetData(c, v, FALSE)
          [] name \in BinaryDataOptions -> SetData(c, v, TRUE)
          [] name = "WithBinaryDataFunc" -> SetDataFunc(c, v)
          [] name = "WithDurationStopAction" -> SetStopAction(c, v)
          [] name = "WithProtoFile" -> SetProtoFile(c, v)

\* The options that return an error for some values.
Fails(o) ==
    \/ o[1] \in JSONDataOptions \cup BinaryDataOptions \cup {"WithMetadataFromFile"}
       /\ o[2] = Unreadable
    \/ o[1] = "WithDataSamplingRate" /\ o[2] \notin 0..100
    \/ o[1] = "WithProtoFile" /\ o[2].file # "" /\ ~o[2].isProto

-----------------------------------------------------------------------------
(* A Config (runner/config.go): the fields of a configuration file         *)

\* The values a file leaves out; a reader or a caller of WithConfig leaves the
\* zero values instead.
FileDefaults ==
    [N |-> 200, C |-> 50, Connections |-> 1, ZStop |-> "close", Timeout |-> 20,
     DialTimeout |-> 10, CSchedule |-> "const", CStart |-> 1, LoadSchedule |-> "const"]

ZeroValues ==
    [Proto |-> [file |-> "", isProto |-> FALSE, dir |-> ".", importPaths |-> <<>>],
     Protoset |-> "", Call |-> "", RootCert |-> "", Cert |-> "", CountErrors |-> FALSE,
     SkipTLSVerify |-> FALSE, SkipFirst |-> 0, CName |-> "", Authority |-> "",
     Insecure |-> FALSE, N |-> 0, Async |-> FALSE, C |-> 0, CSchedule |-> "", CStart |-> 0,
     CEnd |-> 0, CStep |-> 0, CStepDuration |-> 0, CMaxDuration |-> 0, Connections |-> 0,
     RPS |-> 0, Z |-> 0, ZStop |-> "", X |-> 0, Timeout |-> 0, Data |-> "null",
     DataPath |-> "", BinData |-> "", BinDataPath |-> "", Metadata |-> "null",
     MetadataPath |-> "", SI |-> 0, StreamCallDuration |-> 0, StreamCallCount |-> 0,
     StreamDynamicMessages |-> FALSE, DialTimeout |-> 0, KeepaliveTime |-> 0, CPUs |-> 0,
     Name |-> "", Tags |-> "null", ReflectMetadata |-> "", Host |-> "",
     EnableCompression |-> FALSE, LoadSchedule |-> "", LoadStart |-> 0, LoadEnd |-> 0,
     LoadStep |-> 0, LoadStepDuration |-> 0, LoadMaxDuration |-> 0, LBStrategy |-> "",
     MaxCallMsgSize |-> "", DisableTemplateFuncs |-> FALSE, DisableTemplateData |-> FALSE,
     P99_9 |-> FALSE, DataSamplingRate |-> 0]

\* The options fromConfig makes of every configuration, in this order, with the
\* field of Config that is the value of each.
ConfigFields ==
  << <<"WithProtoFile", "Proto">>, <<"WithProtoset", "Protoset">>,
     <<"WithRootCertificate", "RootCert">>, <<"WithCertificate", "Cert">>,
     <<"WithServerNameOverride", "CName">>, <<"WithSkipTLSVerify", "SkipTLSVerify">>,
     <<"WithSkipFirst", "SkipFirst">>, <<"WithInsecure", "Insecure">>,
     <<"WithAuthority", "Authority">>, <<"WithConcurrency", "C">>,
     <<"WithTotalRequests", "N">>, <<"WithRPS", "RPS">>, <<"WithTimeout", "Timeout">>,
     <<"WithRunDuration", "Z">>, <<"WithDialTimeout", "DialTimeout">>,
     <<"WithKeepalive", "KeepaliveTime">>, <<"WithName", "Name">>, <<"WithCPUs", "CPUs">>,
     <<"WithMetadata", "Metadata">>, <<"WithTags", "Tags">>, <<"WithStreamInterval", "SI">>,
     <<"WithStreamCallDuration", "StreamCallDuration">>,
     <<"WithStreamCallCount", "StreamCallCount">>,
     <<"WithStreamDynamicMessages", "StreamDynamicMessages">>,
     <<"WithReflectionMetadata", "ReflectMetadata">>, <<"WithConnections", "Connections">>,
     <<"WithEnableCompression", "EnableCompression">>, <<"WithDurationStopAction", "ZStop">>,
     <<"WithLoadSchedule", "LoadSchedule">>, <<"WithLoadStart", "LoadStart">>,
     <<"WithLoadStep", "LoadStep">>, <<"WithLoadStepDuration", "LoadStepDuration">>,
     <<"WithLoadEnd", "LoadEnd">>, <<"WithLoadDuration", "LoadMaxDuration">>,
     <<"WithClientLoadBalancing", "LBStrategy">>, <<"WithAsync", "Async">>,
     <<"WithConcurrencySchedule", "CSchedule">>, <<"WithConcurrencyStart", "CStart">>,
     <<"WithConcurrencyEnd", "CEnd">>, <<"WithConcurrencyStep", "CStep">>,
     <<"WithConcurrencyStepDuration", "CStepDuration">>,
     <<"WithConcurrencyDuration", "CMaxDuration">>, <<"WithCountErrors", "CountErrors">>,
     <<"WithP99_9", "P99_9">>, <<"WithDataSamplingRate", "DataSamplingRate">>,
     <<"WithDisableTemplateFuncs", "DisableTemplateFuncs">>,
     <<"WithDisableTemplateData", "DisableTemplateData">>, <<"Call", "Call">>,
     <<"Host", "Host">> >>

\* X takes the place of Z; a duration makes the number of requests unlimited.
FixedDurations(f) ==
    [f EXCEPT !.Z = IF f.X > 0 THEN f.X ELSE @,
              !.N = IF f.X = 0 /\ f.Z > 0 THEN MaxInt32 ELSE @]

\* An option that is there if the field is given.
IfGiven(name, v) == IF v = "" THEN <<>> ELSE << <<name, v>> >>

\* Where the data comes from: standard input for "@", else a file, else Data
\* itself, and it is set even to nothing.  Binary data comes after it.
DataOption(f) ==
    (IF f.Data = "@" THEN << <<"WithDataFromReader", "stdin">> >>
     ELSE IF f.DataPath # "" THEN << <<"WithDataFromFile", f.DataPath>> >>
     ELSE << <<"WithData", f.Data>> >>)
    \o IfGiven("WithBinaryData", f.BinData) \o IfGiven("WithBinaryDataFromFile", f.BinDataPath)

\* fromConfig: no options at all when a message size cannot be parsed.
FromConfigFields(f) ==
    LET g == FixedDurations(f)
    IN  IF f.MaxCallMsgSize = Unreadable THEN <<>>
        ELSE [k \in DOMAIN ConfigFields |-> <<ConfigFields[k][1], g[ConfigFields[k][2]]>>]
             \o IfGiven("WithDefaultCallOptions", f.MaxCallMsgSize)
             \o IfGiven("WithMetadataFromFile", f.MetadataPath)
             \o DataOption(f)

\* checkData: an object, or an array of objects, if there is data; a message size
\* that can be parsed.
LoadFails(f) == f.Data \notin {"null", "object"} \/ f.MaxCallMsgSize = Unreadable

\* LoadConfig, for a file it accepts: an unknown stop action is "close".
LoadConfig(f) ==
    [f EXCEPT !.ZStop = IF @ \in {"close", "ignore", "wait"} THEN @ ELSE "close"]

ConfigSources == {"WithConfig", "WithConfigFromReader", "WithConfigFromFile"}

\* An option as the options it applies.
Expand(o) ==
    IF o[1] \notin ConfigSources THEN <<o>>
    ELSE FromConfigFields(IF o[1] = "WithConfigFromFile" THEN LoadConfig(o[2]) ELSE o[2])

Refuses(o) ==
    \/ o[1] = "WithConfigFromFile" /\ LoadFails(o[2])
    \/ LET os == Expand(o) IN \E k \in DOMAIN os : Fails(os[k])

ApplyOption(c, o) ==
    LET os == Expand(o)
        after[k \in 0..Len(os)] == IF k = 0 THEN c ELSE Apply(after[k - 1], os[k])
    IN  after[Len(os)]

-----------------------------------------------------------------------------
(* NewConfig after the options                                             *)

\* createClientTransportCredentials: skipVerify makes the root certificate
\* ignored, even one that cannot be read.
CredentialsFail(c) ==
    \/ c.cert = Unreadable
    \/ ~c.skipVerify /\ c.cacert = Unreadable

Credentials(c) ==
    [certificates |-> c.cert, verify |-> ~c.skipVerify,
     roots |-> IF c.skipVerify THEN "" ELSE c.cacert, serverName |-> c.cname]

\* The call and the host may have come with a configuration.
Addressed(c, call, host) ==
    [c EXCEPT !.call = IF @ = "" THEN call ELSE @, !.host = IF @ = "" THEN host ELSE @]

\* The fix-ups before the checks, and those after them.
FixedUp(c, call, host) == WithDuration(Addressed(c, call, host))
Checked(c) == [c EXCEPT !.load = LineSteps(@), !.conc = LineSteps(@)]

\* What NewConfig returns a configuration for.
Passes(c) ==
    /\ Accepted(c)
    /\ c.call # "" /\ c.host # ""
    /\ ~CredentialsFail(c)

\* The data that requests are made from, for the data provider NewRequester makes: a
\* data function goes before binary data, and is not asked for JSON data.
DataUsed(c) ==
    IF ~c.binary THEN <<"JSON", c.data>>
    ELSE IF c.dataFunc # "" THEN <<"function", c.dataFunc>> ELSE <<"binary", c.data>>
=============================================================================
