------------------------------ MODULE MCRunSetup ------------------------------
(* Small instances of RunSetup for TLC: every list of at most two options of a *)
(* menu, with a configuration before or after them, and the option lists of   *)
(* all small concurrency schedules.                                           *)
EXTENDS RunSetup, TLC

\* The ticker before createWorkerTicker.
MCParams == {[kind |-> "const", start |-> 0, step |-> 1, stepDuration |-> 0, stop |-> 0, max |-> 0]}

With(names, values) == names \X values

File(f, ok, d, ps) == [file |-> f, isProto |-> ok, dir |-> d, importPaths |-> ps]

Menu ==
    With({"WithTotalRequests", "WithConcurrency", "WithConnections", "WithSkipFirst"}, {0, 1, 3})
    \cup With({"WithRunDuration", "WithRPS", "WithMaxResults", "WithTimeout", "WithCPUs",
               "WithStreamCallCount", "WithInitialWindowSize"}, {0, 2})
    \cup With({"WithDurationStopAction"}, {"wait", "never"})
    \cup With({"WithDataFromFile", "WithBinaryDataFromFile"}, {"one", Unreadable})
    \cup With({"WithDataFromJSON", "WithBinaryData", "WithBinaryDataFunc"}, {"one", "two"})
    \cup With({"WithStreamDynamicMessages", "WithSkipTLSVerify", "WithInsecure"}, BOOLEAN)
    \cup With({"WithRootCertificate", "WithCertificate"}, {"", "one", Unreadable})
    \cup With({"WithMetadata", "WithMetadataFromFile"}, {"one", Unreadable})
    \cup With({"WithDataSamplingRate"}, {-1, 50, 101})
    \cup With({"WithName", "WithLoadSchedule", "WithConcurrencySchedule"}, {"", "line"})
    \cup With({"WithLoadStart", "WithLoadStep", "WithConcurrencyStart", "WithConcurrencyStep"}, {2})
    \cup With({"WithProtoFile"}, {File("", FALSE, ".", <<>>), File("a.proto", TRUE, "dir", <<"lib">>),
                                  File("b.proto", TRUE, ".", <<>>), File("a.txt", FALSE, ".", <<>>)})
    \cup With({"WithPacer"}, {"own"})

FromFile == [FileDefaults @@ ZeroValues EXCEPT !.Data = "object"]
Addressed2 == [FromFile EXCEPT !.Call = "other", !.Host = "elsewhere"]
Configs ==
    With({"WithConfig", "WithConfigFromReader", "WithConfigFromFile"},
         {FromFile, [Addressed2 EXCEPT !.X = 3, !.Z = 5], [Addressed2 EXCEPT !.Z = 5, !.ZStop = "never"],
          [FromFile EXCEPT !.BinData = "bin"], [FromFile EXCEPT !.Data = "@", !.MetadataPath = "md"],
          [FromFile EXCEPT !.DataPath = "file", !.BinDataPath = "binfile"],
          [FromFile EXCEPT !.MaxCallMsgSize = Unreadable], [FromFile EXCEPT !.MaxCallMsgSize = "4MB"],
          ZeroValues})

Call(call, os) == [call |-> call, host |-> "host", options |-> os]

Schedule(k, a, e, s, l, d) ==
    << <<"WithConcurrencySchedule", k>>, <<"WithConcurrencyStart", a>>, <<"WithConcurrencyEnd", e>>,
       <<"WithConcurrencyStep", s>>, <<"WithConcurrencyStepDuration", l>>,
       <<"WithConcurrencyDuration", d>> >>

\* A line ignores the step duration; "" and an unknown name are constant.
Schedules2 == {Schedule(k, a, e, s, l, d) :
                  k \in {"step", "line"}, a \in 0..4, e \in 0..4, s \in -3..2,
                  l \in {-1, 0, 2}, d \in {-1, 0, 3, 8}}
             \cup {Append(Schedule(k, 1, 1, 0, 0, 0), <<"WithConcurrency", w>>) :
                  k \in {"", "other"}, w \in {1, 3}}

MCInputs ==
    {Call("call", os) : os \in {<<>>} \cup {<<o>> : o \in Menu} \cup Menu \X Menu}
    \cup {Call("", <<c>>) : c \in Configs}
    \cup {Call("call", <<c, o>>) : c \in Configs, o \in Menu}
    \cup {Call("call", <<o, c>>) : c \in Configs, o \in Menu}
    \cup {Call("call", os) : os \in Schedules2}
=============================================================================
