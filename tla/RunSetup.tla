------------------------------- MODULE RunSetup -------------------------------
(***************************************************************************)
(* From a list of options to a running worker ticker: NewConfig applies    *)
(* the options (Options), fixes up and checks the configuration            *)
(* (RunConfig), and the run engine creates from it the worker ticker that  *)
(* it starts (WorkerTicker).  NewRequester and createPacer, which read the *)
(* same configuration, are in TestRun and in MCPacer.                      *)
(***************************************************************************)
EXTENDS WorkerTicker, Options, Functions

CONSTANT Inputs     \* the calls of NewConfig: [call, host, options] records

\* The values of an option have the code's types: numbers of workers are unsigned,
\* steps and durations are signed.
Typed(o) ==
    /\ o[1] \in OptionNames
    /\ o[1] \in {"WithConcurrency", "WithConcurrencyStart", "WithConcurrencyEnd"} => o[2] \in Nat
    /\ o[1] \in DOMAIN StoredIfGiven \cup DOMAIN ConcurrencyOptions => o[2] \in Int

ASSUME RunSetupAssumption ==
    \A i \in Inputs :
        /\ i.options \in Seq(Range(i.options))
        /\ \A k \in DOMAIN i.options :
              LET os == Expand(i.options[k])
              IN  \A j \in DOMAIN os : Typed(os[j])

VARIABLES
    input,      \* the arguments of NewConfig
    applied,    \* how many options have been applied
    cfg,        \* the configuration so far
    stage       \* "apply", "fixup", "accepted", "ticker" (created) or "refused"

setup == <<input, applied, cfg, stage>>
allVars == <<vars, setup>>

SetupInit ==
    /\ Init
    /\ input \in Inputs
    /\ applied = 0 /\ cfg = Defaults
    /\ stage = IF input.options = <<>> THEN "fixup" ELSE "apply"

\* One turn of the loop over the options.
ApplyNext ==
    /\ stage = "apply"
    /\ LET o == input.options[applied + 1]
       IN  IF Refuses(o) THEN stage' = "refused" /\ UNCHANGED <<applied, cfg>>
           ELSE /\ cfg' = ApplyOption(cfg, o)
                /\ applied' = applied + 1
                /\ stage' = IF applied + 1 = Len(input.options) THEN "fixup" ELSE "apply"
    /\ UNCHANGED <<vars, input>>

\* The rest of NewConfig.
FixUp ==
    /\ stage = "fixup"
    /\ LET c == FixedUp(cfg, input.call, input.host)
       IN  /\ cfg' = IF Passes(c) THEN Checked(c) ELSE c
           /\ stage' = IF Passes(c) THEN "accepted" ELSE "refused"
    /\ UNCHANGED <<vars, input, applied>>

\* createWorkerTicker; a ticker given by WithWorkerTicker is the caller's own.
CreateTicker ==
    /\ stage = "accepted" /\ cfg.workerTicker = ""
    /\ par' = WorkerTickerOf(cfg)
    /\ stage' = "ticker"
    /\ UNCHANGED <<phase, now, wc, workers, doneSent, closed, input, applied, cfg>>

Ticking == stage = "ticker" /\ Next /\ UNCHANGED setup

SetupNext == ApplyNext \/ FixUp \/ CreateTicker \/ Ticking

\* Once it is created, the ticker goroutine runs on (see WorkerTicker).
SetupSpec ==
    /\ SetupInit /\ [][SetupNext]_allVars
    /\ WF_allVars(stage = "ticker" /\ (Start \/ Tick) /\ UNCHANGED setup)

-----------------------------------------------------------------------------
(* Properties *)

\* What NewConfig's checks leave a run to rely on, however its configuration was put
\* together: workers for all connections, a known stop action, no number of requests
\* of its own when it has a duration, whether the duration came before or after the
\* number, and a worker ticker whose goroutine does not panic but when its channel is
\* closed or it is not made yet, or when the length of its steps is negative, which
\* the checks let pass (options.go:242).
AcceptedIsConsistent ==
    stage \in {"accepted", "ticker"} =>
        /\ 1 <= cfg.nConns /\ cfg.nConns <= cfg.c
        /\ cfg.z > 0 => cfg.n = MaxInt32
        /\ cfg.zstop \in {"close", "wait", "ignore"}
        /\ cfg.dataSamplingRate \in 0..100 /\ cfg.maxResults > 0
        /\ cfg.call # "" /\ cfg.host # ""
        /\ phase = "panic" /\ ~closed => par.kind = "line" \/ par.stepDuration < 0

\* What an option is about: options about the same thing override one another.
Subject(o) ==
    LET name == o[1]
    IN  CASE name \in DOMAIN Stored -> Stored[name]
          [] name \in JSONDataOptions \cup BinaryDataOptions \cup {"WithBinaryDataFunc"} -> "data"
          [] OTHER -> name

ApplyAll(os) ==
    LET after[k \in 0..Len(os)] ==
            IF k = 0 THEN Defaults ELSE ApplyOption(after[k - 1], os[k])
    IN  after[Len(os)]

Swapped(os, k) == [os EXCEPT ![k] = os[k + 1], ![k + 1] = os[k]]

\* Options about different things may be given in any order.  (Those that come
\* with a configuration as well, but the configuration sets everything.)
OrderOfSubjectsIsFree ==
    applied = 0 =>
        \A k \in 1..Len(input.options) - 1 :
            LET os == input.options
            IN  /\ os[k][1] \notin ConfigSources /\ os[k + 1][1] \notin ConfigSources
                /\ Subject(os[k]) # Subject(os[k + 1])
                /\ \A i \in DOMAIN os : ~Refuses(os[i])
                => FixedUp(ApplyAll(os), "", "")
                       = FixedUp(ApplyAll(Swapped(os, k)), "", "")

\* The options as applied, those of a configuration one by one: <<k, j>> is the place
\* of the j-th option that the k-th one applies.
Places ==
    UNION {{k} \X (DOMAIN Expand(input.options[k])) : k \in DOMAIN input.options}
OptionAt(p) == Expand(input.options[p[1]])[p[2]]
Before(p, q) == p[1] < q[1] \/ (p[1] = q[1] /\ p[2] < q[2])

\* The last option at some places that has one of the names.
LastOf(places, names) ==
    LET given == {p \in places : OptionAt(p)[1] \in names}
    IN  IF given = {} THEN <<"none", "">>
        ELSE OptionAt(CHOOSE p \in given : \A q \in given \ {p} : Before(q, p))

\* The data that the options at those places ask for.
DataGiven(places) ==
    LET data == LastOf(places, JSONDataOptions \cup BinaryDataOptions)
        any == LastOf(places, JSONDataOptions \cup BinaryDataOptions \cup {"WithBinaryDataFunc"})
        fn == LastOf(places, {"WithBinaryDataFunc"})
    IN  IF any[1] \notin BinaryDataOptions \cup {"WithBinaryDataFunc"} THEN <<"JSON", data[2]>>
        ELSE IF fn[2] # "" THEN <<"function", fn[2]>> ELSE <<"binary", data[2]>>

\* Requests are made from the data of the last option that gives any, in the encoding
\* that option says, whichever options and configurations gave some before it.  But
\* if the last one gives binary data, and one anywhere before it a data function,
\* the function is used and the data is not (options.go:501 and data.go:219).
LastDataIsUsed == stage = "accepted" => DataUsed(cfg) = DataGiven(Places)
=============================================================================
