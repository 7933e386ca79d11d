------------------------------ MODULE MCPrinter ------------------------------
(***************************************************************************)
(* Bounded reports for Printer: every short list of details, under each    *)
(* combination of the options that matter, and long ones of few values.    *)
(***************************************************************************)
EXTENDS Printer

LOCAL INSTANCE TLC
LOCAL INSTANCE SequencesExt

Details(S) == [ms : S, error : {"", "unavailable"}]

Plain == [p999 |-> TRUE, countErrors |-> FALSE, samples |-> <<>>,
          cSchedule |-> "const", loadSchedule |-> "const",
          compression |-> FALSE, sampling |-> FALSE]

\* Every result was kept.
Whole(details) ==
    [details |-> details, count |-> Len(details),
     errorDist |-> [e \in {details[k].error : k \in DOMAIN details} \ {""} |->
                       Cardinality({k \in DOMAIN details : details[k].error = e})]]

\* Another failed result was not kept.
Dropped(details) ==
    LET w == Whole(Append(details, [ms |-> 1, error |-> "unavailable"]))
    IN  [w EXCEPT !.details = details]

\* The options that documents depend on.
Options ==
    {[Plain EXCEPT !.cSchedule = cs, !.loadSchedule = ls] :
        cs \in {"", "const", "step"}, ls \in {"const", "line"}}
    \cup {[Plain EXCEPT !.compression = z, !.sampling = s,
                        !.samples = IF s THEN <<[ms |-> 9, error |-> ""]>> ELSE <<>>] :
              z \in BOOLEAN, s \in BOOLEAN}

\* Few details, every option.
Optional ==
    {w @@ [o EXCEPT !.countErrors = ce] :
        w \in {Whole(d) : d \in BoundedSeq(Details({0, 7}), 1)}
             \cup {Dropped(d) : d \in [1..2 -> Details({7})]},
        o \in Options, ce \in BOOLEAN}

\* Sorted, from less than a millisecond to more than a second.
Short ==
    {Whole([k \in DOMAIN s |-> [error |-> "", ms |-> s[k]]]) @@ [Plain EXCEPT !.p999 = p] :
        s \in {q \in BoundedSeq({0, 4, 11, 1000}, 4) :
                  \A k \in 1..Len(q) - 1 : q[k] <= q[k + 1]},
        p \in BOOLEAN}

\* Around CleanAt = 100: a latencies of one value, then others, and a tail.
Long ==
    {Whole([k \in 1..n |->
               [error |-> "",
                ms |-> IF k <= a THEN low ELSE IF k <= 98 THEN 7 ELSE
                       IF k = n THEN 40 ELSE 12]])
         @@ [Plain EXCEPT !.p999 = p] :
        n \in {99, 100, 120}, a \in {1, 98}, low \in {0, 2}, p \in BOOLEAN}

\* As many latencies as CleanAt and half of CleanAt, all zero.
Zero == {Whole([k \in 1..n |-> [error |-> "", ms |-> 0]]) @@ Plain : n \in {50, 100}}

\* The least number of latencies with a whole ordinal for p99.9, which is rounded
\* above 999; the last one differs from the others.
Thousand == Whole([k \in 1..1000 |-> [error |-> "", ms |-> IF k < 1000 THEN 1 ELSE 2]]) @@ Plain

MCRuns == {Thousand} \cup Optional \cup Short \cup Long \cup Zero
=============================================================================
