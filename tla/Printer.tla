------------------------------- MODULE Printer -------------------------------
(***************************************************************************)
(* What ReportPrinter prints of a finished report (printer/printer.go,     *)
(* template.go, influx.go, prometheus.go).  A document is the record of    *)
(* the figures, rows and labels it shows; their formatting is left out,    *)
(* but for the widths that the histogram of the summary is padded to.      *)
(***************************************************************************)
EXTENDS Histogram, FiniteSetsExt, Functions

CONSTANT MaxPrints      \* how many documents are printed

\* The errors in an errorDist, in getInfluxTags.
ErrorsOf(r) == FoldFunction(+, 0, r.errorDist)

\* The details that failed.
Failed(details) == {k \in DOMAIN details : details[k].error # ""}

\* A run also has: count (Report.Count) and errorDist, over every result and not
\* only the details kept; samples (SampleDetails); and the options cSchedule,
\* loadSchedule, compression and sampling.
\* What Reporter gathers: every failed detail is counted in errorDist, and nothing
\* else is when the details are those of every result.
ASSUME PrinterAssumption ==
    /\ MaxPrints \in Nat
    /\ \A r \in Runs :
          /\ r.compression \in BOOLEAN /\ r.sampling \in BOOLEAN
          /\ Cardinality(Failed(r.details)) <= ErrorsOf(r)
          /\ Len(r.details) = r.count => Cardinality(Failed(r.details)) = ErrorsOf(r)

VARIABLES
    outIsFile,  \* is Out an *os.File?
    shown,      \* the Details and SampleDetails of the report
    outputs     \* the documents printed (<<>> for an error), with their formats

printer == <<outIsFile, shown, outputs>>
allVars == <<vars, printer>>

\* Finalize reports the samples only when there are details.
PrinterInit ==
    /\ Init
    /\ outIsFile \in BOOLEAN
    /\ shown = [details |-> run.details,
                samples |-> IF run.details = <<>> THEN <<>> ELSE run.samples]
    /\ outputs = {}

-----------------------------------------------------------------------------
(* The figures of the report *)

Buckets == IF lats = <<>> THEN {} ELSE 0..NumBuckets - 1

\* LatencyDistribution: a percentile of zero leaves its entry all zero.
Entry(p) == IF Percentile(p) > 0 THEN <<p, Percentile(p)>> ELSE <<0, 0>>
Distribution == IF lats = <<>> THEN {} ELSE {Entry(p) : p \in Percentiles}

ErrorCount == ErrorsOf(run)

-----------------------------------------------------------------------------
(* The histogram of the summary *)

Digits[n \in Nat] == IF n < 10 THEN 1 ELSE 1 + Digits[n \div 10]

Largest(S) == Max(S \cup {0})

\* The width of a mark formatted with three decimals.
MarkLen(mark) == Digits[mark \div 10] + 4

\* The width of AlternativeMark: ">=P99 [tail-slowest]" for the last bucket once
\* the tail is cut off, else the formatted mark.
LabelLen(b) ==
    IF cleanTail /\ b = NumBuckets - 1
    THEN (IF p999 /\ Percentile(999) > 0 THEN 9 ELSE 7)
         + MarkLen(10 * tailPercentile) + 1 + MarkLen(10 * slowest) + 1
    ELSE MarkLen(Mark(b))

MaxCount == Largest({counts[b] : b \in Buckets})

\* Mutant of MaxMarkLen: the label of the last bucket is forgotten.
MaxMarkLenOfMarks == MarkLen(Largest({Mark(b) : b \in Buckets}))

MaxMarkLen ==
    LET longest == MarkLen(Largest({Mark(b) : b \in Buckets}))
    IN  IF Buckets = {} THEN longest ELSE Largest({longest, LabelLen(NumBuckets - 1)})

\* A line: the padding of its label, its count with padding, its bar.
Line(b) ==
    [padding |-> MaxMarkLen - LabelLen(b),
     count |-> counts[b],
     countPadding |-> Digits[MaxCount] - Digits[counts[b]],
     bar |-> IF MaxCount > 0 THEN (counts[b] * 40 + MaxCount \div 2) \div MaxCount
             ELSE 0]

-----------------------------------------------------------------------------
(* The labels of the options *)

\* Influx: the fixed number, or else the schedule.
InfluxTags ==
    (IF run.cSchedule = "const" THEN {"concurrency"} ELSE {"concurrency-schedule"})
    \cup (IF run.loadSchedule = "const" THEN {"rps"} ELSE {"load-schedule"})

\* Prometheus: both numbers, and the schedules that are not "const".
PrometheusLabels ==
    {"concurrency", "rps", "concurrency-schedule", "load-schedule"}
    \ ((IF run.cSchedule = "const" THEN {"concurrency-schedule"} ELSE {})
       \cup (IF run.loadSchedule = "const" THEN {"load-schedule"} ELSE {}))

\* The labels are unmarshalled into strings.  Every option that is not a string
\* is turned into one, but for these two, which are left out when they are zero.
LabelsFail == run.compression \/ run.sampling

-----------------------------------------------------------------------------
(* The documents *)

\* getInfluxFields: these percentiles under names of their own.
NamedPercentiles == {e \in Distribution : e[1] \in {500, 950, 990, 999}}

\* The templates, over what json.Marshal writes too.
Text == [count |-> run.count, distribution |-> Distribution, errorDist |-> run.errorDist,
         histogram |-> [b \in Buckets |-> Line(b)]]
Csv == [rows |-> shown.details]
Json == [count |-> run.count, distribution |-> Distribution, errorDist |-> run.errorDist,
         counts |-> [b \in Buckets |-> counts[b]], rows |-> shown.details]

\* The copy of the report given to the page has the samples for details.
Html == [count |-> run.count, distribution |-> Distribution, errorDist |-> run.errorDist,
         counts |-> [b \in Buckets |-> counts[b]], samples |-> shown.samples]

InfluxSummary ==
    [tags |-> InfluxTags, hasErrors |-> ErrorCount > 0, count |-> run.count,
     distribution |-> NamedPercentiles, errors |-> ErrorCount]

InfluxDetails ==
    [tags |-> InfluxTags,
     rows |-> [k \in DOMAIN shown.details |->
                  [ms |-> shown.details[k].ms, error |-> shown.details[k].error,
                   hasError |-> shown.details[k].error # ""]]]

\* The cumulative count of a bucket is filled with the bucket's own.
Prometheus ==
    [labels |-> PrometheusLabels, count |-> run.count,
     cumulativeCounts |-> [b \in Buckets |-> counts[b]],
     distribution |-> Distribution, errors |-> ErrorCount]

\* writeParquetFile: a path is <<stem, ending>>; its ending .html or .parquet, if
\* it has one, is replaced.
Parquet(path, details) == [file |-> <<path[1], "parquet">>, rows |-> details]

Document(format) ==
    CASE format \in {"", "summary"} -> Text
      [] format = "csv" -> Csv
      [] format \in {"json", "pretty"} -> Json
      [] format = "html" -> Html
      [] format = "influx-summary" -> InfluxSummary
      [] format = "influx-details" -> InfluxDetails
      [] format = "prometheus" -> Prometheus
      [] format = "parquet" -> Parquet(<<"out", "parquet">>, shown.details)

Formats == {"", "summary", "csv", "json", "pretty", "html", "influx-summary",
            "influx-details", "prometheus", "parquet"}

\* Print returns an error, having written nothing.
Fails(format) ==
    \/ format \notin Formats
    \/ format = "parquet" /\ ~outIsFile
    \/ format = "prometheus" /\ LabelsFail

-----------------------------------------------------------------------------
(* Print *)

Printed(format, doc) == outputs' = outputs \cup {[format |-> format, doc |-> doc]}

\* Mutant of PrintReport: for "html" the samples are put in the report itself.
PrintNoCopy(format) ==
    /\ Finished /\ Cardinality(outputs) < MaxPrints /\ ~Fails(format)
    /\ Printed(format, Document(format))
    /\ shown' = IF format = "html" THEN [shown EXCEPT !.details = shown.samples]
                ELSE shown
    /\ UNCHANGED <<vars, outIsFile>>

\* For "html" a copy of the report gets its samples for details.
PrintReport(format) ==
    /\ Finished /\ Cardinality(outputs) < MaxPrints /\ ~Fails(format)
    /\ Printed(format, Document(format))
    /\ UNCHANGED <<vars, outIsFile, shown>>

PrintFails(format) ==
    /\ Finished /\ Cardinality(outputs) < MaxPrints /\ Fails(format)
    /\ Printed(format, <<>>)
    /\ UNCHANGED <<vars, outIsFile, shown>>

WriteParquetFile(path) ==
    /\ Finished /\ Cardinality(outputs) < MaxPrints
    /\ Printed("parquet-file", Parquet(path, shown.details))
    /\ UNCHANGED <<vars, outIsFile, shown>>

WriteParquetSampleFile(path) ==
    /\ Finished /\ Cardinality(outputs) < MaxPrints
    /\ LET p == Parquet(path, shown.samples)
       IN  Printed("parquet-samples", [file |-> p.file, samples |-> p.rows])
    /\ UNCHANGED <<vars, outIsFile, shown>>

Figuring == Next /\ UNCHANGED printer

PrinterNext ==
    \/ Figuring
    \/ \E f \in Formats \cup {"xml"} : PrintReport(f) \/ PrintFails(f)
    \/ \E ending \in {"", "html", "parquet"} :
          WriteParquetFile(<<"r", ending>>) \/ WriteParquetSampleFile(<<"r", ending>>)

PrinterSpec == PrinterInit /\ [][PrinterNext]_allVars

-----------------------------------------------------------------------------
(* Properties *)

\* The histogram of every report can be printed (a negative padding panics), its
\* columns align, and its bars have at most 40 marks, in the order of the counts.
LinesAlign ==
    Finished /\ outputs = {} =>
        \A b \in Buckets :
            /\ Line(b).padding >= 0 /\ Line(b).countPadding >= 0
            /\ Line(b).bar \in 0..40
            /\ \A c \in Buckets : counts[c] <= counts[b] => Line(c).bar <= Line(b).bar

Docs == {o.doc : o \in outputs} \ {<<>>}
Shows(field) == {d \in Docs : field \in DOMAIN d}

\* How many latencies are in buckets.
Total(c) ==
    LET sum[b \in 0..NumBuckets] ==
            IF b = 0 THEN 0
            ELSE sum[b - 1] + (IF b - 1 \in DOMAIN c THEN c[b - 1] ELSE 0)
    IN  sum[NumBuckets]

\* The documents of one report agree, whatever was printed before them: on the
\* details and the samples; on the number of errors, which is that of the failed
\* rows when every result was kept, and no less otherwise; on the percentiles; on
\* whether there was a schedule; and on the latencies counted in buckets.
OutputsAgree ==
    /\ \A d \in Shows("rows") :
          /\ Len(d.rows) = Len(run.details)
          /\ \A k \in DOMAIN d.rows : /\ d.rows[k].ms = run.details[k].ms
                                      /\ d.rows[k].error = run.details[k].error
          /\ LET failed == Cardinality(Failed(d.rows))
             IN  \A e \in Shows("errors") :
                    /\ failed <= e.errors
                    /\ Len(d.rows) = run.count => failed = e.errors
                    /\ "hasErrors" \in DOMAIN e => (e.hasErrors <=> e.errors > 0)
    /\ \A d, e \in Shows("samples") : d.samples = e.samples
    /\ \A d, e \in Shows("distribution") :
          {x \in d.distribution : x[1] \in {500, 950}}
              = {x \in e.distribution : x[1] \in {500, 950}}
    /\ \A d \in Shows("tags"), e \in Shows("labels") :
          \A l \in {"concurrency-schedule", "load-schedule"} :
              l \in d.tags <=> l \in e.labels
    /\ \A d \in Shows("cumulativeCounts") :
          Total(d.cumulativeCounts) = Len(lats)

=============================================================================
