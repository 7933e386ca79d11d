SPECIFICATION FairSpec
CONSTANTS
    Results <- MCResults
    Failing <- MCFailing
    Sampled <- MCSampled
    SkipFirst = 1
    MaxResults = 2
    ResultsCap = 2
    SampledCap = 1
INVARIANTS
    SampleOfCounted
    ReportSeesAll
PROPERTIES
    EventuallyReported
