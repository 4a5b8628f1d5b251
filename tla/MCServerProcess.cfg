SPECIFICATION FairSpec
CONSTANTS
    HalfWord = 16
    PerSecond = 5
    Requests = {r1, r2}
    Texts <- MCTexts
    Unset = Unset
    Garbage = Garbage
    DefaultTimeout = 2
    Buffer = 1
    Grace = 2
    HeaderGrace = 1
    StepLimit = 1
    PublishRetries = 1
    Outages = {15, 16}
INVARIANTS
    TypeOK
    RequestsFindConnections
    OnlyOldRequestsAreCut
    PunctualResponsesArrive
    WaitsAsConfigured
    StartSurvivesOutage
PROPERTIES
    StartAndStopEnd
\* A process that has ended does nothing any more.
CHECK_DEADLOCK FALSE
