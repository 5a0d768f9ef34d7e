SPECIFICATION FairServiceSpec
CONSTANTS
    Caller = {c1, c2, c3}
    limited = limited
    unlimited = unlimited
    Unknown = Unknown
    None = None
    Command <- MCCommand
    CommandLimit <- MCCommandLimit
    Requests <- MCRequests
    Outcomes <- MCOutcomes
    GlobalLimit = 2
    MaxCalls = 3
    AuditFaults = TRUE
INVARIANTS
    ServiceTypeOK
    TokensAccounted
    LimitsRespected
    ReleaseNeverBlocks
    SuccessIsReal
    CountersAgree
CHECK_DEADLOCK FALSE
PROPERTIES
    EveryCallReturns
