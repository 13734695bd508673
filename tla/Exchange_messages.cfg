SPECIFICATION Spec
CONSTANTS
    Requests <- MCRequests
    Sessions <- MCSessions
    MaxSends = 2
    ValidRegex <- MCValidRegex
    IsMatch <- MCIsMatch
INVARIANTS
    ShownAsSent
    RulesHearEachLine
    ChecksumVerifies
    AcceptedConfigWorks
