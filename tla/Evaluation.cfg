\* Every reference case with every citation of two clauses, two strategies.
SPECIFICATION Spec
CONSTANTS
    None = None
    Failed = Failed
    CaseFiles <- MCCaseFiles
    StrategiesFor <- MCStrategiesFor
    Responses <- MCResponses
    Scores <- MCScores
    Examples = 1
INVARIANTS
    PassMeansRight
    SummaryCountsAll
    AgreementSound
PROPERTIES
    EvidenceKept
CHECK_DEADLOCK FALSE
