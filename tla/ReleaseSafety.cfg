\* Four attempts: a release, two that go wrong in any way, and one that shows it.
CONSTANTS
    Images <- MCImages
    CorpusOf <- MCCorpusOf
    Attempts = 4
    Nothing = Nothing
    Torn = Torn
SPECIFICATION ReleaseSpec
CHECK_DEADLOCK FALSE
INVARIANTS
    AuthorityMatchesImage
    ReleaseRepairs
    PriorPairRecorded
