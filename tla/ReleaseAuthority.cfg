\* An attempt that stops between ingest and the start of the image, and a retry.
CONSTANTS
    Images <- MCImages
    CorpusOf <- MCCorpusOf
    Attempts = 4
    Nothing = Nothing
    Torn = Torn
SPECIFICATION ReleaseSpec
CHECK_DEADLOCK FALSE
INVARIANTS
    RollbackRestoresAuthority
