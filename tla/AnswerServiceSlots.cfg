\* Three threads compete for two slots; one version, one question with its context
\* and one without.
CONSTANTS
    Threads = {t1, t2, t3}
    Questions <- MCWithBare
    Incomplete <- MCIncomplete
    Versions = {1}
    Builds = {1}
    Strategies = {"complete"}
    Clauses <- MCClauses
    Hits <- MCHits
    Selected <- MCSelected
    Disputed <- MCDisputed
    Mismatch <- MCMatch
    Drafts <- MCTwoDrafts
    Concurrency = 2
    CacheLimit = 1
    None = None
SPECIFICATION FairSpec
INVARIANTS
    SlotsAccounted
PROPERTIES
    RequestsEnd
