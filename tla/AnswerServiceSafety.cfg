\* Two threads on two slots, releases and restarts; the cache keeps one entry, which
\* can be of any version, build and question.  "vector" is uncached.
CONSTANTS
    Threads = {t1, t2}
    Questions <- MCTwoQuestions
    Incomplete <- MCNone
    Versions <- MCVersions
    Builds <- MCBuilds
    Strategies = {"complete", "vector"}
    Clauses <- MCClauses
    Hits <- MCHits
    Selected <- MCSelected
    Disputed <- MCDisputed
    Mismatch <- MCMismatch
    Drafts <- MCDrafts
    Concurrency = 2
    CacheLimit = 1
    None = None
SPECIFICATION Spec
SYMMETRY MCSymmetry
INVARIANTS
    AnswersFollowTheirVersion
    VersionWasCurrent
    AnswersItsRequest
    CacheHoldsAnswers
    AbstentionsAreFree
