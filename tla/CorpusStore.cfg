\* Two ingests of five corpora with two encoders, rollbacks and one search.
SPECIFICATION FairSpec
CONSTANTS
    None = None
    Limit = 2
    Offset = 60
    Versions <- MCVersions
    File <- MCFile
    Encoders = {e1, e2}
    Ingests = {i1, i2}
    Readers = {r1}
    Contexts <- MCContexts
INVARIANTS
    StoredWhole
    RefusedForCause
    SearchFollowsPolicy
PROPERTIES
    IngestsEnd
CHECK_DEADLOCK FALSE
