\* Every graph of three clauses, every acyclic one of four in every order, and
\* two clauses with every combination of the fields the rules look at.
CONSTANTS
    None = None
    Inputs <- MCInputs
SPECIFICATION FairSpec
CHECK_DEADLOCK FALSE
INVARIANTS
    VerdictExact
    SelectionExact
    WinnerPrecedes
    ExplanationComplete
    ConflictsExact
    VersionsTakeTurns
PROPERTIES
    Terminates
