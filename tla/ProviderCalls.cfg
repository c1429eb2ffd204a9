\* Two questions and the judge share a month's money; the limit admits two of
\* the three calls, and each month can be the one a call started in.
CONSTANTS
    Answers = {a1, a2}
    Items <- MCOneItem
    Reservations = {r1, r2, r3}
    Months <- MCMonths
    Limit = 3
    Costs <- MCCosts
    AnswerMaximum = 1
    JudgeMaximum = 2
    None = None
SPECIFICATION Spec
CHECK_DEADLOCK FALSE
SYMMETRY MCSymmetry
INVARIANTS
    BillsWithinLimit
    EveryBillCovered
    ReportedUsageExact
    HeldOnlyAfterFailure
