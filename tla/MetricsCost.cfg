\* One question is enough to lose its cost.
CONSTANTS
    Answers = {a1}
    Items = {}
    Reservations = {r1, r2, r3}
    Months <- MCMonths
    Limit = 3
    Costs <- MCCosts
    AnswerMaximum = 1
    JudgeMaximum = 2
    None = None
SPECIFICATION Spec
CHECK_DEADLOCK FALSE
INVARIANTS
    ReportedCostIsMetered
