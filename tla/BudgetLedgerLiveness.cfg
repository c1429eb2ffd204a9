CONSTANTS
    Sessions = {s1, s2}
    Reservations = {r1, r2}
    Months <- MCMonths
    Limit = 3
    Costs <- MCCosts
    None = None
SPECIFICATION FairSpec
PROPERTIES
    TransactionsEnd
