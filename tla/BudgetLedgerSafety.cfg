\* Three connections, three reservations, two months: a lost update needs two
\* sessions, a refusal at the limit needs the third reservation.
CONSTANTS
    Sessions = {s1, s2, s3}
    Reservations = {r1, r2, r3}
    Months <- MCMonths
    Limit = 3
    Costs <- MCCosts
    None = None
SPECIFICATION Spec
SYMMETRY MCSymmetry
INVARIANTS
    TypeOK
    Ceiling
    Reconciled
    LocksProtect
    KnownIsBooked
PROPERTIES
    ChargedOnce
    ImplementsLedger
