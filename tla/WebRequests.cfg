\* Two connections, three clients, a table of two, two admissions in three ticks of
\* which a thread may lose one.
SPECIFICATION Spec
CONSTANTS
    None = None
    Window = 3
    PerWindow = 2
    Capacity = 2
    Clients = {c1, c2, c3}
    Requests = {r1, r2}
    MaxBytes = 1
    MaxTime = 4
    MaxStall = 1
SYMMETRY MCSymmetry
INVARIANTS
    WindowHeld
    ServedWhole
PROPERTIES
    RefusedAtLimit
CHECK_DEADLOCK FALSE
