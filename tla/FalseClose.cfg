CONSTANTS
    Tickets = {t1, t2}
    MaxLostReads = 1
SPECIFICATION Spec
INVARIANTS
    ClosedRowsAreClosed
