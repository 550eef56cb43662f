CONSTANTS
    Runs = {r1, r2}
    Cases <- MCCases
    Settings <- MCSettings
    Ledgers <- MCLedgers
SYMMETRY RunSymmetry
SPECIFICATION Spec
INVARIANTS
    OrdersSound
    JournalTellsOrders
    ReportCountsItsRun
    DrawdownIsWorstFall
    LossesAssumed
    StatusOfOneRun
