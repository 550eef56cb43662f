CONSTANTS
    Tickets = {t1}
    MaxLostReads = 1
    MaxCycles = 2
SPECIFICATION AuditFairSpec
INVARIANTS
    Mirrored
    JournalExplained
    OnlyLastUntold
    OrdersTold
PROPERTIES
    CyclesTold
    TableSettles
