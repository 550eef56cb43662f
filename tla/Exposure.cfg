CONSTANTS
    MaxCandle = 2
    MaxDay = 1
    MaxSwitches = 1
    MaxTradesPerDay = 2
    SettingsChoices <- LiveSettings
    Tickets = {t1, t2}
    TradedSymbol = {t1}
    MaxLostReads = 0
    MaxOpenPositions = 2
    MaxPerSymbol = 1
CONSTRAINT Undisturbed
SPECIFICATION ExposureSpec
PROPERTIES
    OrdersLeaveRoom
    CyclesKept
