CONSTANTS
    MaxCandle = 2
    MaxDay = 2
    MaxSwitches = 2
    MaxTradesPerDay = 1
    SettingsChoices <- MCSettings
SPECIFICATION Spec
INVARIANTS
    AtMostOneOrderPerCandle
    KillSwitchLeaksAtMostOne
    BrokerOrdersExplained
    DailyTradeCap
PROPERTIES
    OrdersObeySettings
    KeepsPromise
