CONSTANTS
    MaxCandle = 1
    MaxDay = 1
    MaxSwitches = 1
    MaxTradesPerDay = 1
    SettingsChoices <- LiveSettings
SPECIFICATION Spec
PROPERTIES
    KillSwitchStopsOrders
