CONSTANTS
    MaxCandle = 3
    MaxDay = 2
    MaxSwitches = 2
    MaxTradesPerDay = 1
    SettingsChoices <- LiveSettings
SPECIFICATION SteadySpec
PROPERTIES
    NewBarStored
    SubmittedResolved
