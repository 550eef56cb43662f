\* Every call ends, with a signal or without.
CONSTANTS
    Candles <- MCCandles
    Features <- MCFeatures
    Configs <- MCConfigs
    DefaultStep = 1
SPECIFICATION Spec
INVARIANTS
    SilentAsSeeded
    SignalsSound
CHECK_DEADLOCK FALSE
