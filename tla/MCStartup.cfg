CONSTANTS
    Written <- MCWritten
    Overrides <- MCOverrides
    Unparseable = Unparseable
    NoFile = NoFile
    Torn = Torn
SPECIFICATION FairSpec
INVARIANTS
    TypeOK
    LimitsHold
    WindowAndCooldownHold
PROPERTY StartsOnceConfigured
