SPECIFICATION FairSpec
CONSTANTS
    ConfigKeys <- ModelKeys
    EnvOrder <- ModelOrder
    UpperKeys = {"DEBUG", "X"}
    DictSources = {"shell"}
    Environments <- ModelEnvironments
    Commands <- ModelCommands
    Modules <- ModelModules
    Objects <- ModelObjects
    Files <- ModelFiles
    Outer = {"none", "app", "other"}
    MaxOps <- ModelMaxOps
    MaxEdits = 2
INVARIANTS EnvAsDocumented DebugAgrees
PROPERTIES EnvFound ServesAgain
CHECK_DEADLOCK FALSE
