SPECIFICATION Spec
CONSTANTS
    MaxCtx = 4
    MaxOwn = 1
INVARIANTS FixturesRemain TornAtMostTwice WritesAdd
PROPERTIES SessionShown
CHECK_DEADLOCK FALSE
