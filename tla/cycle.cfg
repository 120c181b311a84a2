SPECIFICATION Spec
CONSTANTS
  NBefore = 1
  NAfter = 2
  NTear = 2
INVARIANTS TypeOK TeardownComplete SentMeansFinalized AlwaysAnswered TeardownSeesError
PROPERTY Completes
CHECK_DEADLOCK FALSE
