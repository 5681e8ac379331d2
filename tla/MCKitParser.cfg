CONSTANT Topics <- AllTopics
SPECIFICATION Spec
INVARIANTS RoundTrip ParenthesesSuffice NothingLost
CHECK_DEADLOCK FALSE
