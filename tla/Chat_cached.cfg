SPECIFICATION ChatSpec
CONSTANTS
 MaxTurns = 1
 NumSockets = 1
 NumTokens = 1
 MaxEvents = 0
 Gestures = {"compose"}
 Outcomes = {"answer", "cached"}
PROPERTY TurnsEnd
CHECK_DEADLOCK FALSE
