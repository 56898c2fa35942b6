SPECIFICATION ChatSpec
CONSTANTS
 MaxTurns = 2
 NumSockets = 2
 NumTokens = 1
 MaxEvents = 1
 Gestures = {"compose","retry","related","attach","new","open"}
 Outcomes = {"answer","insufficient","cached"}
INVARIANTS ChatTypeOK BusyHasCause AnswersStand
PROPERTIES BusyEnds EachQuestionOnce
CHECK_DEADLOCK FALSE
