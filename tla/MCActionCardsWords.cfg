CONSTANTS
    Handlers = {h1}
    Actions <- ThreeActions
    MaxCards = 3
    MaxAnswers = 1
    MaxEvents = 4
    MaxFaults = 0
SPECIFICATION Spec
CHECK_DEADLOCK FALSE
PROPERTIES
    WordsAnswerLastCard
