CONSTANTS
    Handles = {1, 2}
    Scenarios <- Sound
    MaxEvents = 3
    Everything = 9
SPECIFICATION Spec
INVARIANTS AnswersMatch EventsDelivered 
PROPERTIES CallsReturn
CHECK_DEADLOCK FALSE
