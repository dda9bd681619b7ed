CONSTANTS
    Sessions = {"a", "b", "c"}
    Containers = {"x", "y", "z", "w"}
    Scenarios <- Sound
SPECIFICATION Spec
 
PROPERTIES AddReachesSubscribers
