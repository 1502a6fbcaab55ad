CONSTANTS
    Nil = Nil
    BITMAP_ERROR = BITMAP_ERROR
    Off = Off
SPECIFICATION Spec
INVARIANTS
    ContainersFollowReference
    RoutinesFollowReference
    FormatsFollowReference
CHECK_DEADLOCK FALSE
