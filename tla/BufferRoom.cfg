CONSTANTS
    kInitialSize = 4
    ExtraSize = 3
    MaxBytes = 9
SPECIFICATION Spec
INVARIANT RoomIsMade
CHECK_DEADLOCK FALSE
