CONSTANTS
    kInitialSize = 4
    ExtraSize = 3
    MaxBytes = 9
SPECIFICATION Spec
PROPERTY BufferIsQueue
CHECK_DEADLOCK FALSE
