CONSTANTS
    NPixels = 2
    MaxDepth = 3
    Written <- WrittenSamples
    Loaded <- LoadedPixels
    MaxSamples = 2
    MaxCapacity = 5
    MaxCalls = 4
SPECIFICATION Spec
INVARIANTS TypeOK Sanity
PROPERTIES ReservedIsEnough ImplementsImage
CHECK_DEADLOCK FALSE
