SPECIFICATION Spec
CONSTANTS
    Caller <- MCCaller
    Target = 1
    MaxTracks = 3
    MaxCands = 1
INVARIANT TrackIsSet
CHECK_DEADLOCK FALSE
