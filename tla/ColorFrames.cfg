SPECIFICATION FairSpec
CONSTANTS
    fan1 = fan1
    fan2 = fan2
    Fans <- BothFans
    Flaky <- OneFlaky
    MayDrop = FALSE
    MaxFrames = 4
    MaxSwitches = 1
INVARIANTS TypeOK WholeFrames
PROPERTIES FramesMoveForward FramesAreShown
