SPECIFICATION Spec
CONSTANTS
    Width = 2
    Horizon = 10
INVARIANT FrameIndependent
