CONSTANTS
    Functions <- SkippedBranch
    MaxWork = 12
SPECIFICATION Spec
INVARIANTS
    LivenessSound
