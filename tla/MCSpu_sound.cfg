SPECIFICATION Spec
CONSTANTS
    Voices = {1}
    RAM = 8
    BLOCK = 2
    SAMPLES = 5
    UNITY = 2
    TOP = 31
    SATURATE = 2
    ENVELOPE_COUNTER_MAX = 16
    FRAMES = 3
    SAMPLE_RATE = 1
    CPU_HZ = 2
    Slices <- Slices_MC
    Reflect = {"mlsame"}
    ApfLeft = {"mlapf1"}
    ApfRight = {"mrapf1"}
    Reverb <- Reverb_MC
    Sessions <- Sessions_MC
INVARIANTS RingIsFifo UploadsKept ReverbRing
PROPERTIES NoteSettles EndReported
