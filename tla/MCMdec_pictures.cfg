SPECIFICATION MdecSpec
CONSTANTS
    LAST = 2
    SIDE = 2
    TABLE_WORDS = 1
    PARAM_CAP = 38
    OUT_CAP = 34
    MAX_WORDS = 18
    ROW_WORDS <- ROW_WORDS_MC
    Streams <- Streams_MC
    Restarts <- Restarts_MC
INVARIANTS DecodedAsWhole PictureDelivered
PROPERTIES DrainedIsSeen
