SPECIFICATION Spec
VIEW Stated
CONSTANTS
    Jobs <- AllJobs
    Chars = {"a"}
    Avoid = {"empty line",
             "kept is gone",
             "seek after ungetc",
             "seek to the end of r",
             "negative seek on r",
             "flush of half a record",
             "seek without a DCB",
             "clearerr without a DCB"}
INVARIANTS
    StreamOK
    PositionTracks
PROPERTIES
    ReadsAreHarmless
    WriteLands
    ClosedIsWritten
    SeeksAreTrue
    ErrorHolds
