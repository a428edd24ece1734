SPECIFICATION Spec
VIEW Stated
CONSTANTS
    Jobs <- KeptJobs
    Chars = {"a"}
    Avoid = {"empty line",
             "seek after ungetc",
             "seek to the end of r",
             "negative seek on r",
             "flush of half a record",
             "seek without a DCB",
             "clearerr without a DCB"}
PROPERTIES
    WriteLands
