\* A model name of up to two characters, one of each kind that the format has; two
\* lines, as the hit rate needs; one odd field in a row.
CONSTANTS
    MaxChars = 2
    MaxLines = 2
    MaxOdd = 1
SPECIFICATION Spec
INVARIANTS PayloadInv ShowsWhatWasSaid LostOnlyToNoNumber LinesRecovered
\* One pass.
CHECK_DEADLOCK FALSE
