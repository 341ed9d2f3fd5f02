\* A 64-byte bufio buffer with 8-byte alignment standing for 4096 and 512,
\* a header line of BufSize - Align + 2 bytes (3586 at the real sizes), a
\* device that may return zero-size reads and fail.
CONSTANTS
    BufSize = 64
    Align = 8
    Lines <- MCLinesLong
    ZeroReads = TRUE
    UsbFaults = TRUE

SPECIFICATION Spec

\* The header has been read, or the read failed: Read is not called again.
CHECK_DEADLOCK FALSE

INVARIANT RecvAligned
