\* Every line of up to three bytes over: ' ', 'a', the lead bytes 0xC2 and
\* 0xD0, the continuation bytes 0x80, 0x85 and 0xA0.
CONSTANTS
    Alphabet = {32, 97, 194, 208, 128, 133, 160}
    MaxLen = 3

SPECIFICATION Spec

\* trim returns: the loop ends in Truncate.
CHECK_DEADLOCK FALSE

INVARIANT TrimKeepsText
