CONSTANTS
    Readers = {p1, p2}
    Chars = {ch, NL, EOT}
    NL = NL
    EOT = EOT
    INPUT_BUF_SIZE = 3
    Wrap = 6
    MaxN = 2
    None = None
SPECIFICATION Spec
INVARIANT NoSleepOnInput
PROPERTY LinesInOrder
