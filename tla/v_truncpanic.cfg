CONSTANTS
    MaxBytes = 4
    Widths = {1, 2, 3}
    MaxChars = 3
SPECIFICATION TruncSpec
INVARIANT TruncateTotal
