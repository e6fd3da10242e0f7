\* Every file of none to six bytes in blocks of two, against a buffer of six, so
\* that the user's line, the file or the suffix may not fit; a transfer may
\* break off before its first block or after it.
SPECIFICATION Spec
CONSTANTS
    Cap = 6
    Suffix = 2
    MaxUser = 5
    MaxFile = 6
    UserLines <- MCUserLines
    ArgsFiles <- MCArgsFiles
    Block = 2
    Failures = {0, 1}
    MaxDhcp = 1
INVARIANTS NeverOutOfBounds LeaseGivenBack BootedLineIsWhole
