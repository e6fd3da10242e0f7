\* Command line files of any length from none on, each received whole.
SPECIFICATION Spec
CONSTANTS
    Cap = 8
    Suffix = 2
    MaxUser = 3
    MaxFile = 3
    UserLines <- MCUserLines
    ArgsFiles <- MCArgsFiles
    Block = 2
    Failures = {}
    MaxDhcp = 0
INVARIANT StripsTheFile
