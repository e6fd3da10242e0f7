\* A transfer of the command line file that breaks off after a block.
SPECIFICATION Spec
CONSTANTS
    Cap = 8
    Suffix = 2
    MaxUser = 3
    MaxFile = 3
    UserLines <- MCUserLines
    ArgsFiles <- MCArgsFiles
    Block = 2
    Failures = {1}
    MaxDhcp = 0
INVARIANT UserLineIsFallback
