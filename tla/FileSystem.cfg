CONSTANTS
    TotalBlocks = 7
    CELLS = 2
    TotalInodes = 4
    DIRECT = 2
    MaxFiles = 1
    Names = {a, b, c}
    Values = {v}
    Zero = Zero
    None = None
    MaxCreates = 3
    MaxSize = 5
    MaxCalls = 5
    Sizes = {0, 3}
SPECIFICATION Spec
SYMMETRY Symmetry
CONSTRAINT Followed
INVARIANTS TypeOK NoSharedBlocks SettledDataSurvives
PROPERTY OnlyOpenFilesChange
