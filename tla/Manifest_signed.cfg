SPECIFICATION Spec
CONSTANTS
    Paths <- MCPaths
    Names <- MCNames
    Covers <- MCCovers
    CodeFiles = {"code"}
    Hardwired = {"soul"}
    NoRow = NoRow
    NoFile = NoFile
    Owners = {o1, o2}
    Deadlines = {0}
    Unread = Unread
    Blank = Blank
    Unsigned = Unsigned
    Schemas <- MCSchemas
    Disks <- MCDisks
    Tables <- MCTables
    Fields <- MCFields
    LastDay = 1
    MaxScripts = 2
    MaxEdits = 1
SYMMETRY MCSymmetry
INVARIANTS TypeOK SignedByOwner ScriptsAtomic ReadersAgree
CHECK_DEADLOCK FALSE
