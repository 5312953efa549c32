\* The documents of MCExtraction, up to six pages each.  A finished or failed
\* run stops, so deadlock is not checked.
SPECIFICATION Spec
CONSTANTS
    Docs <- MCDocs
    MaxTemp = 8
    MaxUnits = 6
    MaxCells = 8
    SampleSize = 3
    MaxScratch = 4
INVARIANTS TypeOK EvidenceKeptOnce NativeTextKept GridsAreSound ReadsDownward SuspectsAreMarked WithinBudget
PROPERTY RecoveryKeepsWords
CHECK_DEADLOCK FALSE
