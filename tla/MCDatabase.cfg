SPECIFICATION MCSpec
CONSTANTS
    Jobs = {j1, j2}
    Series = {cpi, dgs10}
    Texts = {0, 2, 4}
    max_tokens = 2
    overlap_tokens = 1
    MaxStarts = 2
    MaxCommands = 3
    MaxText = 9
    MaxWindow = 4
CHECK_DEADLOCK FALSE
INVARIANTS
    ScriptsInvert
    HeadServesModels
    FilingChunksComplete
    MacroCountsCommitted
    ChunksCoverText
