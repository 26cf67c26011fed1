CONSTANTS
    n_blocks = 9
    MapEntries = 4
    DirEntries = 2
    DirNewPaths <- MCDirNewPaths
    FileNewPaths <- MCFileNewPaths
    DirPaths <- MCDirPaths
    OpenPaths <- MCOpenPaths
    FilePaths <- MCFilePaths
    Renames <- MCRenames
    Modes <- MCModes
    Careful = TRUE
    MaxVolumes = 1
    MaxCrashes = 0
SPECIFICATION Spec
INVARIANT EntriesAllocated
