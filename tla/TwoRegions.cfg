CONSTANTS
    n_blocks = 13
    MapEntries = 4
    DirEntries = 2
    DirNewPaths <- MCRegionDirs
    FileNewPaths <- MCRegionFiles
    DirPaths <- MCDirPaths
    OpenPaths <- MCOpenPaths
    FilePaths <- MCFilePaths
    Renames <- MCRenames
    Modes <- MCModes
    Careful = TRUE
    MaxVolumes = 1
    MaxCrashes = 0
SPECIFICATION Spec
INVARIANT UniqueNames
