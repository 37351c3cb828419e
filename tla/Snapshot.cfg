\* Snapshots of up to two frames, saved, cut off, damaged, loaded and restored.
SPECIFICATION SnapshotSpec
CONSTANTS
    x = x
    y = y
    ruined = ruined
    NUL = NUL
    None = None
    Cut = Cut
    Ruined <- MCRuined
    Objects <- MCObjects
    FRAME_CAPACITY = 1
    MaxFrames = 2
    MaxLoaded = 1
INVARIANTS
    LoadsTheLastSave
    RestoresWhatWasSaved
