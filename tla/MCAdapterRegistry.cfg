SPECIFICATION RegistrySpec
CONSTANTS
    Adapter = {"plain"}
    Proc = {p1, p2}
    Remote = {"plain"}
    Layers <- MCLayers
    Paths <- MCPaths
    NoAdapter = NoAdapter
    MaxCuts = 1
INVARIANTS
    SyncedIsUsableUnlessCut
    LoadsAreWhole
    MergesAreReplayable
    TrailExplainsState
SYMMETRY Procs
