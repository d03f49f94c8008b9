SPECIFICATION Spec
CONSTANTS
    Spelling <- MCSpelling
    LOCAL_GEOCODE_DB <- MCGeocode
    Operators = {o1, o2}
    o1 = o1
    o2 = o2
    Commands <- MCCommands
    Labels = {"Paris", "Atlantis"}
    Coordinates = "1.00 44.00"
    MaxRows = 1
    WrittenTables = {"eval_benchmark_runs"}
INVARIANTS
    RevisionIsSchema
    RefusedOnlyByRace
    HeadServesModels
    PlaceIsHonest
