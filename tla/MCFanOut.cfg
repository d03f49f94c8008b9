SPECIFICATION FanSpec
CONSTANTS
    Domains <- MCDomains
    Registered = {"seismic", "ocean"}
    Listeners = {"ocean", "seismic"}
    Collaboration = TRUE
    Returns = {"evidence", "empty", "raises"}
INVARIANTS
    Aligned
    SiblingsKeepEvidence
PROPERTIES
    Terminates
