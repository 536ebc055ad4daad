CONSTANTS
    Mutations = {m1, m2}
    Writers = {}
    Autos = {}
    Manuals = {}
    Resumes = {}
    Wakes = {}
    Pauses = {}
    Hibernates = {}
    Nobody = Nobody
    Concierge = FALSE
    Window = 1
    AutoLimit = 1
    AutoWindow = 2
    MaxFaults = 0
SPECIFICATION Spec
CHECK_DEADLOCK FALSE
INVARIANTS NotDropped
