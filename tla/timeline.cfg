CONSTANTS
    Names = {1, 2, 3, 4, 5}
    MaxCauses = 2
SPECIFICATION TimelineSpec
INVARIANTS
    Convergent
    PlacesAndTips
