CONSTANTS
    Half26 = 3
    Half19 = 2
    MaxWords = 4
    MaxLabels = 2
SPECIFICATION Spec
CHECK_DEADLOCK FALSE
INVARIANTS
    BranchesLand
    ListingHonest
