CONSTANTS
    ann = ann
    bob = bob
    Person = {ann, bob}
    Creator = ann
    Names = {1, 2, 3, 4, 5, 6, 7, 8}
    Refs = {6, 7, 8}
    Texts = {"item/rename"}
    MaxCards = 2
    Assignees = {bob}
    Offliners = {bob}
    More = 3
    Starts <- BothStarts
SPECIFICATION Spec
CHECK_DEADLOCK FALSE
INVARIANTS
    
    MembersStand
 
