SPECIFICATION Spec
CONSTANTS
    None = None
    Keep = Keep
    u1 = u1
    u2 = u2
    r1 = r1
    Items = {i1}
    Assignments = {a1, a2}
    Units = {u1, u2}
    Rooms = {r1}
    MaxQuantity = 2
    Creates <- RaceCreates
    Patches <- RacePatches
    Workers = {w1}
PROPERTIES
    StatusFollowsRows
