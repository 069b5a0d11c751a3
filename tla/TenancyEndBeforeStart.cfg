SPECIFICATION Spec
CONSTANTS
    None = None
    Keep = Keep
    ann = ann
    bob = bob
    Date = {1, 2, 3}
    Tenancies = {t1, t2}
    Rooms = {r1}
    Tenants = {ann, bob}
    Workers = {w1}
    Creates <- SerialCreates
    Patches <- SerialPatches
INVARIANTS
    EndsOnOrAfterStart
