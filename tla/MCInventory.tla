------------------------------ MODULE MCInventory ------------------------------
(***************************************************************************)
(* Small instances of Inventory: one item, two units with a room between   *)
(* them, and the bodies of the requests.                                   *)
(***************************************************************************)
EXTENDS Inventory, TLC

CONSTANTS u1, u2, r1

Body(unit, room, n) == [unit |-> unit, room |-> room, quantity |-> n]

\* One for the unit and one for its room, so that the room's end puts both in one
\* slot.
RaceCreates == {Body(u1, None, 1), Body(u1, r1, 1)}

\* To another unit, to a larger part of the stock, and both at once.
RacePatches == {Body(u2, None, Keep), Body(Keep, Keep, 2), Body(u1, None, 2)}

Interchangeable == Permutations(Workers) \cup Permutations(Assignments)
===============================================================================
