------------------------------- MODULE MCTenancy -------------------------------
(***************************************************************************)
(* Small instances of Tenancy and Occupancy: which request bodies the      *)
(* workers send.                                                           *)
(***************************************************************************)
EXTENDS UnitStatus, TLC

CONSTANTS ann, bob

Primary(x) == [tenant |-> x, role |-> "primary_tenant"]
CoTenant(x) == [tenant |-> x, role |-> "co_tenant"]

Parties == {{Primary(ann)}, {Primary(bob)}, {Primary(ann), CoTenant(bob)}}

Body(room, from, to, term, act, st, who) ==
    [room |-> room, moveIn |-> from, moveOut |-> to, termination |-> term,
     actualOut |-> act, status |-> st, people |-> who]

NoField == [moveIn |-> Keep, moveOut |-> Keep, termination |-> Keep,
            actualOut |-> Keep, status |-> Keep, people |-> Keep]

\* One worker: every single-field date patch, a status change and a new party.
SerialCreates ==
    {Body(room, from, to, None, None, st, {Primary(ann)}) :
        room \in Rooms, from \in Date, to \in OptDate, st \in {"active", "reserved"}}
    \cap Create

SerialPatches ==
    {[NoField EXCEPT !.moveIn = d] : d \in Date}
    \cup {[NoField EXCEPT !.moveOut = d] : d \in OptDate}
    \cup {[NoField EXCEPT !.termination = d] : d \in OptDate}
    \cup {[NoField EXCEPT !.actualOut = d] : d \in OptDate}
    \cup {[NoField EXCEPT !.status = "ended"]}
    \cup {[NoField EXCEPT !.people = P] : P \in Parties}
    \cup {[NoField EXCEPT !.people = {Primary(bob)}, !.termination = d] : d \in {2}}

\* Several workers: few bodies, picked so that they get in each other's way:
\* stays that are free of each other until one is moved, both end dates of one
\* contract, and two different parties.
RaceCreates ==
    {Body(room, 1, 2, None, None, "active", {Primary(ann)}) : room \in Rooms}
    \cup {Body(room, 3, None, None, None, "reserved", {Primary(bob)}) : room \in Rooms}

RacePatches ==
    {[NoField EXCEPT !.termination = 3],
     [NoField EXCEPT !.moveIn = 2, !.moveOut = 3],
     [NoField EXCEPT !.people = {Primary(bob)}],
     [NoField EXCEPT !.people = {Primary(ann), CoTenant(bob)}, !.actualOut = 2]}

Interchangeable == Permutations(Workers) \cup Permutations(Tenancies)

\* One contract, and requests for its participants and its dates.
PartyCreates == {Body(room, 1, 2, None, None, "active", {Primary(ann)}) : room \in Rooms}

PartyPatches ==
    {[NoField EXCEPT !.people = {Primary(bob)}],
     [NoField EXCEPT !.people = {Primary(ann), CoTenant(bob)}, !.actualOut = 2]}

\* Two end dates for one contract, and a stay that starts where the later one ends.
EndCreates ==
    {Body(room, 1, 2, None, None, "active", {Primary(ann)}) : room \in Rooms}
    \cup {Body(room, 4, None, None, None, "reserved", {Primary(bob)}) : room \in Rooms}

EndPatches ==
    {[NoField EXCEPT !.termination = 4], [NoField EXCEPT !.actualOut = 3]}

===============================================================================
