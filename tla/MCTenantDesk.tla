----------------------------- MODULE MCTenantDesk -----------------------------
(***************************************************************************)
(* A small instance of TenantDesk: which forms are filled in.              *)
(***************************************************************************)
EXTENDS TenantDesk, TLC

CONSTANTS ann, bob

\* Nobody talks to the back end but the desks.
NoBodies == {}

Form(room, from, term, second, revenue) ==
    [room |-> room, moveIn |-> from, termination |-> term, actualOut |-> None,
     second |-> second, revenue |-> revenue]

\* A stay that ends, with a row of revenue, and an open one with a second tenant
\* that begins where the first ends.
FewDrafts ==
    {Form(room, 1, 2, FALSE, 1) : room \in Rooms}
    \cup {Form(room, 2, None, TRUE, 1) : room \in Rooms}

\* Later than the agreed end, and an actual move-out before it.
FewEnds == {<<3, None>>, <<2, 1>>}

Interchangeable == Permutations(Tenancies) \cup Permutations(Desks)
===============================================================================
