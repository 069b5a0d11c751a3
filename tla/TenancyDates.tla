----------------------------- MODULE TenancyDates -----------------------------
(***************************************************************************)
(* The date rules of a tenancy: which day ends it, which days it covers,   *)
(* and when two tenancies of one room collide.  Days are integers; a NULL  *)
(* date column is the value None, which as an end means "open".            *)
(***************************************************************************)
EXTENDS Absent

CONSTANT Date   \* the calendar days in use

ASSUME DateAssumption == Date \subseteq Int /\ None \notin Int

OptDate == Date \cup {None}

\* max() over the operands that are not None; None when both are.
Later(a, b) ==
    IF a = None THEN b
    ELSE IF b = None THEN a
    ELSE IF a < b THEN b ELSE a

\* A plausible slip: a termination replaces the agreed move-out.
TerminationReplaces(moveOut, termination, actualOut) ==
    Later(IF termination = None THEN moveOut ELSE termination, actualOut)

\* The contract end is the later of move-out and termination; the actual
\* move-out may only push it further.
SchedulingEnd(moveOut, termination, actualOut) ==
    Later(Later(termination, moveOut), actualOut)

\* The end shown to users: the first of actual, termination, move-out that is set.
DisplayEnd(r) ==
    IF r.actualOut # None THEN r.actualOut
    ELSE IF r.termination # None THEN r.termination
    ELSE r.moveOut

RowEnd(r) == SchedulingEnd(r.moveOut, r.termination, r.actualOut)

\* move_out_date is overwritten with the scheduling end before every save.
Synced(r) == [r EXCEPT !.moveOut = RowEnd(r)]

EndsBefore(end, day) == end # None /\ end < day
EndsAfter(end, day)  == end # None => day < end

\* A stay from one day to an inclusive last day (None: open) covers a day.
Covers(from, to, day) == from <= day /\ ~EndsBefore(to, day)

-------------------------------------------------------------------------------
(***************************************************************************)
(* Two different tests for "the stays collide".                            *)
(***************************************************************************)

\* The service: half-open comparison, only against active and reserved rows,
\* each taken up to its scheduling end.
Open(r) == r.status \in {"active", "reserved"}

ServiceOverlap(r, moveIn, end) ==
    /\ Open(r)
    /\ EndsAfter(RowEnd(r), moveIn)
    /\ EndsAfter(end, r.moveIn)

\* The database: daterange(move_in, move_out + 1, '[)') && ..., every status,
\* on the stored move_out_date.
RangesMeet(a, b) ==
    /\ a.room = b.room
    /\ ~EndsBefore(a.moveOut, b.moveIn)
    /\ ~EndsBefore(b.moveOut, a.moveIn)

\* CHECK (move_out_date IS NULL OR move_out_date > move_in_date)
MoveOutAfterMoveIn(r) == EndsAfter(r.moveOut, r.moveIn)

-------------------------------------------------------------------------------
\* The badge of the admin UI; the first rule that applies decides.
DisplayStatus(r, today) ==
    IF EndsBefore(r.actualOut, today)                           THEN "ended"
    ELSE IF r.termination # None                                THEN "notice_given"
    ELSE IF r.actualOut = None /\ EndsBefore(r.moveOut, today)  THEN "ended"
    ELSE IF r.moveIn > today \/ r.status = "reserved"           THEN "reserved"
    ELSE IF r.status = "ended"                                  THEN "ended"
    ELSE "active"
===============================================================================
