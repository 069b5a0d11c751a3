-------------------------------- MODULE Numbering --------------------------------
(***************************************************************************)
(* Numbers that are given out in sequence: inventory_number of an item and  *)
(* short_unit_id of a unit.  A request reads the highest number there is,   *)
(* takes the next one and inserts its row; the unique index decides, and    *)
(* who comes second tries again, a bounded number of times.                *)
(*                                                                         *)
(* One series (a year of items, a type of units) is modelled: numbers of    *)
(* different series never meet.                                            *)
(***************************************************************************)
EXTENDS Naturals, FiniteSets

CONSTANTS
    Clerks,        \* requests that create a row
    MaxAttempts,   \* range(8)
    MaxNumber      \* bound: the highest number that is read

VARIABLES
    taken,    \* the numbers of the rows that are committed
    given,    \* history: the numbers that ever were
    asking,      \* what each request is doing
    lost,     \* the requests whose body names a city that is not there
    beaten    \* history: commits of others since the request began, up to MaxAttempts

numberVars == <<taken, given, asking, lost, beaten>>

Number == 1 .. MaxNumber
IdleClerk == [at |-> "idle", number |-> 0, tries |-> 0]
ClerkAt(c, step) == asking[c].at = step

\* The number after the highest one.
IsNext(n) == (\A m \in taken : m < n) /\ (n = 1 \/ n - 1 \in taken)

\* A row that is inserted and not committed keeps others from its number.
NumberHeld(c) ==
    \E d \in Clerks \ {c} : ClerkAt(d, "inserted") /\ asking[d].number = asking[c].number

NumberingInit ==
    /\ taken = {} /\ given = {}
    /\ asking = [c \in Clerks |-> IdleClerk]
    /\ lost = {}
    /\ beaten = [c \in Clerks |-> 0]

-------------------------------------------------------------------------------
\* The body of a unit may name a city that does not exist: nobody looks it up, unlike
\* the other rows it names, which are never deleted.
BeginRow(c) ==
    /\ ClerkAt(c, "idle")
    /\ lost' \in {lost \ {c}, lost \cup {c}}
    /\ asking' = [asking EXCEPT ![c] = [at |-> "read", number |-> 0, tries |-> 0]]
    /\ beaten' = [beaten EXCEPT ![c] = 0]
    /\ UNCHANGED <<taken, given>>

\* _next_inventory_number, allocate_next_short_unit_id
ReadNext(c) ==
    /\ ClerkAt(c, "read")
    /\ \E n \in Number :
          /\ IsNext(n)
          /\ asking' = [asking EXCEPT ![c].at = "insert", ![c].number = n]
    /\ UNCHANGED <<taken, given, lost, beaten>>

\* The flush.  On a number that another transaction holds it waits for its end.
InsertRow(c) ==
    /\ ClerkAt(c, "insert")
    /\ asking[c].number \notin taken /\ ~NumberHeld(c) /\ c \notin lost
    /\ asking' = [asking EXCEPT ![c].at = "inserted"]
    /\ UNCHANGED <<taken, given, lost, beaten>>

\* A plausible slip: after a collision the same number is tried again.
SameNumber(c) == [asking[c] EXCEPT !.at = "insert", !.tries = @ + 1]

\* After a collision the number is read anew.
Retried(c) == [asking[c] EXCEPT !.at = "read", !.tries = @ + 1]

LastTry(c) == asking[c].tries + 1 = MaxAttempts

\* A unique or a foreign key refuses the row: the code tells the two not apart.
Collides(c) ==
    /\ ClerkAt(c, "insert")
    /\ asking[c].number \in taken \/ (c \in lost /\ ~NumberHeld(c))

Retry(c) ==
    /\ Collides(c) /\ ~LastTry(c)
    /\ asking' = [asking EXCEPT ![c] = Retried(c)]
    /\ UNCHANGED <<taken, given, lost, beaten>>

\* "Could not allocate", after the last attempt.
GiveUp(c) ==
    /\ Collides(c) /\ LastTry(c)
    /\ asking' = [asking EXCEPT ![c] = IdleClerk]
    /\ UNCHANGED <<taken, given, lost, beaten>>

Overtaken(n) == IF n < MaxAttempts THEN n + 1 ELSE n

CommitRow(c) ==
    /\ ClerkAt(c, "inserted")
    /\ taken' = taken \cup {asking[c].number}
    /\ given' = given \cup {asking[c].number}
    /\ asking' = [asking EXCEPT ![c] = IdleClerk]
    /\ beaten' = [d \in Clerks |->
                    IF ClerkAt(d, "idle") \/ d = c THEN beaten[d] ELSE Overtaken(beaten[d])]
    /\ UNCHANGED lost

\* The connection is lost, or a later step of the request fails.
RollBackRow(c) ==
    /\ ~ClerkAt(c, "idle")
    /\ asking' = [asking EXCEPT ![c] = IdleClerk]
    /\ UNCHANGED <<taken, given, lost, beaten>>

\* DELETE of an item or a unit.
RemoveRow(n) ==
    /\ n \in taken
    /\ taken' = taken \ {n}
    /\ UNCHANGED <<given, asking, lost, beaten>>

NumberingNext ==
    \/ \E c \in Clerks :
          \/ BeginRow(c) \/ ReadNext(c) \/ InsertRow(c) \/ Retry(c) \/ GiveUp(c) \/ CommitRow(c)
          \/ RollBackRow(c)
    \/ \E n \in Number : RemoveRow(n)

NumberingSpec == NumberingInit /\ [][NumberingNext]_numberVars

-------------------------------------------------------------------------------
NumberingTypeOK ==
    /\ taken \subseteq given /\ given \subseteq Number
    /\ asking \in [Clerks -> [at: {"idle", "read", "insert", "inserted"},
                           number: Number \cup {0}, tries: 0 .. MaxAttempts - 1]]
    /\ beaten \in [Clerks -> 0 .. MaxAttempts]
    /\ lost \subseteq Clerks

\* A request that is refused a number ("Could not allocate") has been overtaken by a commit
\* for each of its attempts, or names a city that is not there: while fewer than eight
\* others create rows, nobody with a sound body is turned away.
RefusesTheBeaten == \A c \in Clerks : GiveUp(c) => beaten[c] = MaxAttempts \/ c \in lost
GivesUpOnlyIfBeaten == [][RefusesTheBeaten]_numberVars

\* The numbers that were ever given have no gap, whatever is deleted, collides or rolls
\* back between the reading of a number and its commit.
NoGaps == \A n \in given : n = 1 \/ n - 1 \in given

===============================================================================
