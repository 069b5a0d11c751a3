------------------------------- MODULE InvoiceRun -------------------------------
(***************************************************************************)
(* The invoices of a month: generate_monthly_invoices picks the contracts   *)
(* that are active, and adds an invoice for each that has none, in one      *)
(* transaction.  Runs for the same month cross each other and the changes   *)
(* of contracts; PostgreSQL is at READ COMMITTED, and the unique constraint *)
(* on contract and month is all that is between two runs.                  *)
(***************************************************************************)
EXTENDS Absent

CONSTANTS
    Contracts,   \* ids of tenancies
    Runs         \* requests that generate the invoices of the month

VARIABLES
    rows,     \* the contracts that exist, with the tenant, room and unit they name
    active,   \* those that the query of a run selects
    billed,   \* those with a committed invoice for the month
    run       \* what each run is doing

runVars == <<rows, active, billed, run>>

IdleRun == [at |-> "idle", picked |-> {}, left |-> {}, this |-> None, added |-> {}]
RunJob == [at: {"idle", "each", "add"}, picked: SUBSET Contracts, left: SUBSET Contracts,
        this: Contracts \cup {None}, added: SUBSET Contracts]
RunAt(r, step) == run[r].at = step

RunInit ==
    /\ rows = Contracts
    /\ active \in SUBSET Contracts
    /\ billed = {}
    /\ run = [r \in Runs |-> IdleRun]

-------------------------------------------------------------------------------
\* The query at the head of a run.
Start(r) ==
    /\ RunAt(r, "idle")
    /\ run' = [run EXCEPT ![r] = [IdleRun EXCEPT !.at = "each", !.picked = active, !.left = active]]
    /\ UNCHANGED <<rows, active, billed>>

\* A plausible slip: what another run has added counts as there.
AlsoUncommitted(r, c) == c \in billed \/ \E s \in Runs : c \in run[s].added

\* The query for an invoice of the contract sees what is committed.
Existing(r, c) == c \in billed

Skip(r) ==
    /\ RunAt(r, "each")
    /\ \E c \in run[r].left :
          /\ Existing(r, c)
          /\ run' = [run EXCEPT ![r].left = @ \ {c}]
    /\ UNCHANGED <<rows, active, billed>>

Miss(r) ==
    /\ RunAt(r, "each")
    /\ \E c \in run[r].left :
          /\ ~Existing(r, c)
          /\ run' = [run EXCEPT ![r] = [@ EXCEPT !.at = "add", !.this = c]]
    /\ UNCHANGED <<rows, active, billed>>

\* The flush waits for the end of a run that has added the same invoice.
InvoiceHeld(r) == \E s \in Runs \ {r} : run[r].this \in run[s].added

Accepted(r) == run[r].this \in rows \ billed

Added(r) ==
    [at |-> "each", picked |-> run[r].picked, left |-> run[r].left \ {run[r].this},
     this |-> None, added |-> run[r].added \cup {run[r].this}]

Add(r) ==
    /\ RunAt(r, "add") /\ ~InvoiceHeld(r) /\ Accepted(r)
    /\ run' = [run EXCEPT ![r] = Added(r)]
    /\ UNCHANGED <<rows, active, billed>>

\* The unique constraint or a foreign key refuses one invoice, and the route takes the
\* whole run back.
RefuseRun(r) ==
    /\ RunAt(r, "add") /\ ~InvoiceHeld(r) /\ ~Accepted(r)
    /\ run' = [run EXCEPT ![r] = IdleRun]
    /\ UNCHANGED <<rows, active, billed>>

CommitRun(r) ==
    /\ RunAt(r, "each") /\ run[r].left = {}
    /\ billed' = billed \cup run[r].added
    /\ run' = [run EXCEPT ![r] = IdleRun]
    /\ UNCHANGED <<rows, active>>

\* The connection is lost, or two runs wait for each other and one is the victim.
RollBackRun(r) ==
    /\ ~RunAt(r, "idle")
    /\ run' = [run EXCEPT ![r] = IdleRun]
    /\ UNCHANGED <<rows, active, billed>>

\* Other requests change the dates or the status of a contract ...
Turn(c) ==
    /\ c \in rows
    /\ active' \in {active \cup {c}, active \ {c}}
    /\ UNCHANGED <<rows, billed, run>>

\* ... or delete it, which the foreign key of an invoice prevents.
Delete(c) ==
    /\ c \in rows \ billed
    /\ \A r \in Runs : c \notin run[r].added
    /\ rows' = rows \ {c} /\ active' = active \ {c}
    /\ UNCHANGED <<billed, run>>

RunNext ==
    \/ \E r \in Runs :
          Start(r) \/ Skip(r) \/ Miss(r) \/ Add(r) \/ RefuseRun(r) \/ CommitRun(r) \/ RollBackRun(r)
    \/ \E c \in Contracts : Turn(c) \/ Delete(c)

RunSpec == RunInit /\ [][RunNext]_runVars

-------------------------------------------------------------------------------
RunTypeOK ==
    /\ rows \subseteq Contracts /\ active \subseteq rows /\ billed \subseteq rows
    /\ run \in [Runs -> RunJob]

\* A run that answers leaves every contract it began with with an invoice of the month,
\* whichever runs were taken back meanwhile, and has billed none a second time.
AnswersBilled ==
    \A r \in Runs :
        CommitRun(r) => run[r].picked \subseteq billed' /\ run[r].added \cap billed = {}
AnsweredBilled == [][AnswersBilled]_runVars

===============================================================================
