----------------------------- MODULE MCBackOffice -----------------------------
(***************************************************************************)
(* Small instances of four parts behind the pages that share nothing: the   *)
(* stock, the numbers of new rows, the invoices of a month, and the invoice *)
(* functions of tenant-app.  A behaviour follows one of them, chosen at the *)
(* start; the others rest in an initial state.                             *)
(***************************************************************************)
EXTENDS MCInventory, Numbering, InvoiceRun, TenantBilling, RuledPages

VARIABLE part   \* the model that is followed

TwoLeases == <<"l1", "l2">>

EmptyStore ==
    /\ items = [i \in Items |-> None] /\ placed = [a \in Assignments |-> None]
    /\ units = Units /\ home = [r \in Rooms |-> None]
    /\ job = [w \in Workers |-> Idle]

RestsRun == active = {} /\ RunInit

RestsBilling == settings = "none" /\ BillingInit

BackOfficeInit ==
    \/ part = "stock" /\ Init /\ NumberingInit /\ RestsRun /\ RestsBilling
    \/ part = "numbers" /\ NumberingInit /\ EmptyStore /\ RestsRun /\ RestsBilling
    \/ part = "invoices" /\ RunInit /\ EmptyStore /\ NumberingInit /\ RestsBilling
    \/ part = "billing" /\ BillingInit /\ EmptyStore /\ NumberingInit /\ RestsRun

BackOfficeNext ==
    \/ part = "stock" /\ Next /\ UNCHANGED <<part, numberVars, runVars, billingVars>>
    \/ part = "numbers" /\ NumberingNext /\ UNCHANGED <<part, vars, runVars, billingVars>>
    \/ part = "invoices" /\ RunNext /\ UNCHANGED <<part, vars, numberVars, billingVars>>
    \/ part = "billing" /\ BillingNext /\ UNCHANGED <<part, vars, numberVars, runVars>>

BackOfficeSpec ==
    BackOfficeInit /\ [][BackOfficeNext]_<<part, vars, numberVars, runVars, billingVars>>
===============================================================================
