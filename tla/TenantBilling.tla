------------------------------ MODULE TenantBilling ------------------------------
(***************************************************************************)
(* The invoices of tenant-app: the functions that create those of a month,  *)
(* mark the overdue ones and send reminders, and what an administrator does *)
(* to them meanwhile.  A function reads and writes one record per request   *)
(* and holds nothing in between; it is started by hand, by anyone, and can  *)
(* break off anywhere.                                                     *)
(*                                                                         *)
(* A day is a month here: an invoice is due in the month it is made, and a  *)
(* reminder goes out one month later.                                      *)
(***************************************************************************)
EXTENDS Absent, Sequences

CONSTANTS
    Leases,        \* sequence of the active leases, in the order they are listed
    Callers,       \* calls of functions that can be under way at a time
    Statuses,      \* bound: the statuses an administrator gives to invoices
    TypedNumbers,  \* bound: what an administrator types as the number of an invoice
    LastMonth,     \* bound: the months go from 1 to this one
    MaxInvoices,   \* bound
    MaxCalls,      \* bound: calls, over all
    MaxBreaks      \* bound: calls that break off

ASSUME LeasesAssumption ==
    /\ Leases \in Seq({Leases[i] : i \in DOMAIN Leases})
    /\ \A i \in DOMAIN Leases : Leases[i] # None
    /\ TypedNumbers \subseteq Nat \cup {None}
    /\ MaxInvoices \in Nat

VARIABLES
    invoices,    \* sequence of records
    settings,    \* the row of InvoiceSettings: "none" or "saved"
    counter,     \* its invoice_counter, 1 where it has none
    thisMonth,
    calls,       \* what each caller is doing
    mails,       \* reminders sent for each invoice
    overlapped,  \* history: functions that ran twice at a time
    unfinished,  \* history: functions of which a call has ended before its last write
    callsUsed    \* calls and breaks so far

billingVars ==
    <<invoices, settings, counter, thisMonth, calls, mails, overlapped, unfinished, callsUsed>>

NoCall     == [fn |-> "none"]
InvoiceIds == DOMAIN invoices

BillingInit ==
    /\ invoices = <<>> /\ settings \in {"none", "saved"} /\ counter = 1 /\ thisMonth = 1
    /\ calls = [c \in Callers |-> NoCall]
    /\ mails = [i \in 1..MaxInvoices |-> 0]
    /\ overlapped = {} /\ unfinished = {}
    /\ callsUsed = [calls |-> 0, breaks |-> 0]

\* A call goes on.
GoOn(c, call) ==
    /\ calls' = [calls EXCEPT ![c] = call]
    /\ UNCHANGED <<settings, thisMonth, overlapped, unfinished, callsUsed>>

BeginCall(c, call) ==
    /\ calls[c] = NoCall /\ callsUsed.calls < MaxCalls
    /\ callsUsed' = [callsUsed EXCEPT !.calls = @ + 1]
    /\ calls' = [calls EXCEPT ![c] = call]
    /\ overlapped' = IF \E e \in Callers : calls[e].fn = call.fn
                   THEN overlapped \cup {call.fn} ELSE overlapped
    /\ UNCHANGED <<invoices, settings, counter, thisMonth, mails, unfinished>>

-------------------------------------------------------------------------------
\* generateMonthlyInvoices: settings and leases are read at the start.  For each
\* lease, one request looks for the month's invoice and the next one creates it.  At the
\* end the counter is stored in the row that was read; without one it is lost.

NewInvoice(lease, number, month, status) ==
    [lease |-> lease, number |-> number, month |-> month, due |-> month,
     status |-> status, reminded |-> FALSE]

Generate(c) ==
    BeginCall(c, [fn |-> "generate", month |-> thisMonth, number |-> counter,
                  stored |-> settings = "saved", left |-> Leases, at |-> "look"])

\* A plausible slip: only invoices that have not been paid count as made.
OpenOf(lease, month) ==
    {i \in InvoiceIds : invoices[i].lease = lease /\ invoices[i].month = month
                        /\ invoices[i].status # "paid"}

InvoicesOf(lease, month) ==
    {i \in InvoiceIds : invoices[i].lease = lease /\ invoices[i].month = month}

Look(c) ==
    LET call == calls[c]
    IN  /\ call.fn = "generate" /\ call.at = "look" /\ call.left # <<>>
        /\ IF InvoicesOf(Head(call.left), call.month) # {}
           THEN GoOn(c, [call EXCEPT !.left = Tail(@)])
           ELSE GoOn(c, [call EXCEPT !.at = "create"])
        /\ UNCHANGED <<invoices, counter, mails>>

CreateInvoice(c) ==
    LET call == calls[c]
    IN  /\ call.fn = "generate" /\ call.at = "create" /\ Len(invoices) < MaxInvoices
        /\ invoices' = Append(invoices,
                              NewInvoice(Head(call.left), call.number, call.month, "sent"))
        /\ GoOn(c, [call EXCEPT !.left = Tail(@), !.number = @ + 1, !.at = "look"])
        /\ UNCHANGED <<counter, mails>>

Count(c) ==
    LET call == calls[c]
    IN  /\ call.fn = "generate" /\ call.left = <<>>
        /\ counter' = IF call.stored THEN call.number ELSE counter
        /\ unfinished' = IF call.stored \/ call.number = counter THEN unfinished
                         ELSE unfinished \cup {"generate"}
        /\ calls' = [calls EXCEPT ![c] = NoCall]
        /\ UNCHANGED <<invoices, settings, thisMonth, mails, overlapped, callsUsed>>

-------------------------------------------------------------------------------
\* checkOverdueInvoices: the open ones are listed and updated, then the ones sent.
\* What is listed is written, whatever has become of it since.

Overdue(c) ==
    BeginCall(c, [fn |-> "overdue", now |-> thisMonth, wants |-> <<"open", "sent">>, left |-> {}])

ListDue(c) ==
    LET call == calls[c]
    IN  /\ call.fn = "overdue" /\ call.left = {} /\ call.wants # <<>>
        /\ GoOn(c, [call EXCEPT !.wants = Tail(@),
                                !.left = {i \in InvoiceIds :
                                             /\ invoices[i].status = Head(call.wants)
                                             /\ invoices[i].due < call.now}])
        /\ UNCHANGED <<invoices, counter, mails>>

MarkOverdue(c) ==
    LET call == calls[c]
    IN  /\ call.fn = "overdue"
        /\ \E i \in call.left :
              /\ invoices' = [invoices EXCEPT ![i].status = "overdue"]
              /\ GoOn(c, [call EXCEPT !.left = @ \ {i}])
        /\ UNCHANGED <<counter, mails>>

-------------------------------------------------------------------------------
\* sendInvoiceReminders: the mail is sent, then the invoice is marked.  An error of
\* either is caught, and the next invoice is taken.

Remind(c) ==
    BeginCall(c, [fn |-> "remind", now |-> thisMonth, at |-> "list", left |-> {}, sent |-> {}])

\* A plausible slip: every overdue invoice is reminded of in each run.
OverdueAtAll == {i \in InvoiceIds : invoices[i].status = "overdue"}

ToBeReminded == {i \in InvoiceIds : invoices[i].status = "overdue" /\ ~invoices[i].reminded}

ListReminders(c) ==
    LET call == calls[c]
    IN  /\ call.fn = "remind" /\ call.at = "list"
        /\ GoOn(c, [call EXCEPT !.at = "mail",
                                !.left = {i \in ToBeReminded : invoices[i].due < call.now}])
        /\ UNCHANGED <<invoices, counter, mails>>

Mail(c) ==
    LET call == calls[c]
    IN  /\ call.fn = "remind" /\ call.sent = {}
        /\ \E i \in call.left :
              /\ mails' = [mails EXCEPT ![i] = @ + 1]
              /\ GoOn(c, [call EXCEPT !.left = @ \ {i}, !.sent = {i}])
        /\ UNCHANGED <<invoices, counter>>

MarkReminded(c) ==
    LET call == calls[c]
    IN  /\ call.fn = "remind"
        /\ \E i \in call.sent : invoices' = [invoices EXCEPT ![i].reminded = TRUE]
        /\ GoOn(c, [call EXCEPT !.sent = {}])
        /\ UNCHANGED <<counter, mails>>

\* The mail is out and the mark is refused, or the mail itself: the call goes on with
\* the next one.
SkipInvoice(c) ==
    LET call == calls[c]
    IN  /\ call.fn = "remind" /\ callsUsed.breaks < MaxBreaks
        /\ callsUsed' = [callsUsed EXCEPT !.breaks = @ + 1]
        /\ \/ /\ call.sent # {}
              /\ unfinished' = unfinished \cup {"remind"}
              /\ calls' = [calls EXCEPT ![c].sent = {}]
           \/ /\ call.sent = {}
              /\ \E i \in call.left : calls' = [calls EXCEPT ![c].left = @ \ {i}]
              /\ UNCHANGED unfinished
        /\ UNCHANGED <<invoices, settings, counter, thisMonth, mails, overlapped>>

-------------------------------------------------------------------------------
\* The end of a call that has nothing left to do, and one that breaks off.
Return(c) ==
    LET call == calls[c]
    IN  /\ \/ call.fn = "overdue" /\ call.left = {} /\ call.wants = <<>>
           \/ call.fn = "remind" /\ call.at = "mail" /\ call.left = {} /\ call.sent = {}
        /\ GoOn(c, NoCall)
        /\ UNCHANGED <<invoices, counter, mails>>

Break(c) ==
    /\ calls[c] # NoCall /\ callsUsed.breaks < MaxBreaks
    /\ callsUsed' = [callsUsed EXCEPT !.breaks = @ + 1]
    /\ unfinished' = unfinished \cup {calls[c].fn}
    /\ calls' = [calls EXCEPT ![c] = NoCall]
    /\ UNCHANGED <<invoices, settings, counter, thisMonth, mails, overlapped>>

\* The administrator's pages: an invoice made by hand, with any number or none, any
\* status for any invoice, and the settings, whose form has no counter.
CreateByHand ==
    /\ Len(invoices) < MaxInvoices
    /\ \E number \in TypedNumbers :
          invoices' = Append(invoices, NewInvoice(None, number, thisMonth, "open"))
    /\ UNCHANGED <<settings, counter, thisMonth, calls, mails, overlapped, unfinished, callsUsed>>

SetStatus(i) ==
    /\ \E status \in Statuses : invoices' = [invoices EXCEPT ![i].status = status]
    /\ UNCHANGED <<settings, counter, thisMonth, calls, mails, overlapped, unfinished, callsUsed>>

SaveSettings ==
    /\ settings' = "saved"
    /\ UNCHANGED <<invoices, counter, thisMonth, calls, mails, overlapped, unfinished, callsUsed>>

NextMonth ==
    /\ thisMonth < LastMonth
    /\ thisMonth' = thisMonth + 1
    /\ UNCHANGED <<invoices, settings, counter, calls, mails, overlapped, unfinished, callsUsed>>

\* Nothing has to be done; and a month's run waits where MaxInvoices ends the model.
BillingRest ==
    /\ \A c \in Callers : calls[c] = NoCall \/ calls[c].fn = "generate"
    /\ UNCHANGED billingVars

BillingNext ==
    \/ \E c \in Callers :
          \/ Generate(c) \/ Look(c) \/ CreateInvoice(c) \/ Count(c)
          \/ Overdue(c) \/ ListDue(c) \/ MarkOverdue(c)
          \/ Remind(c) \/ ListReminders(c) \/ Mail(c) \/ MarkReminded(c) \/ SkipInvoice(c)
          \/ Return(c) \/ Break(c)
    \/ CreateByHand \/ SaveSettings \/ NextMonth \/ BillingRest
    \/ \E i \in InvoiceIds : SetStatus(i)

BillingSpec == BillingInit /\ [][BillingNext]_billingVars

-------------------------------------------------------------------------------
\* A lease is billed once a month, however often the month's run is repeated, breaks
\* off or is paid for meanwhile, as long as two runs do not overlap.  And as long as each
\* run has stored what it had counted - it did not break off before, and the settings
\* had a row when it began - no two invoices of leases have the same number.
BilledOnce ==
    "generate" \notin overlapped =>
        \A i, j \in InvoiceIds : i # j /\ None \notin {invoices[i].lease, invoices[j].lease} =>
            /\ <<invoices[i].lease, invoices[i].month>> # <<invoices[j].lease, invoices[j].month>>
            /\ "generate" \notin unfinished => invoices[i].number # invoices[j].number

\* A tenant is reminded of an invoice once, unless two runs overlap or one breaks off
\* between the mail and the mark - whatever the sweep for overdue invoices does to
\* the status meanwhile.
RemindedOnce ==
    {"remind"} \cap (overlapped \cup unfinished) = {} => \A i \in InvoiceIds : mails[i] <= 1
===============================================================================
