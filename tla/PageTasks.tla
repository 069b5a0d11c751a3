-------------------------------- MODULE PageTasks --------------------------------
(***************************************************************************)
(* The words in which the pages of the browser are written down.           *)
(*                                                                         *)
(* A page shows slots (the record, its notes, its documents ...) and runs  *)
(* tasks: loads, which begin when the page shows a record or when another   *)
(* task calls them, and clicks.  A task is a sequence of steps; a step      *)
(* sends a change, fetches what slots show, or both, and waits for answers. *)
(***************************************************************************)
EXTENDS Requests, Sequences

\* What becomes of a slot whose request fails: the task ends in its error branch
\* ("fail"), or the error is caught and the slot emptied ("blank") or kept ("keep").
Get(api)   == [api |-> api, else |-> "fail"]
Blank(api) == [api |-> api, else |-> "blank"]
Hold(api)  == [api |-> api, else |-> "keep"]

Nil == "nil"
NoSlots == [s \in {} |-> Nil]

\* gets: the slots fetched; shows: those set when the step is over; guarded: not
\* if the route has moved on; sends: the change; adds: the answer is put in front
\* of what the slot shows.
Fetch(gets) == [gets |-> gets, shows |-> DOMAIN gets, guarded |-> FALSE,
                sends |-> Nil, adds |-> FALSE]

Guarded(step)      == [step EXCEPT !.guarded = TRUE]
Only(slots, step)  == [step EXCEPT !.shows = slots]
SetHeld(slots)     == [Fetch(NoSlots) EXCEPT !.shows = slots]
Send(api)          == [Fetch(NoSlots) EXCEPT !.sends = api]

\* The answer to a change is shown as the record.
SendAndShow(api, slot) == [Fetch(slot :> Get(api)) EXCEPT !.sends = api]
SendAndAdd(api, slot)  == [SendAndShow(api, slot) EXCEPT !.adds = TRUE]

\* flag: raised while the task runs; calls: loads started at its end, not awaited;
\* clears: slots emptied, and forms closed, at its start; fills: forms that its answers
\* are put into; shuts: forms, besides its own, that its success empties and closes;
\* leaves: its success ends the visit of the page.
Task(start, flag, steps) ==
    [start |-> start, flag |-> flag, steps |-> steps, lowers |-> "always", clears |-> {},
     calls |-> {}, fills |-> {}, shuts |-> {}, leaves |-> FALSE, again |-> "beside"]

PageLoad(flag, steps)  == Task("route", flag, steps)
Called(flag, steps)    == Task("called", flag, steps)
Click(flag, steps)     == Task("click", flag, steps)

\* A click that changes what slots show and sends nothing.
Locally(slots) == Task("local", Nil, <<[SetHeld(slots) EXCEPT !.adds = TRUE]>>)

Clearing(slots, task)  == [task EXCEPT !.clears = slots]
Calling(tasks, task)   == [task EXCEPT !.calls = tasks]
Filling(forms, task)   == [task EXCEPT !.fills = forms]
Shutting(forms, task)  == [task EXCEPT !.shuts = forms]
Leaving(task)          == [task EXCEPT !.leaves = TRUE]

\* The flag is lowered only if the route has not moved on, or only by an answer.
LiveFlag(task)         == [task EXCEPT !.lowers = "live"]
AnswerFlag(task)       == [task EXCEPT !.lowers = "answer"]
\* Started again while it runs, a load takes the place of its earlier run: always, or
\* only once the slot has something to show.
Replacing(task)        == [task EXCEPT !.again = "replaces"]
Cached(task)           == [task EXCEPT !.again = "cached"]

\* A button in five dialogs: the address typed in is looked up, and the canton of the
\* answer is put into the form, whatever has been chosen there meanwhile.
CheckAddress(forms) == Filling(forms, Click("address", <<Send("verifyAdminAddress")>>))

-------------------------------------------------------------------------------
\* What a page draws: its view is a set of parts.

NoOffers == [t \in {} |-> {}]

\* shows: the slots it draws, or computes its figures from; waits: the flags that put
\* something else in its place; offers: the clicks and the forms that can be had from
\* it, each with the flags that disable it; needs: slots without which it draws a dash;
\* owns: slots of which it draws only the rows of the page's record.
Part(shows, waits, offers) ==
    [shows |-> shows, waits |-> waits, offers |-> offers, needs |-> {}, owns |-> {},
     form |-> Nil, fills |-> Nil, frees |-> {}]

Shows(slots)         == Part(slots, {}, NoOffers)
Awaits(flags, slots) == Part(slots, flags, NoOffers)
Offers(clicks)       == Part({}, {}, clicks)
Dashed(slots, part)  == [part EXCEPT !.needs = slots]
Own(slots, part)     == [part EXCEPT !.owns = slots]

\* A form: what is typed into it is kept until a click it offers has succeeded.  It is
\* filled from a slot when it is opened, or begins empty (Nil).  It offers to type into
\* its fields and to close it, besides its clicks.
InForm(name, offers)       == [Part({}, {}, offers) EXCEPT !.form = name]
Dialog(name, slot, offers) == [InForm(name, offers) EXCEPT !.fills = slot]
Fields(name, flags)        == InForm(name, [type |-> flags])

\* The flags that its opening lowers.
Freeing(lowered, part) == [part EXCEPT !.frees = lowered]

\* Flags in whose place a whole page puts something else.
Behind(waits, view) == {[part EXCEPT !.waits = @ \cup waits] : part \in view}
===============================================================================
