------------------------------- MODULE UnitEditor -------------------------------
(***************************************************************************)
(* The form of AdminApartmentsPage, in which a unit and its rows of costs  *)
(* are created or edited.  The back end has no request that replaces the    *)
(* rows: a save lists them, deletes each one and creates those of the form, *)
(* one request after the other, and any of them may be the last to arrive.  *)
(*                                                                         *)
(* Other fields of the form are left out: all of them travel in the one     *)
(* request that comes first.                                               *)
(***************************************************************************)
EXTENDS Absent, SequencesExt

CONSTANTS
    Editors,        \* browser tabs of the administration
    FirstCosts,     \* of each unit there is at first: the kinds of its rows
    CostDrafts,     \* what a user may turn the rows of a form into
    MaxForms,       \* bound: forms opened or filled in
    MaxSaves,       \* bound: forms sent, and with them the units created
    MaxSaveFaults   \* bound: requests or answers that are lost

ASSUME CostsAssumption ==
    FirstCosts \in Seq(Seq(STRING)) /\ CostDrafts \subseteq Seq(STRING)

VARIABLES
    store,       \* the back end: live units, of every unit the rows in order of creation,
                 \* and the number of rows created so far
    form,        \* the form of each tab
    opening,     \* units whose rows a tab has asked for to open its form
    saving,      \* the chain of requests of each tab
    meant,       \* history: the rows of each unit as the last good save has shown them
    reported,    \* history: units whose save has failed with a message in their form
    missed,      \* history: units whose save has failed after their form was closed
    savedTwice,  \* history: units two tabs have saved at a time
    formsUsed    \* forms, saves and faults so far

editorVars == <<store, form, opening, saving, meant, reported, missed, savedTwice, formsUsed>>

Units    == DOMAIN store.costs
NoForm   == [open |-> FALSE, unit |-> None, rows |-> <<>>]
NoSave   == [at |-> "idle", unit |-> None, todo |-> <<>>, left |-> <<>>, all |-> <<>>,
             new |-> FALSE]
RowKinds(rows) == [i \in DOMAIN rows |-> rows[i].kind]
RowIds(rows)   == [i \in DOMAIN rows |-> rows[i].id]

\* The id of a row: <<0, n>> of the n-th one created.
EditorInit ==
    /\ store = [live  |-> DOMAIN FirstCosts, made |-> 0,
                costs |-> [u \in DOMAIN FirstCosts |-> [i \in DOMAIN FirstCosts[u] |->
                              [id |-> <<u, i>>, kind |-> FirstCosts[u][i]]]]]
    /\ form = [d \in Editors |-> NoForm]
    /\ opening = [d \in Editors |-> {}]
    /\ saving = [d \in Editors |-> NoSave]
    /\ meant = FirstCosts
    /\ reported = {} /\ missed = {} /\ savedTwice = {}
    /\ formsUsed = [forms |-> 0, saves |-> 0, faults |-> 0]

-------------------------------------------------------------------------------
\* The form.  The rows it proposes of its own have no amount, and a row without
\* one is not sent.

SetForm(d, f) == form' = [form EXCEPT ![d] = f]

FormClicked == formsUsed.forms < MaxForms /\ formsUsed' = [formsUsed EXCEPT !.forms = @ + 1]

OpenCreate(d) ==
    /\ ~form[d].open
    /\ FormClicked
    /\ SetForm(d, [NoForm EXCEPT !.open = TRUE])
    /\ UNCHANGED <<store, opening, saving, meant, reported, missed, savedTwice>>

\* The form of a unit opens when its rows have come; until then the list can be
\* clicked again.
OpenEdit(d, u) ==
    /\ ~form[d].open /\ u \in store.live
    /\ SetForm(d, [form[d] EXCEPT !.unit = u])
    /\ FormClicked
    /\ opening' = [opening EXCEPT ![d] = @ \cup {u}]
    /\ UNCHANGED <<store, saving, meant, reported, missed, savedTwice>>

\* Whatever form is there by then takes the rows, an error the proposed ones.
RowsArrive(d, u) ==
    /\ u \in opening[d]
    /\ opening' = [opening EXCEPT ![d] = @ \ {u}]
    /\ \/ /\ u \in store.live
          /\ SetForm(d, [form[d] EXCEPT !.open = TRUE, !.rows = RowKinds(store.costs[u])])
          /\ UNCHANGED formsUsed
       \/ /\ u \notin store.live \/ formsUsed.faults < MaxSaveFaults
          /\ formsUsed' =
                IF u \in store.live THEN [formsUsed EXCEPT !.faults = @ + 1] ELSE formsUsed
          /\ SetForm(d, [form[d] EXCEPT !.open = TRUE, !.rows = <<>>])
    /\ UNCHANGED <<store, saving, meant, reported, missed, savedTwice>>

Fill(d) ==
    /\ form[d].open /\ saving[d] = NoSave
    /\ FormClicked
    /\ \E rows \in CostDrafts : SetForm(d, [form[d] EXCEPT !.rows = rows])
    /\ UNCHANGED <<store, opening, saving, meant, reported, missed, savedTwice>>

\* Closing is possible while the form is being saved, and does not stop the save.
Close(d) ==
    /\ form[d].open
    /\ SetForm(d, NoForm)
    /\ UNCHANGED <<store, opening, saving, meant, reported, missed, savedTwice, formsUsed>>

-------------------------------------------------------------------------------
\* The save

Others(d, u) == {e \in Editors \ {d} : saving[e].unit = u}

SubmitUnit(d) ==
    /\ form[d].open /\ saving[d] = NoSave /\ form[d].rows # <<>>
    /\ formsUsed.saves < MaxSaves
    /\ formsUsed' = [formsUsed EXCEPT !.saves = @ + 1]
    /\ LET u == form[d].unit
       IN  /\ saving' = [saving EXCEPT ![d] =
                  [at |-> IF u = None THEN "create" ELSE "patch", unit |-> u, todo |-> <<>>,
                   left |-> form[d].rows, all |-> form[d].rows, new |-> u = None]]
           /\ savedTwice' = IF u # None /\ Others(d, u) # {} THEN savedTwice \cup {u}
                            ELSE savedTwice \ {u}
    /\ UNCHANGED <<store, form, opening, meant, reported, missed>>

\* The requests of a chain: what the back end refuses, what it stores, and what the
\* page does next.
SaveRefused(s) ==
    \/ s.at # "create" /\ s.unit \notin store.live
    \/ s.todo # <<>> /\ Head(s.todo) \notin {r.id : r \in ToSet(store.costs[s.unit])}

RowAt(rows, id) == CHOOSE i \in DOMAIN rows : rows[i].id = id

StoreAfter(s) ==
    CASE s.at = "create" -> [store EXCEPT !.live = @ \cup {Len(store.costs) + 1},
                                          !.costs = Append(@, <<>>)]
      [] s.at \in {"patch", "list"} -> store
      [] s.at = "rows" /\ s.todo # <<>> ->
             [store EXCEPT !.costs[s.unit] = RemoveAt(@, RowAt(@, Head(s.todo)))]
      [] OTHER -> [store EXCEPT !.made = @ + 1, !.costs[s.unit] =
                      Append(@, [id |-> <<0, store.made + 1>>, kind |-> Head(s.left)])]

\* Of a new unit no rows have been shown.
MeantAfter(s) == IF s.at = "create" THEN Append(meant, <<>>) ELSE meant

SaveAfter(s) ==
    CASE s.at = "create" -> [s EXCEPT !.at = "rows", !.unit = Len(store.costs) + 1]
      [] s.at = "patch"  -> [s EXCEPT !.at = "list"]
      [] s.at = "list"   -> [s EXCEPT !.at = "rows", !.todo = RowIds(store.costs[s.unit])]
      [] s.at = "rows" /\ s.todo # <<>> -> [s EXCEPT !.todo = Tail(@)]
      [] OTHER -> [s EXCEPT !.left = Tail(@)]

SaveFinished(s) == s.at = "rows" /\ s.todo = <<>> /\ s.left = <<>>

AnswerSave(d) ==
    LET s == saving[d]
    IN  /\ s # NoSave /\ ~SaveFinished(s) /\ ~SaveRefused(s)
        /\ store' = StoreAfter(s) /\ meant' = MeantAfter(s)
        /\ saving' = [saving EXCEPT ![d] = SaveAfter(s)]
        /\ UNCHANGED <<form, opening, reported, missed, savedTwice, formsUsed>>

\* The catch of handleSubmit: the form stays, with a message.
SaveFails(d, u) ==
    /\ saving' = [saving EXCEPT ![d] = NoSave]
    /\ LET seen == form[d].open /\ form[d].unit = IF saving[d].new THEN None ELSE u
       IN  /\ reported' = IF seen THEN reported \cup {u} ELSE reported
           /\ missed'   = IF seen THEN missed ELSE missed \cup {u}
    /\ UNCHANGED <<form, opening, savedTwice>>

RefuseSave(d) ==
    /\ saving[d] # NoSave /\ ~SaveFinished(saving[d]) /\ SaveRefused(saving[d])
    /\ SaveFails(d, saving[d].unit)
    /\ UNCHANGED <<store, meant, formsUsed>>

\* A plausible slip: the loop over the rows catches the error of one and goes on.
FaultSkipsRow(d) ==
    LET s == saving[d]
    IN  /\ s.at = "rows" /\ s.todo = <<>> /\ s.left # <<>> /\ formsUsed.faults < MaxSaveFaults
        /\ formsUsed' = [formsUsed EXCEPT !.faults = @ + 1]
        /\ saving' = [saving EXCEPT ![d] = SaveAfter(s)]
        /\ UNCHANGED <<store, form, opening, meant, reported, missed, savedTwice>>

\* A request is lost, or its answer.
LoseSave(d) ==
    LET s == saving[d]
    IN  /\ s # NoSave /\ formsUsed.faults < MaxSaveFaults
        /\ formsUsed' = [formsUsed EXCEPT !.faults = @ + 1]
        /\ \/ UNCHANGED <<store, meant>>
           \/ /\ ~SaveFinished(s) /\ ~SaveRefused(s)
              /\ store' = StoreAfter(s) /\ meant' = MeantAfter(s)
        /\ SaveFails(d, IF s.at = "create" THEN None ELSE s.unit)

\* The lists are fetched again and the form is closed: the one that is open by then.
SaveDone(d) ==
    LET s == saving[d]
    IN  /\ s # NoSave /\ SaveFinished(s)
        /\ saving' = [saving EXCEPT ![d] = NoSave]
        /\ SetForm(d, NoForm)
        /\ meant' = [meant EXCEPT ![s.unit] = s.all]
        /\ reported' = reported \ {s.unit}
        /\ missed' = missed \ {s.unit}
        /\ UNCHANGED <<store, opening, savedTwice, formsUsed>>

\* The button of the unit's page: a unit with a row of costs is not deleted, for its foreign key.
RemoveUnit(u) ==
    /\ u \in store.live /\ store.costs[u] = <<>>
    /\ store' = [store EXCEPT !.live = @ \ {u}]
    /\ UNCHANGED <<form, opening, saving, meant, reported, missed, savedTwice, formsUsed>>

EditorRest == (\A d \in Editors : saving[d] = NoSave) /\ UNCHANGED editorVars

EditorNext ==
    \/ EditorRest
    \/ \E d \in Editors :
          \/ OpenCreate(d) \/ Fill(d) \/ Close(d) \/ SubmitUnit(d)
          \/ AnswerSave(d) \/ RefuseSave(d) \/ LoseSave(d) \/ SaveDone(d)
          \/ \E u \in Units : OpenEdit(d, u) \/ RowsArrive(d, u)
    \/ \E u \in Units : RemoveUnit(u)

EditorSpec == EditorInit /\ [][EditorNext]_editorVars

-------------------------------------------------------------------------------
\* The rows of a unit are those of the last save that ended well, unless a save is
\* under way or has failed before somebody's eyes: a chain that breaks off between
\* its deletions and its creations never passes for a save.  Two tabs that save one
\* unit at a time, and a form closed over a save that fails later, are left out.
NoSilentLoss ==
    \A u \in store.live \ (savedTwice \cup missed) :
        \/ RowKinds(store.costs[u]) = meant[u]
        \/ u \in reported
        \/ \E d \in Editors : saving[d].unit = u
===============================================================================
