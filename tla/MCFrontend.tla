------------------------------- MODULE MCFrontend -------------------------------
(***************************************************************************)
(* Small instances of the four models of what runs before the back end: the *)
(* tenant's page, the pages with their forms, the form of a unit, and the   *)
(* session of a browser.  They share nothing; a behaviour follows one of    *)
(* them, chosen at the start, and the others rest in an initial state.     *)
(***************************************************************************)
EXTENDS MCTenantDesk, Screens, AllPages, UnitEditor, Sessions

VARIABLE part   \* the model that is followed

\* A unit with two rows of costs, one with a single row, and what a user types in.
TwoUnits == <<<<"rent", "power">>, <<"rent">>>>
OneRow   == {<<"water">>}

SomeDay      == CHOOSE day \in Date : TRUE
SomeResident == CHOOSE x \in Residents : TRUE

FrontendInit ==
    /\ part \in {"desk", "screens", "editor", "sessions"}
    /\ ScreensInit
    /\ part # "screens" => scene.page = "leasesTab" /\ scene.slot = "users"
    /\ Begin
    /\ part # "desk" => today = SomeDay /\ home = [a \in Desks |-> SomeResident]
    /\ EditorInit
    /\ SessionsInit
    /\ part # "sessions" => tokens = <<>>

FrontendNext ==
    \/ /\ part = "desk" /\ DeskNext
       /\ UNCHANGED <<part, screenVars, editorVars, sessionVars>>
    \/ /\ part = "screens" /\ ScreensNext
       /\ UNCHANGED <<part, deskVars, editorVars, sessionVars>>
    \/ /\ part = "editor" /\ EditorNext
       /\ UNCHANGED <<part, deskVars, screenVars, sessionVars>>
    \/ /\ part = "sessions" /\ SessionsNext
       /\ UNCHANGED <<part, deskVars, screenVars, editorVars>>

FrontendSpec ==
    FrontendInit
    /\ [][FrontendNext]_<<part, deskVars, screenVars, editorVars, sessionVars>>
===============================================================================
