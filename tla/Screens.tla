--------------------------------- MODULE Screens ---------------------------------
(***************************************************************************)
(* A browser tab on the page of a record: what it shows while answers come  *)
(* late, fail, or belong to the record that was open before.               *)
(*                                                                         *)
(* One slot of one page is watched.  Data has versions: ver[k] counts the   *)
(* changes of record k that the slot depends on, and the slot shows a       *)
(* version of a record, or nothing.                                         *)
(***************************************************************************)
EXTENDS PageRules

CONSTANTS
    Records,    \* records of the page's kind
    MaxActs,    \* bound: changes of the route and clicks, together
    MaxErrors   \* bound: requests that fail

\* There is a record, and no record is named like none.
ASSUME RecordsAssumption == Records # {} /\ Records \cap {Nil, "nobody"} = {}

VARIABLES
    scene,    \* the page, the slot and the form that are watched; it never changes
    route,    \* the record in the address
    ver,      \* versions at the back end
    shown,    \* what the slot shows
    draft,    \* the record that the open form is for, and if it holds text not yet sent
    running,  \* tasks under way
    flags,    \* flags that are up
    broken,   \* an error stands in place of the page, or the page was left
    used,     \* moves, clicks and errors so far
    rush,     \* "left": a click was under way when the route moved on; "kept": a form was
              \* open then, and stayed; "late": an answer for an older route was shown, or
              \* lowered a flag; "early": a click was made while the page was busy;
              \* "gone": the page was left; "lost": an answer took unsent text away
    denied    \* clicks that ended in an error message although the change was stored

screenVars ==
    <<scene, route, ver, shown, draft, running, flags, broken, used, rush, denied>>

OfferedBy(p) == UNION {DOMAIN part.offers : part \in Views[p]}

\* Every click is offered by some part of its page, and every form is opened by a click
\* or filled by a load.
ASSUME ViewsAssumption ==
    \A p \in DOMAIN Pages :
        /\ \A t \in DOMAIN Pages[p] : Pages[p][t].start \in {"click", "local"} => t \in OfferedBy(p)
        /\ \A x \in {part \in Views[p] : part.form # Nil} :
              x.form \in OfferedBy(p) \cup UNION {Pages[p][t].fills : t \in DOMAIN Pages[p]}

\* Each slot and each form of each page.
WatchesOf(p) ==
    {[page |-> p, slot |-> s, form |-> Nil] :
        s \in SlotsOn(p)}
    \cup
    {[page |-> p, slot |-> part.fills, form |-> part.form] :
        part \in {x \in Views[p] : x.form # Nil /\ DOMAIN x.offers # {"type"}}}

Watches == UNION {WatchesOf(p) : p \in DOMAIN Pages}

\* Of each watch: the kinds of data behind its slot, and the tasks and parts that matter.
SceneOf(w) ==
    LET page  == Pages[w.page]
        kinds == KindsOf(page, w.slot)
        forms == {x \in Views[w.page] : x.form = w.form /\ w.form # Nil}
        saves == (UNION {DOMAIN x.offers : x \in forms}) \cap DOMAIN page
        own   == {t \in DOMAIN page :
                     \/ w.slot \in SlotsOf(page[t]) \/ page[t].flag = "loading"
                     \/ \E s \in StepsOf(page[t]) : Reaches(s, kinds)
                     \/ \E c \in page[t].calls : w.slot \in SlotsOf(page[c])
                     \/ t \in saves
                     \/ w.form \in page[t].clears \cup page[t].fills \cup page[t].shuts}
        parts == {x \in Views[w.page] :
                     w.slot \in x.shows \/ DOMAIN x.offers \cap (own \cup {w.form}) # {}}
                 \cup forms
    IN  [page |-> w.page, slot |-> w.slot, form |-> w.form, kinds |-> kinds,
         tasks |-> [t \in own |-> page[t]], parts |-> parts, saves |-> saves]

Tasks     == scene.tasks
Parts     == scene.parts
Saves     == scene.saves
Of(r)     == Tasks[r.task]
StepOf(r) == Of(r).steps[r.step]

\* No form open; nothing fetched yet, or nothing to show.
NoDraft == [of |-> Nil, typed |-> FALSE]
Unset == [of |-> Nil, version |-> 0]
Empty == [of |-> "nobody", version |-> 0]

\* A task as it starts, for the record of the route.
Start(t, key, nr) ==
    [task |-> t, key |-> key, nr |-> nr, live |-> TRUE, step |-> 1, at |-> "sent",
     got |-> Unset, stored |-> FALSE]

Flags(ts)  == {Tasks[t].flag : t \in ts} \ {Nil}
Clears(ts, x) == \E t \in ts : x \in Tasks[t].clears
Cleared(ts, old) == IF Clears(ts, scene.slot) THEN Empty ELSE old

OnRoute == {t \in DOMAIN Tasks : Tasks[t].start = "route"}

\* The name of the record that is opened first is arbitrary.
First == CHOOSE k \in Records : TRUE

ScreensInit ==
    /\ scene \in {SceneOf(w) : w \in Watches}
    /\ route = First
    /\ ver = [k \in Records |-> 0]
    /\ shown = Empty
    /\ draft = NoDraft
    /\ running = {Start(t, route, 0) : t \in OnRoute}
    /\ flags = Flags(OnRoute)
    /\ broken = FALSE
    /\ used = [moves |-> 0, clicks |-> 0, errors |-> 0]
    /\ rush = {}
    /\ denied = {}

\* Another record of the same kind: the page stays mounted, its effects are cleaned
\* up and run again.
Move(key) ==
    /\ key # route /\ used.moves + used.clicks < MaxActs
    /\ scene.page \notin Unrouted /\ "gone" \notin rush
    /\ route' = key
    /\ used' = [used EXCEPT !.moves = @ + 1]
    /\ running' = {[r EXCEPT !.live = FALSE] : r \in running}
                  \cup {Start(t, key, used'.moves) : t \in OnRoute}
    /\ flags' = flags \cup Flags(OnRoute)
    /\ shown' = Cleared(OnRoute, shown)
    /\ draft' = IF Clears(OnRoute, scene.form) THEN NoDraft ELSE draft
    /\ broken' = FALSE
    /\ rush' = rush \cup {x \in {"left"} : \E r \in running : Of(r).start = "click"}
                    \cup {x \in {"kept"} : draft' # NoDraft}
    /\ UNCHANGED <<scene, ver, denied>>

\* A part stands in its place, and a button or a field of it can be used.  A form in the
\* row of a list is there while the list shows the row.
Drawn(part) == ~broken /\ part.waits \cap flags = {}

Opened(part) ==
    /\ draft.of # Nil
    /\ part.fills \in part.owns => shown.of = draft.of

Watched(part) == part.form = scene.form /\ part.form # Nil

CanUse(x) ==
    \E part \in Parts :
        /\ x \in DOMAIN part.offers /\ Drawn(part) /\ part.offers[x] \cap flags = {}
        /\ x \in Saves \cup {"type", "close"} => Watched(part)
        /\ Watched(part) => Opened(part)

Press(t) ==
    /\ Tasks[t].start = "click" /\ used.moves + used.clicks < MaxActs
    /\ CanUse(t)
    /\ running' = running \cup {Start(t, route, used.clicks)}
    /\ flags' = flags \cup Flags({t})
    /\ draft' = IF t \in Saves THEN [draft EXCEPT !.typed = FALSE] ELSE draft
    /\ used' = [used EXCEPT !.clicks = @ + 1]
    /\ rush' = rush \cup {x \in {"early"} : running # {}}
    /\ UNCHANGED <<scene, route, ver, shown, broken, denied>>

\* The page takes the answers in.
Shown(r) ==
    LET s == StepOf(r)
    IN  IF scene.slot \notin s.shows THEN shown
        ELSE IF s.adds THEN [shown EXCEPT !.of = r.key, !.version = @ + 1]
        ELSE IF r.got = Unset THEN shown
        ELSE r.got

\* What a click changes on the page alone.
Change(t) ==
    /\ Tasks[t].start = "local" /\ used.moves + used.clicks < MaxActs
    /\ CanUse(t)
    /\ shown' = Shown(Start(t, route, used.clicks))
    /\ draft' = IF t \in Saves THEN NoDraft ELSE draft
    /\ used' = [used EXCEPT !.clicks = @ + 1]
    /\ UNCHANGED <<scene, route, ver, running, flags, broken, rush, denied>>

\* The watched form is opened, from what its slot shows or empty; something is typed into
\* it; and it is given up.
OpenForm ==
    /\ draft = NoDraft /\ CanUse(scene.form)
    /\ scene.slot # Nil => shown.of \in Records
    /\ draft' = [NoDraft EXCEPT !.of = IF scene.slot = Nil THEN route ELSE shown.of]
    /\ flags' = flags \ UNION {part.frees : part \in {x \in Parts : Watched(x)}}
    /\ UNCHANGED <<scene, route, ver, shown, running, broken, used, rush, denied>>

TypeIn ==
    /\ ~draft.typed /\ CanUse("type")
    /\ draft' = [draft EXCEPT !.typed = TRUE]
    /\ UNCHANGED <<scene, route, ver, shown, running, flags, broken, used, rush, denied>>

CloseForm ==
    /\ draft # NoDraft /\ CanUse("close")
    /\ draft' = NoDraft
    /\ UNCHANGED <<scene, route, ver, shown, running, flags, broken, used, rush, denied>>

-------------------------------------------------------------------------------
\* The back end answers the requests of a step.
Reply(r) ==
    LET s   == StepOf(r)
        new == [ver EXCEPT ![r.key] = @ + (IF Reaches(s, scene.kinds) THEN 1 ELSE 0)]
    IN  /\ r.at = "sent"
        /\ ver' = new
        /\ running' = (running \ {r}) \cup
               {[r EXCEPT !.at = "answered", !.stored = @ \/ s.sends # Nil,
                          !.got = IF scene.slot \in DOMAIN s.gets
                                  THEN [of |-> r.key, version |-> new[r.key]] ELSE @]}
        /\ UNCHANGED <<scene, route, shown, draft, flags, broken, used, rush, denied>>

\* One of them fails: what the watched slot gets of it, or the end of the task.
Outcomes(s) ==
    (IF scene.slot \in DOMAIN s.gets THEN {s.gets[scene.slot].else} ELSE {})
    \cup (IF \/ s.sends # Nil
             \/ \E x \in DOMAIN s.gets \ {scene.slot} : s.gets[x].else = "fail"
          THEN {"fail"} ELSE {})

Error(r) ==
    /\ r.at = "sent" /\ used.errors < MaxErrors
    /\ used' = [used EXCEPT !.errors = @ + 1]
    /\ \E out \in Outcomes(StepOf(r)) :
          running' = (running \ {r}) \cup
              {CASE out = "fail"  -> [r EXCEPT !.at = "failed"]
                 [] out = "blank" -> [r EXCEPT !.at = "answered", !.got = Empty]
                 [] out = "keep"  -> [r EXCEPT !.at = "answered", !.got = Unset]}
    /\ UNCHANGED <<scene, route, ver, shown, draft, flags, broken, rush, denied>>

\* The end of a task: its flag is lowered, and the loads it calls begin.
WillLower(r) ==
    CASE Of(r).lowers = "always" -> TRUE
      [] Of(r).lowers = "live"   -> r.live
      [] Of(r).lowers = "answer" -> r.at # "failed"

Runs(t) == {x \in running : x.task = t}
Joined(t) == Tasks[t].again = "cached" /\ shown = Empty /\ Runs(t) # {}

Finish(r, called) ==
    LET begun == {t \in called : ~Joined(t)}
        over  == UNION {Runs(t) : t \in {x \in begun : Tasks[x].again # "beside"}}
    IN  /\ running' = (running \ ({r} \cup over))
                      \cup {[Start(t, r.key, r.nr) EXCEPT !.live = r.live] : t \in begun}
        /\ flags' = (IF WillLower(r) THEN flags \ {Of(r).flag} ELSE flags) \cup Flags(begun)

\* The end of a task: a form that its answer is put into, unless it was given up, one
\* whose click has succeeded, and one that is shut.
DraftAfter(r) ==
    IF scene.form \in Of(r).fills /\ (draft = NoDraft => r.task \notin Saves)
    THEN [NoDraft EXCEPT !.of = r.key]
    ELSE IF r.task \in Saves \/ scene.form \in Of(r).shuts THEN NoDraft
    ELSE draft

Late(r) ==
    /\ ~r.live
    /\ \/ Shown(r) # shown
       \/ Of(r).flag \in flags /\ WillLower(r)
       \/ scene.form \in Of(r).fills

Resume(r) ==
    LET dropped == StepOf(r).guarded /\ ~r.live
        over    == r.step = Len(Of(r).steps)
        done    == over /\ ~dropped
        called  == IF dropped THEN {} ELSE Of(r).calls \cap DOMAIN Tasks
        next    == [r EXCEPT !.step = @ + 1,
                             !.at = IF Of(r).steps[r.step + 1].gets = NoSlots
                                       /\ Of(r).steps[r.step + 1].sends = Nil
                                    THEN "answered" ELSE "sent"]
    IN  /\ r.at = "answered"
        /\ IF dropped \/ over
           THEN Finish(r, called)
           ELSE running' = (running \ {r}) \cup {next} /\ UNCHANGED flags
        /\ shown' = IF dropped THEN shown
                    ELSE Cleared(IF over THEN called ELSE {}, Shown(r))
        /\ draft' = IF done THEN DraftAfter(r) ELSE draft
        /\ broken' = (broken \/ (done /\ Of(r).leaves))
        /\ rush' = rush \cup {x \in {"late"} : ~dropped /\ Late(r)}
                        \cup {x \in {"gone"} : done /\ Of(r).leaves}
                        \cup {x \in {"lost"} : draft.typed /\ ~draft'.typed}
        /\ UNCHANGED <<scene, route, ver, used, denied>>

\* The error branch.  A load that is guarded does not report for an older route.
Fail(r) ==
    /\ r.at = "failed"
    /\ Finish(r, {})
    /\ broken' = (broken \/ (Of(r).start \in {"route", "called"} /\ (r.live \/ ~StepOf(r).guarded)))
    /\ denied' = IF r.stored THEN denied \cup {r.task} ELSE denied
    /\ rush' = rush \cup {x \in {"late"} : ~r.live /\ WillLower(r)}
    /\ UNCHANGED <<scene, route, ver, shown, draft, used>>

\* A page at rest may stay as it is.
Rest == running = {} /\ UNCHANGED screenVars

ScreensNext ==
    \/ Rest
    \/ \E k \in Records : Move(k)
    \/ \E t \in DOMAIN Tasks : Press(t) \/ Change(t)
    \/ OpenForm \/ TypeIn \/ CloseForm
    \/ \E r \in running : Reply(r) \/ Error(r) \/ Resume(r) \/ Fail(r)

ScreensSpec == ScreensInit /\ [][ScreensNext]_screenVars

-------------------------------------------------------------------------------
\* The slot can be seen: some part draws it, and not only rows that are the page's own.
Visible ==
    \E part \in Parts :
        /\ scene.slot \in part.shows /\ Drawn(part)
        /\ scene.slot \in part.needs => shown # Empty
        /\ scene.slot \in part.owns  => shown.of \in {route, Empty.of}

\* What a page draws is of the record in its address, whatever order the answers come in,
\* unless an unguarded effect, or a click that was left behind, has shown an older answer.
OwnRecordShown ==
    /\ Visible /\ <<scene.page, scene.slot>> \notin Lingering
    /\ "late" \in rush => <<scene.page, scene.slot>> \in GuardedSlots /\ "left" \notin rush
    => shown.of \in {route, Empty.of}

\* But for the slots of LeftStale a page at rest, on which nothing failed and nobody hurried,
\* shows the user's own changes: every chain of requests ends with the slots it has changed.
SavedIsShown ==
    /\ <<scene.page, scene.slot>> \notin LeftStale /\ running = {} /\ scene.slot # Nil
    /\ used.errors = 0 /\ used.moves = 0 /\ rush \subseteq {"lost"}
    => /\ shown.of = route
       /\ \/ shown.version = ver[route]
          \/ <<scene.page, scene.slot>> \in NeverStored /\ shown.version > ver[route]

\* But on the two pages of LeftUp a flag that is up - a spinner, a button that cannot be
\* pressed - belongs to a task that will lower it, however often the route changes under it.
NoStuckSpinner ==
    scene.page \notin LeftUp =>
        \A f \in flags :
            \E r \in running : Of(r).flag = f /\ (Of(r).lowers = "always" \/ r.live)

\* Of a click that catches the errors of the loads that follow its change, a message that the
\* change failed means that it was not stored.
FailedMeansNotSaved == \A t \in denied : ~Careful(scene.page, t)

\* The loads under way, of the present address, that will fill the watched slot.
Awaited ==
    \E r \in running :
        /\ r.live /\ Of(r).start # "click"
        /\ \E t \in {r.task} \cup (Of(r).calls \cap DOMAIN Tasks) : scene.slot \in SlotsOf(Tasks[t])

\* Elsewhere than on the pages and in the slots of HastyPages and ShownEmpty, and in those of
\* tenant-app's cache, a slot is drawn as empty, and figures are computed without it, only when
\* the answer says so.
EmptyMeansNone ==
    /\ scene.page \notin HastyPages /\ ~IsCached(scene.page, scene.slot)
    /\ <<scene.page, scene.slot>> \notin ShownEmpty
    /\ Visible /\ shown = Empty /\ used.errors = 0
    => ~Awaited

\* What the forms of OwnForms send is for the record in the address, unless an older answer
\* was shown.
SendsOwnDraft ==
    used'.clicks # used.clicks /\ "late" \notin rush /\ <<scene.page, scene.form>> \in OwnForms =>
        \A r \in running' \ running : r.task \in Saves => draft.of \in {Nil, r.key}
OwnDraft == [][SendsOwnDraft]_screenVars

\* No click that raises a flag and is not free is made again while it runs; of the two whose
\* flag is shared, only until something was left behind.
SendsOnce ==
    used'.clicks # used.clicks =>
        \A r \in running' \ running :
            /\ Of(r).flag # Nil /\ <<scene.page, r.task>> \notin FreeClicks
            /\ <<scene.page, r.task>> \in SharedFlags => rush \cap {"left", "late"} = {}
            => \A q \in running : <<q.task, q.key>> # <<r.task, r.key>>
SentOnce == [][SendsOnce]_screenVars

\* Of the forms that cannot be typed into while they are saved, no answer takes away what
\* was typed and not sent, until a click was left behind or an older answer was shown.
TypedIsKept ==
    <<scene.page, scene.form>> \in HeldForms /\ "lost" \in rush =>
        rush \cap {"left", "late"} # {}
==================================================================================
